------------------------ MODULE OperationLockProofs ------------------------
(* Proofs about OperationLock: operations exclude each other, `owner` is   *)
(* honest, and a job is never refused by its own lock.                     *)
EXTENDS OperationLock, TLAPS

-----------------------------------------------------------------------------
(* The invariant                                                           *)

\* Who started whom is a forest: an ancestor is reached through a child of it,
\* and a process that is not started yet is nobody's ancestor.
Forest ==
    /\ \A q \in Process : \A a \in line[q] : \E b \in line[q] \cup {q} : parent[b] = a
    /\ \A b \in Process : parent[b] # NoProcess => line[b] = line[parent[b]] \cup {parent[b]}
    /\ \A p \in Process : \A a \in line[p] : p \notin line[a]
    /\ \A q \in Process : pc[q] = "none" =>
          line[q] = {} /\ \A p \in Process : q \notin line[p] /\ parent[p] # q
    /\ \A c \in registered : parent[c] # NoProcess

\* Exactly the processes with an ancestor inherited ISUSCOPE_LOCK_HELD, and
\* those that did do not lock.
HeldOK ==
    /\ \A p \in Process : held[p] <=> line[p] # {}
    /\ \A p \in Process : kind[p] = "cmd" /\ pc[p] # "none" => held[p]
    /\ \A p \in Process : pc[p] \in {"open", "try", "busy", "create", "write"} => ~held[p]

\* There is one lock file; the flock on it and the OperationLock go together.
FileOK ==
    /\ \A p \in Process : fd[p] \in {0, lockfile}
    /\ \A p \in Process : pc[p] \in {"try", "busy", "create", "write"} => fd[p] # 0
    /\ \A p \in Process : pc[p] \in {"create", "write"} \/ guard[p] =>
          fd[p] # 0 /\ holder[fd[p]] = p
    /\ \A i \in Inode : holder[i] # NoProcess =>
          pc[holder[i]] \in {"create", "write"} \/ guard[holder[i]]
    /\ \A p \in Process : guard[p] => pc[p] \in {"spawn", "wait", "work", "unown", "close"}
    /\ \A p \in Process : pc[p] \in {"unown", "close"} => guard[p]

\* Unless it is an orphan, a process that is active has ancestors that wait
\* for it, one of which has the lock; one without ancestors has it itself
\* while it works.
Waiting ==
    \A p \in Process : pc[p] \in Active =>
        Orphan(p) \/ \A a \in line[p] : pc[a] \in {"wait", "work"}
Covered ==
    /\ \A p \in Process : pc[p] \in Active /\ line[p] # {} =>
          Orphan(p) \/ \E g \in line[p] : guard[g]
    /\ \A p \in Working : line[p] = {} => guard[p]

\* `owner` names the holder of the OperationLock until its Drop removes it.
OwnerOK ==
    /\ \A p \in Process : owner = p => pc[p] \in Cut \/ (guard[p] /\ pc[p] # "close")
    /\ \A p \in Process : guard[p] /\ pc[p] # "close" => owner = p

LockInv == TypeOK /\ Forest /\ HeldOK /\ FileOK /\ Waiting /\ Covered /\ OwnerOK
-----------------------------------------------------------------------------
(* Steps keep each part of the invariant                                  *)

\* What SIGKILL does to the processes in D and to all others.
LEMMA Killed ==
  ASSUME TypeOK, NEW D \in SUBSET Process,
         NEW step \in [Process -> Active \cup Cut \cup {"none", "ended"}], Die(D, step)
  PROVE  /\ pc' \in [Process -> Active \cup Cut \cup {"none", "ended"}]
         /\ \A q \in D : pc'[q] = "killed" /\ fd'[q] = 0 /\ ~guard'[q]
         /\ \A q \in Process \ D : /\ pc'[q] = step[q]
                                  /\ fd'[q] = fd[q] /\ guard'[q] = guard[q]
         /\ \A i \in Inode : holder'[i] = IF holder[i] \in D THEN NoProcess ELSE holder[i]
         /\ fd' \in [Process -> Inode \cup {0}] /\ guard' \in [Process -> BOOLEAN]
         /\ holder' \in [Inode -> Process \cup {NoProcess}]
         /\ UNCHANGED <<lockfile, owner>>
<1>1. /\ pc' \in [Process -> Active \cup Cut \cup {"none", "ended"}]
      /\ \A q \in D : pc'[q] = "killed"
      /\ \A q \in Process \ D : pc'[q] = step[q]
  BY DEF Die, Cut
<1>2. /\ guard' \in [Process -> BOOLEAN]
      /\ \A q \in D : ~guard'[q]
      /\ \A q \in Process \ D : guard'[q] = guard[q]
  <2>1. guard \in [Process -> BOOLEAN]
    BY DEF TypeOK
  <2>2. guard' = [q \in Process |-> guard[q] /\ q \notin D]
    BY DEF Die
  <2>. QED  BY <2>1, <2>2, Zenon
<1>3. /\ fd' \in [Process -> Inode \cup {0}]
      /\ \A q \in D : fd'[q] = 0
      /\ \A q \in Process \ D : fd'[q] = fd[q]
  BY DEF Die, TypeOK
<1>4. /\ holder' \in [Inode -> Process \cup {NoProcess}]
      /\ \A i \in Inode : holder'[i] = IF holder[i] \in D THEN NoProcess ELSE holder[i]
  BY DEF Die, TypeOK
<1>. QED  BY <1>1, <1>2, <1>3, <1>4 DEF Die

\* What Terminate does to the group of the child and to all others.
LEMMA GroupKilled ==
  ASSUME TypeOK, NEW p \in Process, NEW c \in Process, Terminate(p, c)
  PROVE  /\ pc' \in [Process -> Active \cup Cut \cup {"none", "ended"}]
         /\ \A q \in Group(c) : /\ q \in Process /\ pc[q] \in Active
                                /\ pc'[q] = "killed" /\ fd'[q] = 0 /\ ~guard'[q]
         /\ \A q \in Process \ Group(c) : /\ pc'[q] = pc[q]
                                          /\ fd'[q] = fd[q] /\ guard'[q] = guard[q]
         /\ \A i \in Inode : holder'[i] = IF holder[i] \in Group(c) THEN NoProcess
                                           ELSE holder[i]
         /\ fd' \in [Process -> Inode \cup {0}] /\ guard' \in [Process -> BOOLEAN]
         /\ holder' \in [Inode -> Process \cup {NoProcess}]
         /\ UNCHANGED <<kind, parent, line, held, registered, leaving, lockfile, owner>>
<1>1. Group(c) \in SUBSET Process /\ \A q \in Group(c) : pc[q] \in Active
  BY DEF Group
<1>2. /\ pc \in [Process -> Active \cup Cut \cup {"none", "ended"}]
      /\ Die(Group(c), pc) /\ UNCHANGED <<kind, parent, line, held, registered, leaving>>
  BY DEF Terminate, TypeOK, tree
<1>3. /\ pc' \in [Process -> Active \cup Cut \cup {"none", "ended"}]
      /\ \A q \in Group(c) : pc'[q] = "killed" /\ fd'[q] = 0 /\ ~guard'[q]
      /\ \A q \in Process \ Group(c) : /\ pc'[q] = pc[q]
                                       /\ fd'[q] = fd[q] /\ guard'[q] = guard[q]
      /\ \A i \in Inode : holder'[i] = IF holder[i] \in Group(c) THEN NoProcess
                                        ELSE holder[i]
      /\ fd' \in [Process -> Inode \cup {0}] /\ guard' \in [Process -> BOOLEAN]
      /\ holder' \in [Inode -> Process \cup {NoProcess}]
      /\ UNCHANGED <<lockfile, owner>>
  <2>1. PICK D \in SUBSET Process, step \in [Process -> Active \cup Cut \cup {"none", "ended"}] :
           D = Group(c) /\ step = pc
    BY <1>1, <1>2
  <2>2. Die(D, step)
    BY <1>2, <2>1 DEF Die
  <2>3. /\ pc' \in [Process -> Active \cup Cut \cup {"none", "ended"}]
        /\ \A q \in D : pc'[q] = "killed" /\ fd'[q] = 0 /\ ~guard'[q]
        /\ \A q \in Process \ D : /\ pc'[q] = step[q]
                                 /\ fd'[q] = fd[q] /\ guard'[q] = guard[q]
        /\ \A i \in Inode : holder'[i] = IF holder[i] \in D THEN NoProcess ELSE holder[i]
        /\ fd' \in [Process -> Inode \cup {0}] /\ guard' \in [Process -> BOOLEAN]
        /\ holder' \in [Inode -> Process \cup {NoProcess}]
        /\ UNCHANGED <<lockfile, owner>>
    BY <2>2, Killed
  <2>. QED  BY <2>1, <2>3
<1>. QED  BY <1>1, <1>2, <1>3

\* What a second signal does to the registered children of the run, to the
\* run and to all others.
LEMMA RegisteredKilled ==
  ASSUME TypeOK, Forest, NEW p \in Process, SecondSignal(p)
  PROVE  /\ pc' \in [Process -> Active \cup Cut \cup {"none", "ended"}]
         /\ \A q \in Registered(p) : /\ q \in Process /\ pc[q] \in Active /\ q # p
                                     /\ pc'[q] = "killed" /\ fd'[q] = 0 /\ ~guard'[q]
         /\ \A q \in Process \ Registered(p) : /\ q # p => pc'[q] = pc[q]
                                               /\ fd'[q] = fd[q] /\ guard'[q] = guard[q]
         /\ pc[p] = "work" /\ pc'[p] = IF guard[p] THEN "unown" ELSE "exit"
         /\ \A i \in Inode : holder'[i] = IF holder[i] \in Registered(p) THEN NoProcess
                                           ELSE holder[i]
         /\ fd' \in [Process -> Inode \cup {0}] /\ guard' \in [Process -> BOOLEAN]
         /\ holder' \in [Inode -> Process \cup {NoProcess}]
         /\ leaving' = leaving \cup {p}
         /\ UNCHANGED <<kind, parent, line, held, registered, lockfile, owner>>
         /\ \A c \in registered : parent[c] = p /\ pc[c] \in Active => pc'[c] = "killed"
<1>. DEFINE step == [pc EXCEPT ![p] = IF guard[p] THEN "unown" ELSE "exit"]
<1>1. /\ Registered(p) \in SUBSET Process
      /\ \A q \in Registered(p) : pc[q] \in Active
      /\ \A c \in registered : parent[c] = p /\ pc[c] \in Active => c \in Registered(p)
  BY DEF Registered, Group, TypeOK
<1>2. p \notin Registered(p)
  <2>1. ASSUME NEW c \in registered, parent[c] = p
        PROVE  c \in Process /\ p \in line[c] /\ c # p /\ c \notin line[p]
    BY <2>1, NoProcessAssumption DEF Forest, TypeOK
  <2>. QED  BY <2>1 DEF Registered, Group
<1>3. step \in [Process -> Active \cup Cut \cup {"none", "ended"}]
  BY DEF TypeOK, Active
<1>4. /\ pc[p] = "work" /\ Die(Registered(p), step) /\ leaving' = leaving \cup {p}
      /\ UNCHANGED <<kind, parent, line, held, registered>>
  BY DEF SecondSignal
<1>5. /\ step[p] = IF guard[p] THEN "unown" ELSE "exit"
      /\ \A q \in Process : q # p => step[q] = pc[q]
  BY DEF TypeOK
<1>. HIDE DEF step
<1>6. /\ pc' \in [Process -> Active \cup Cut \cup {"none", "ended"}]
      /\ \A q \in Registered(p) : pc'[q] = "killed" /\ fd'[q] = 0 /\ ~guard'[q]
      /\ \A q \in Process \ Registered(p) : /\ pc'[q] = step[q]
                                            /\ fd'[q] = fd[q] /\ guard'[q] = guard[q]
      /\ \A i \in Inode : holder'[i] = IF holder[i] \in Registered(p) THEN NoProcess
                                        ELSE holder[i]
      /\ fd' \in [Process -> Inode \cup {0}] /\ guard' \in [Process -> BOOLEAN]
      /\ holder' \in [Inode -> Process \cup {NoProcess}]
      /\ UNCHANGED <<lockfile, owner>>
  <2>1. PICK D \in SUBSET Process, s \in [Process -> Active \cup Cut \cup {"none", "ended"}] :
           D = Registered(p) /\ s = step
    BY <1>1, <1>3
  <2>2. Die(D, s)
    BY <1>4, <2>1 DEF Die
  <2>3. /\ pc' \in [Process -> Active \cup Cut \cup {"none", "ended"}]
        /\ \A q \in D : pc'[q] = "killed" /\ fd'[q] = 0 /\ ~guard'[q]
        /\ \A q \in Process \ D : /\ pc'[q] = s[q]
                                 /\ fd'[q] = fd[q] /\ guard'[q] = guard[q]
        /\ \A i \in Inode : holder'[i] = IF holder[i] \in D THEN NoProcess ELSE holder[i]
        /\ fd' \in [Process -> Inode \cup {0}] /\ guard' \in [Process -> BOOLEAN]
        /\ holder' \in [Inode -> Process \cup {NoProcess}]
        /\ UNCHANGED <<lockfile, owner>>
    BY <2>2, Killed
  <2>. QED  BY <2>1, <2>3
<1>. QED  BY <1>1, <1>2, <1>4, <1>5, <1>6

\* What Launch does to the new process and to all others.
LEMMA Launched ==
  ASSUME TypeOK, Forest, NEW p \in Process, NEW q \in Process, NEW k \in Kind, Launch(p, q, k)
  PROVE  /\ p # q /\ pc[q] = "none" /\ q \notin registered /\ line[q] = {}
         /\ parent'[q] = p /\ line'[q] = line[p] \cup {p}
         /\ \A r \in Process : r # q => /\ parent'[r] = parent[r] /\ line'[r] = line[r]
                                       /\ kind'[r] = kind[r]
         /\ pc'[q] \in {"work", "enter"}
         /\ \A r \in Process : r # p /\ r # q => pc'[r] = pc[r]
         /\ \/ pc[p] \in {"spawn", "work"} /\ pc'[p] \in {"wait", "work"}
            \/ p \in leaving /\ pc[p] \in {"unown", "close", "exit"} /\ pc'[p] = pc[p]
         /\ \A r \in Process : r # q /\ Orphan(r) => Orphan(r)'
         /\ Orphan(p) \/ p \in leaving => Orphan(q)'
         /\ UNCHANGED <<registered, leaving, guard, fd, lockfile, holder, owner>>
<1>1. pc[q] = "none" /\ line[q] = {} /\ parent[q] = NoProcess
  BY DEF Launch, Forest
<1>2. \/ pc[p] = "spawn" /\ pc'[p] = "wait"
      \/ pc[p] = "work" /\ pc'[p] = "work"
      \/ p \in leaving /\ pc[p] \in {"unown", "close", "exit"} /\ pc'[p] = pc[p]
  BY DEF Launch, Starts, TypeOK
<1>3. /\ p # q /\ q \notin registered
      /\ parent'[q] = p /\ line'[q] = line[p] \cup {p}
      /\ \A r \in Process : r # q => /\ parent'[r] = parent[r] /\ line'[r] = line[r]
                                    /\ kind'[r] = kind[r]
      /\ pc'[q] \in {"work", "enter"}
      /\ \A r \in Process : r # p /\ r # q => pc'[r] = pc[r]
      /\ UNCHANGED <<registered, leaving, guard, fd, lockfile, holder, owner>>
  BY <1>1, <1>2 DEF Launch, TypeOK, Forest
<1>4. ASSUME NEW r \in Process, r # q
      PROVE  /\ \A a \in line[r] : a \in Process /\ a # q
             /\ Orphan(r) => Orphan(r)'
  <2>1. \A a \in line[r] : a \in Process /\ a # q
    BY <1>1 DEF Forest, TypeOK
  <2>2. \A a \in line[r] : pc[a] = "killed" => pc'[a] = "killed"
    BY <1>2, <1>3, <2>1
  <2>3. \A c \in {r} \cup line[r] : Missed(c) => Missed(c)'
    BY <1>3, <1>4, <2>1 DEF Missed
  <2>. QED  BY <1>3, <1>4, <2>1, <2>2, <2>3 DEF Orphan
<1>5. ASSUME Orphan(p) \/ p \in leaving PROVE Orphan(q)'
  <2>1. CASE p \in leaving
    BY <1>3, <2>1 DEF Orphan, Missed
  <2>2. CASE Orphan(p)
    <3>1. Orphan(p)' /\ line'[p] = line[p]
      BY <1>3, <1>4, <2>2
    <3>. QED  BY <1>3, <3>1 DEF Orphan
  <2>. QED  BY <1>5, <2>1, <2>2
<1>. QED  BY <1>1, <1>2, <1>3, <1>4, <1>5

\* Types, and an OperationLock owns its open file.
LEMMA TypeStep ==
  ASSUME TypeOK, Forest, FileOK, [Next]_vars
  PROVE  TypeOK'
<1>1. ASSUME NEW p \in Process, NEW k \in Kind, Start(p, k)
      PROVE  TypeOK'
  BY <1>1, NoProcessAssumption, InodeAssumption
  DEF Start, Goto, tree, TypeOK, FileOK, Kind, Isuscope, Attempt, Active,
       Cut
<1>2. ASSUME NEW p \in Process, NEW q \in Process, NEW k \in Kind, Launch(p, q, k)
      PROVE  TypeOK'
  <2>1. Inherits(p) \in BOOLEAN
    BY <1>2 DEF TypeOK, Inherits
  <2>2. held' = [held EXCEPT ![q] = Inherits(p)]
    BY <1>2 DEF Launch
  <2>3. held' \in [Process -> BOOLEAN]
    <3>. held \in [Process -> BOOLEAN]
      BY DEF TypeOK
    <3>. QED  BY <2>1, <2>2, Zenon
  <2>. QED  BY <1>2, <2>3 DEF Launch, TypeOK, Kind, Isuscope, Attempt, Active
<1>3. ASSUME NEW p \in Process, HeldByParent(p) PROVE TypeOK'
  BY <1>3, NoProcessAssumption, InodeAssumption
  DEF HeldByParent, Goto, Proceeds, tree, TypeOK, FileOK, Kind, Isuscope,
       Attempt, Active, Cut
<1>4. ASSUME NEW p \in Process, Open(p) PROVE TypeOK'
  BY <1>4, NoProcessAssumption, InodeAssumption
  DEF Open, Goto, tree, TypeOK, FileOK, Kind, Isuscope, Attempt, Active,
       Cut
<1>5. ASSUME NEW p \in Process, TryLock(p) PROVE TypeOK'
  BY <1>5, NoProcessAssumption, InodeAssumption
  DEF TryLock, Goto, tree, TypeOK, FileOK, Kind, Isuscope, Attempt, Active,
       Cut
<1>6. ASSUME NEW p \in Process, Busy(p) PROVE TypeOK'
  BY <1>6, NoProcessAssumption, InodeAssumption
  DEF Busy, Goto, CloseFile, tree, TypeOK, FileOK, Kind, Isuscope, Attempt,
       Active, Cut
<1>7. ASSUME NEW p \in Process, CreateOwner(p) PROVE TypeOK'
  BY <1>7, NoProcessAssumption, InodeAssumption
  DEF CreateOwner, Goto, tree, TypeOK, FileOK, Kind, Isuscope, Attempt,
       Active, Cut
<1>8. ASSUME NEW p \in Process, WriteOwner(p) PROVE TypeOK'
  BY <1>8, NoProcessAssumption, InodeAssumption
  DEF WriteOwner, Goto, Proceeds, tree, TypeOK, FileOK, Kind, Isuscope,
       Attempt, Active, Cut
<1>9. ASSUME NEW p \in Process, AcquireFails(p) PROVE TypeOK'
  BY <1>9, NoProcessAssumption, InodeAssumption
  DEF AcquireFails, Goto, CloseFile, tree, TypeOK, FileOK, Kind, Isuscope,
       Attempt, Active, Cut
<1>10. ASSUME NEW p \in Process, NotStarted(p) PROVE TypeOK'
  BY <1>10, NoProcessAssumption, InodeAssumption
  DEF NotStarted, Goto, Gone, tree, TypeOK, FileOK, Kind, Isuscope,
       Attempt, Active, Cut
<1>11. ASSUME NEW p \in Process, Waited(p) PROVE TypeOK'
  BY <1>11, NoProcessAssumption, InodeAssumption
  DEF Waited, Goto, Gone, tree, TypeOK, FileOK, Kind, Isuscope, Attempt,
       Active, Cut
<1>12. ASSUME NEW p \in Process, Worked(p) PROVE TypeOK'
  BY <1>12, NoProcessAssumption, InodeAssumption
  DEF Worked, Goto, Gone, tree, TypeOK, FileOK, Kind, Isuscope, Attempt,
       Active, Cut
<1>13. ASSUME NEW p \in Process, RemoveOwner(p) PROVE TypeOK'
  BY <1>13, NoProcessAssumption, InodeAssumption
  DEF RemoveOwner, Goto, tree, TypeOK, FileOK, Kind, Isuscope, Attempt,
       Active, Cut
<1>14. ASSUME NEW p \in Process, Close(p) PROVE TypeOK'
  BY <1>14, NoProcessAssumption, InodeAssumption
  DEF Close, Released, Goto, CloseFile, tree, TypeOK, FileOK, Kind, Isuscope,
       Attempt, Active, Cut
<1>15. ASSUME NEW p \in Process, Kill(p) PROVE TypeOK'
  BY <1>15, NoProcessAssumption, InodeAssumption
  DEF Kill, Goto, CloseFile, tree, TypeOK, FileOK, Kind, Isuscope, Attempt,
       Active, Cut
<1>16. ASSUME NEW p \in Process, Interrupt(p) PROVE TypeOK'
  BY <1>16, NoProcessAssumption, InodeAssumption
  DEF Interrupt, Goto, CloseFile, tree, TypeOK, FileOK, Kind, Isuscope,
       Attempt, Active, Cut
<1>17. ASSUME NEW p \in Process, NEW c \in Process, Terminate(p, c)
      PROVE  TypeOK'
  BY <1>17, GroupKilled, NoProcessAssumption DEF TypeOK, Active, Cut
<1>18. ASSUME NEW p \in Process, NEW c \in Process, Register(p, c)
      PROVE  TypeOK'
  BY <1>18, NoProcessAssumption, InodeAssumption
  DEF Register, Starts, tree, TypeOK, FileOK, Kind, Isuscope, Attempt, Active, Cut
<1>19. ASSUME NEW p \in Process, SecondSignal(p)
      PROVE  TypeOK'
  BY <1>19, RegisteredKilled, NoProcessAssumption, InodeAssumption DEF TypeOK, Active, Attempt, Cut
<1>20. ASSUME NEW p \in Process, Exit(p) PROVE TypeOK'
  BY <1>20, NoProcessAssumption, InodeAssumption
  DEF Exit, Goto, tree, TypeOK, FileOK, Kind, Isuscope, Attempt, Active, Cut
<1>21. CASE UNCHANGED vars
  BY <1>21, NoProcessAssumption, InodeAssumption
  DEF vars, tree, TypeOK, FileOK, Kind, Isuscope, Attempt, Active, Cut
<1>. QED  BY <1>1, <1>2, <1>3, <1>4, <1>5, <1>6, <1>7, <1>8, <1>9,
             <1>10, <1>11, <1>12, <1>13, <1>14, <1>15, <1>16, <1>17, <1>18,
             <1>19, <1>20, <1>21
         DEF Next, Acquire, Release, Signalled

\* Only Start and Launch change the forest, and they start a new process.
LEMMA ForestStep ==
  ASSUME TypeOK, Forest, [Next]_vars
  PROVE  Forest'
<1>1. ASSUME NEW p \in Process, NEW k \in Kind, Start(p, k)
      PROVE  Forest'
  BY <1>1, NoProcessAssumption
  DEF Start, Goto, tree, TypeOK, Forest, Kind, Isuscope, Attempt, Active,
       Cut
<1>2. ASSUME NEW p \in Process, NEW q \in Process, NEW k \in Kind, Launch(p, q, k)
      PROVE  Forest'
  BY <1>2, NoProcessAssumption
  DEF Launch, Starts, tree, TypeOK, Forest, Kind, Isuscope, Attempt, Active, Cut
<1>3. ASSUME NEW p \in Process, HeldByParent(p) PROVE Forest'
  BY <1>3, NoProcessAssumption
  DEF HeldByParent, Goto, Proceeds, tree, TypeOK, Forest, Kind, Isuscope,
       Attempt, Active, Cut
<1>4. ASSUME NEW p \in Process, Open(p) PROVE Forest'
  BY <1>4, NoProcessAssumption
  DEF Open, Goto, tree, TypeOK, Forest, Kind, Isuscope, Attempt, Active,
       Cut
<1>5. ASSUME NEW p \in Process, TryLock(p) PROVE Forest'
  BY <1>5, NoProcessAssumption
  DEF TryLock, Goto, tree, TypeOK, Forest, Kind, Isuscope, Attempt, Active,
       Cut
<1>6. ASSUME NEW p \in Process, Busy(p) PROVE Forest'
  BY <1>6, NoProcessAssumption
  DEF Busy, Goto, CloseFile, tree, TypeOK, Forest, Kind, Isuscope, Attempt,
       Active, Cut
<1>7. ASSUME NEW p \in Process, CreateOwner(p) PROVE Forest'
  BY <1>7, NoProcessAssumption
  DEF CreateOwner, Goto, tree, TypeOK, Forest, Kind, Isuscope, Attempt,
       Active, Cut
<1>8. ASSUME NEW p \in Process, WriteOwner(p) PROVE Forest'
  BY <1>8, NoProcessAssumption
  DEF WriteOwner, Goto, Proceeds, tree, TypeOK, Forest, Kind, Isuscope,
       Attempt, Active, Cut
<1>9. ASSUME NEW p \in Process, AcquireFails(p) PROVE Forest'
  BY <1>9, NoProcessAssumption
  DEF AcquireFails, Goto, CloseFile, tree, TypeOK, Forest, Kind, Isuscope,
       Attempt, Active, Cut
<1>10. ASSUME NEW p \in Process, NotStarted(p) PROVE Forest'
  BY <1>10, NoProcessAssumption
  DEF NotStarted, Goto, Gone, tree, TypeOK, Forest, Kind, Isuscope,
       Attempt, Active, Cut
<1>11. ASSUME NEW p \in Process, Waited(p) PROVE Forest'
  BY <1>11, NoProcessAssumption
  DEF Waited, Goto, Gone, tree, TypeOK, Forest, Kind, Isuscope, Attempt,
       Active, Cut
<1>12. ASSUME NEW p \in Process, Worked(p) PROVE Forest'
  BY <1>12, NoProcessAssumption
  DEF Worked, Goto, Gone, tree, TypeOK, Forest, Kind, Isuscope, Attempt,
       Active, Cut
<1>13. ASSUME NEW p \in Process, RemoveOwner(p) PROVE Forest'
  BY <1>13, NoProcessAssumption
  DEF RemoveOwner, Goto, tree, TypeOK, Forest, Kind, Isuscope, Attempt,
       Active, Cut
<1>14. ASSUME NEW p \in Process, Close(p) PROVE Forest'
  BY <1>14, NoProcessAssumption
  DEF Close, Released, Goto, CloseFile, tree, TypeOK, Forest, Kind, Isuscope,
       Attempt, Active, Cut
<1>15. ASSUME NEW p \in Process, Kill(p) PROVE Forest'
  BY <1>15, NoProcessAssumption
  DEF Kill, Goto, CloseFile, tree, TypeOK, Forest, Kind, Isuscope, Attempt,
       Active, Cut
<1>16. ASSUME NEW p \in Process, Interrupt(p) PROVE Forest'
  BY <1>16, NoProcessAssumption
  DEF Interrupt, Goto, CloseFile, tree, TypeOK, Forest, Kind, Isuscope,
       Attempt, Active, Cut
<1>17. ASSUME NEW p \in Process, NEW c \in Process, Terminate(p, c)
      PROVE  Forest'
  BY <1>17, GroupKilled DEF Forest, Active, Attempt
<1>18. ASSUME NEW p \in Process, NEW c \in Process, Register(p, c)
      PROVE  Forest'
  BY <1>18, NoProcessAssumption
  DEF Register, Starts, tree, TypeOK, Forest, Kind, Isuscope, Attempt, Active, Cut
<1>19. ASSUME NEW p \in Process, SecondSignal(p)
      PROVE  Forest'
  BY <1>19, RegisteredKilled, NoProcessAssumption DEF Forest, Active, Attempt, Cut
<1>20. ASSUME NEW p \in Process, Exit(p) PROVE Forest'
  BY <1>20, NoProcessAssumption
  DEF Exit, Goto, tree, TypeOK, Forest, Kind, Isuscope, Attempt, Active, Cut
<1>21. CASE UNCHANGED vars
  BY <1>21, NoProcessAssumption
  DEF vars, tree, TypeOK, Forest, Kind, Isuscope, Attempt, Active, Cut
<1>. QED  BY <1>1, <1>2, <1>3, <1>4, <1>5, <1>6, <1>7, <1>8, <1>9,
             <1>10, <1>11, <1>12, <1>13, <1>14, <1>15, <1>16, <1>17, <1>18,
             <1>19, <1>20, <1>21
         DEF Next, Acquire, Release, Signalled

\* The variable is inherited exactly along the forest.
LEMMA HeldStep ==
  ASSUME TypeOK, Forest, HeldOK, [Next]_vars
  PROVE  HeldOK'
<1>1. ASSUME NEW p \in Process, NEW k \in Kind, Start(p, k)
      PROVE  HeldOK'
  BY <1>1, NoProcessAssumption
  DEF Start, Goto, tree, TypeOK, Forest, HeldOK, Inherits, Kind, Isuscope,
       Attempt, Active, Cut
<1>2. ASSUME NEW p \in Process, NEW q \in Process, NEW k \in Kind, Launch(p, q, k)
      PROVE  HeldOK'
  <2>1. line'[q] # {} /\ \A r \in Process : r # q => line'[r] = line[r]
    BY <1>2 DEF Launch, TypeOK
  <2>2. Inherits(p)
    BY <1>2 DEF Launch, Starts, HeldOK, Inherits, Isuscope
  <2>3. held'[q] /\ \A r \in Process : r # q => held'[r] = held[r]
    <3>. held \in [Process -> BOOLEAN] /\ held' = [held EXCEPT ![q] = Inherits(p)]
      BY <1>2 DEF Launch, TypeOK
    <3>. QED  BY <2>2, Zenon
  <2>4. /\ pc'[q] \in {"work", "enter"}
        /\ \A r \in Process : r # q => kind'[r] = kind[r]
        /\ pc[p] # "none" /\ p # q /\ pc'[p] \in {"wait", "work", "unown", "close", "exit"}
        /\ \A r \in Process : r # p /\ r # q => pc'[r] = pc[r]
    BY <1>2, Launched
  <2>. QED  BY <2>1, <2>3, <2>4 DEF HeldOK
<1>3. ASSUME NEW p \in Process, HeldByParent(p) PROVE HeldOK'
  BY <1>3, NoProcessAssumption
  DEF HeldByParent, Goto, Proceeds, tree, TypeOK, Forest, HeldOK, Inherits,
       Kind, Isuscope, Attempt, Active, Cut
<1>4. ASSUME NEW p \in Process, Open(p) PROVE HeldOK'
  BY <1>4, NoProcessAssumption
  DEF Open, Goto, tree, TypeOK, Forest, HeldOK, Inherits, Kind, Isuscope,
       Attempt, Active, Cut
<1>5. ASSUME NEW p \in Process, TryLock(p) PROVE HeldOK'
  BY <1>5, NoProcessAssumption
  DEF TryLock, Goto, tree, TypeOK, Forest, HeldOK, Inherits, Kind,
       Isuscope, Attempt, Active, Cut
<1>6. ASSUME NEW p \in Process, Busy(p) PROVE HeldOK'
  BY <1>6, NoProcessAssumption
  DEF Busy, Goto, CloseFile, tree, TypeOK, Forest, HeldOK, Inherits, Kind,
       Isuscope, Attempt, Active, Cut
<1>7. ASSUME NEW p \in Process, CreateOwner(p) PROVE HeldOK'
  BY <1>7, NoProcessAssumption
  DEF CreateOwner, Goto, tree, TypeOK, Forest, HeldOK, Inherits, Kind,
       Isuscope, Attempt, Active, Cut
<1>8. ASSUME NEW p \in Process, WriteOwner(p) PROVE HeldOK'
  BY <1>8, NoProcessAssumption
  DEF WriteOwner, Goto, Proceeds, tree, TypeOK, Forest, HeldOK, Inherits,
       Kind, Isuscope, Attempt, Active, Cut
<1>9. ASSUME NEW p \in Process, AcquireFails(p) PROVE HeldOK'
  BY <1>9, NoProcessAssumption
  DEF AcquireFails, Goto, CloseFile, tree, TypeOK, Forest, HeldOK,
       Inherits, Kind, Isuscope, Attempt, Active, Cut
<1>10. ASSUME NEW p \in Process, NotStarted(p) PROVE HeldOK'
  BY <1>10, NoProcessAssumption
  DEF NotStarted, Goto, Gone, tree, TypeOK, Forest, HeldOK, Inherits, Kind,
       Isuscope, Attempt, Active, Cut
<1>11. ASSUME NEW p \in Process, Waited(p) PROVE HeldOK'
  BY <1>11, NoProcessAssumption
  DEF Waited, Goto, Gone, tree, TypeOK, Forest, HeldOK, Inherits, Kind,
       Isuscope, Attempt, Active, Cut
<1>12. ASSUME NEW p \in Process, Worked(p) PROVE HeldOK'
  BY <1>12, NoProcessAssumption
  DEF Worked, Goto, Gone, tree, TypeOK, Forest, HeldOK, Inherits, Kind,
       Isuscope, Attempt, Active, Cut
<1>13. ASSUME NEW p \in Process, RemoveOwner(p) PROVE HeldOK'
  BY <1>13, NoProcessAssumption
  DEF RemoveOwner, Goto, tree, TypeOK, Forest, HeldOK, Inherits, Kind,
       Isuscope, Attempt, Active, Cut
<1>14. ASSUME NEW p \in Process, Close(p) PROVE HeldOK'
  BY <1>14, NoProcessAssumption
  DEF Close, Released, Goto, CloseFile, tree, TypeOK, Forest, HeldOK, Inherits, Kind,
       Isuscope, Attempt, Active, Cut
<1>15. ASSUME NEW p \in Process, Kill(p) PROVE HeldOK'
  BY <1>15, NoProcessAssumption
  DEF Kill, Goto, CloseFile, tree, TypeOK, Forest, HeldOK, Inherits, Kind,
       Isuscope, Attempt, Active, Cut
<1>16. ASSUME NEW p \in Process, Interrupt(p) PROVE HeldOK'
  BY <1>16, NoProcessAssumption
  DEF Interrupt, Goto, CloseFile, tree, TypeOK, Forest, HeldOK, Inherits,
       Kind, Isuscope, Attempt, Active, Cut
<1>17. ASSUME NEW p \in Process, NEW c \in Process, Terminate(p, c)
      PROVE  HeldOK'
  BY <1>17, GroupKilled, NoProcessAssumption DEF HeldOK, Active, Attempt
<1>18. ASSUME NEW p \in Process, NEW c \in Process, Register(p, c)
      PROVE  HeldOK'
  BY <1>18, NoProcessAssumption
  DEF Register, Starts, tree, TypeOK, Forest, HeldOK, Inherits, Kind, Isuscope, Attempt,
       Active, Cut
<1>19. ASSUME NEW p \in Process, SecondSignal(p)
      PROVE  HeldOK'
  BY <1>19, RegisteredKilled, NoProcessAssumption DEF HeldOK, Active, Attempt, Cut
<1>20. ASSUME NEW p \in Process, Exit(p) PROVE HeldOK'
  BY <1>20, NoProcessAssumption
  DEF Exit, Goto, tree, TypeOK, Forest, HeldOK, Inherits, Kind, Isuscope, Attempt,
       Active, Cut
<1>21. CASE UNCHANGED vars
  BY <1>21, NoProcessAssumption
  DEF vars, tree, TypeOK, Forest, HeldOK, Inherits, Kind, Isuscope, Attempt,
       Active, Cut
<1>. QED  BY <1>1, <1>2, <1>3, <1>4, <1>5, <1>6, <1>7, <1>8, <1>9,
             <1>10, <1>11, <1>12, <1>13, <1>14, <1>15, <1>16, <1>17, <1>18,
             <1>19, <1>20, <1>21
         DEF Next, Acquire, Release, Signalled

\* One lock file, one holder.
LEMMA FileStep ==
  ASSUME TypeOK, Forest, FileOK, [Next]_vars
  PROVE  FileOK'
<1>1. ASSUME NEW p \in Process, NEW k \in Kind, Start(p, k)
      PROVE  FileOK'
  BY <1>1, NoProcessAssumption, InodeAssumption
  DEF Start, Goto, tree, TypeOK, FileOK, Kind, Isuscope, Attempt, Active,
       Cut
<1>2. ASSUME NEW p \in Process, NEW q \in Process, NEW k \in Kind, Launch(p, q, k)
      PROVE  FileOK'
  <2>1. /\ \A r \in Process : pc[r] \in {"try", "busy", "create", "write"} => pc'[r] = pc[r]
        /\ \A r \in Process : pc'[r] \in {"try", "busy", "create", "write", "unown", "close"}
              => pc[r] = pc'[r]
        /\ \A r \in Process : pc[r] \in {"spawn", "wait", "work", "unown", "close"}
              => pc'[r] \in {"spawn", "wait", "work", "unown", "close"}
        /\ UNCHANGED <<guard, fd, lockfile, holder>>
    BY <1>2, Launched
  <2>. QED  BY <2>1, NoProcessAssumption DEF FileOK, TypeOK
<1>3. ASSUME NEW p \in Process, HeldByParent(p) PROVE FileOK'
  BY <1>3, NoProcessAssumption, InodeAssumption
  DEF HeldByParent, Goto, Proceeds, tree, TypeOK, FileOK, Kind, Isuscope,
       Attempt, Active, Cut
<1>4. ASSUME NEW p \in Process, Open(p) PROVE FileOK'
  BY <1>4, NoProcessAssumption, InodeAssumption
  DEF Open, Goto, tree, TypeOK, FileOK, Kind, Isuscope, Attempt, Active,
       Cut
<1>5. ASSUME NEW p \in Process, TryLock(p) PROVE FileOK'
  BY <1>5, NoProcessAssumption, InodeAssumption
  DEF TryLock, Goto, tree, TypeOK, FileOK, Kind, Isuscope, Attempt, Active,
       Cut
<1>6. ASSUME NEW p \in Process, Busy(p) PROVE FileOK'
  BY <1>6, NoProcessAssumption, InodeAssumption
  DEF Busy, Goto, CloseFile, tree, TypeOK, FileOK, Kind, Isuscope, Attempt,
       Active, Cut
<1>7. ASSUME NEW p \in Process, CreateOwner(p) PROVE FileOK'
  BY <1>7, NoProcessAssumption, InodeAssumption
  DEF CreateOwner, Goto, tree, TypeOK, FileOK, Kind, Isuscope, Attempt,
       Active, Cut
<1>8. ASSUME NEW p \in Process, WriteOwner(p) PROVE FileOK'
  BY <1>8, NoProcessAssumption, InodeAssumption
  DEF WriteOwner, Goto, Proceeds, tree, TypeOK, FileOK, Kind, Isuscope,
       Attempt, Active, Cut
<1>9. ASSUME NEW p \in Process, AcquireFails(p) PROVE FileOK'
  BY <1>9, NoProcessAssumption, InodeAssumption
  DEF AcquireFails, Goto, CloseFile, tree, TypeOK, FileOK, Kind, Isuscope,
       Attempt, Active, Cut
<1>10. ASSUME NEW p \in Process, NotStarted(p) PROVE FileOK'
  BY <1>10, NoProcessAssumption, InodeAssumption
  DEF NotStarted, Goto, Gone, tree, TypeOK, FileOK, Kind, Isuscope,
       Attempt, Active, Cut
<1>11. ASSUME NEW p \in Process, Waited(p) PROVE FileOK'
  BY <1>11, NoProcessAssumption, InodeAssumption
  DEF Waited, Goto, Gone, tree, TypeOK, FileOK, Kind, Isuscope, Attempt,
       Active, Cut
<1>12. ASSUME NEW p \in Process, Worked(p) PROVE FileOK'
  BY <1>12, NoProcessAssumption, InodeAssumption
  DEF Worked, Goto, Gone, tree, TypeOK, FileOK, Kind, Isuscope, Attempt,
       Active, Cut
<1>13. ASSUME NEW p \in Process, RemoveOwner(p) PROVE FileOK'
  BY <1>13, NoProcessAssumption, InodeAssumption
  DEF RemoveOwner, Goto, tree, TypeOK, FileOK, Kind, Isuscope, Attempt,
       Active, Cut
<1>14. ASSUME NEW p \in Process, Close(p) PROVE FileOK'
  BY <1>14, NoProcessAssumption, InodeAssumption
  DEF Close, Released, Goto, CloseFile, tree, TypeOK, FileOK, Kind, Isuscope,
       Attempt, Active, Cut
<1>15. ASSUME NEW p \in Process, Kill(p) PROVE FileOK'
  BY <1>15, NoProcessAssumption, InodeAssumption
  DEF Kill, Goto, CloseFile, tree, TypeOK, FileOK, Kind, Isuscope, Attempt,
       Active, Cut
<1>16. ASSUME NEW p \in Process, Interrupt(p) PROVE FileOK'
  BY <1>16, NoProcessAssumption, InodeAssumption
  DEF Interrupt, Goto, CloseFile, tree, TypeOK, FileOK, Kind, Isuscope,
       Attempt, Active, Cut
<1>17. ASSUME NEW p \in Process, NEW c \in Process, Terminate(p, c)
      PROVE  FileOK'
  BY <1>17, GroupKilled, NoProcessAssumption DEF TypeOK, FileOK, Active
<1>18. ASSUME NEW p \in Process, NEW c \in Process, Register(p, c)
      PROVE  FileOK'
  BY <1>18, NoProcessAssumption, InodeAssumption
  DEF Register, Starts, tree, TypeOK, FileOK, Kind, Isuscope, Attempt, Active, Cut
<1>19. ASSUME NEW p \in Process, SecondSignal(p)
      PROVE  FileOK'
  BY <1>19, RegisteredKilled, NoProcessAssumption, InodeAssumption DEF FileOK, Active, Attempt, Cut
<1>20. ASSUME NEW p \in Process, Exit(p) PROVE FileOK'
  BY <1>20, NoProcessAssumption, InodeAssumption
  DEF Exit, Goto, tree, TypeOK, FileOK, Kind, Isuscope, Attempt, Active, Cut
<1>21. CASE UNCHANGED vars
  BY <1>21, NoProcessAssumption, InodeAssumption
  DEF vars, tree, TypeOK, FileOK, Kind, Isuscope, Attempt, Active, Cut
<1>. QED  BY <1>1, <1>2, <1>3, <1>4, <1>5, <1>6, <1>7, <1>8, <1>9,
             <1>10, <1>11, <1>12, <1>13, <1>14, <1>15, <1>16, <1>17, <1>18,
             <1>19, <1>20, <1>21
         DEF Next, Acquire, Release, Signalled

\* A process whose children have ended has only orphans below it.
LEMMA NobodyBelow ==
  ASSUME TypeOK, Forest, Waiting, NEW p \in Process, ChildrenEnded(p),
         NEW q \in Process, pc[q] \in Active, p \in line[q]
  PROVE  Orphan(q)
<1>1. PICK b \in line[q] \cup {q} : parent[b] = p
  BY DEF Forest
<1>2. b \in Process /\ pc[b] \notin Active
  BY <1>1 DEF ChildrenEnded, TypeOK
<1>3. b \in line[q]
  BY <1>1, <1>2
<1>. QED  BY <1>2, <1>3 DEF Waiting, Active

\* After a second signal nobody but orphans is below the run, or below
\* anyone whom the signal killed.
LEMMA AfterSignal ==
  ASSUME TypeOK, Forest, Waiting, NEW p \in Process, SecondSignal(p),
         NEW q \in Process, pc'[q] \in Active, ~Orphan(q)'
  PROVE  /\ pc[q] \in Active /\ ~Orphan(q) /\ q \notin Registered(p)
         /\ \A a \in line[q] : a \in Process /\ a # p /\ a \notin Registered(p)
<1>1. q \notin Registered(p) /\ pc[q] \in Active
  BY RegisteredKilled DEF Active, Attempt
<1>2. \A a \in line[q] : a \in Process /\ a \notin Registered(p)
  BY RegisteredKilled DEF Orphan, TypeOK
<1>3. ~Orphan(q)
  <2>1. \A a \in line[q] : pc'[a] = "killed" <=> pc[a] = "killed"
    BY <1>2, RegisteredKilled
  <2>2. \A c : Missed(c) => Missed(c)'
    BY RegisteredKilled DEF Missed
  <2>. QED  BY <2>1, <2>2, RegisteredKilled DEF Orphan
<1>4. p \notin line[q]
  <2>1. SUFFICES ASSUME p \in line[q] PROVE FALSE
    OBVIOUS
  <2>2. PICK b \in line[q] \cup {q} : parent[b] = p
    BY <2>1 DEF Forest
  <2>3. b \in registered
    BY <2>2, RegisteredKilled DEF Orphan, Missed
  <2>4. b \in Process /\ pc[b] \in Active
    BY <1>1, <1>2, <1>3, <2>2 DEF Waiting, Active
  <2>5. pc'[b] = "killed"
    BY <2>2, <2>3, <2>4, RegisteredKilled
  <2>. QED  BY <2>2, <2>5, RegisteredKilled DEF Orphan, Active, Attempt
<1>. QED  BY <1>1, <1>2, <1>3, <1>4

\* An ancestor stays with its job until nobody but orphans is below it.
LEMMA WaitingStep ==
  ASSUME TypeOK, Forest, HeldOK, Waiting, [Next]_vars
  PROVE  Waiting'
<1>1. ASSUME NEW p \in Process, NEW k \in Kind, Start(p, k)
      PROVE  Waiting'
  BY <1>1, NoProcessAssumption
  DEF Start, Goto, tree, TypeOK, Forest, HeldOK, Waiting, Orphan, Missed, Kind,
       Isuscope, Attempt, Active, Cut
<1>2. ASSUME NEW p \in Process, NEW q \in Process, NEW k \in Kind, Launch(p, q, k)
      PROVE  Waiting'
  <2>1. ASSUME NEW r \in Process, pc'[r] \in Active, ~Orphan(r)'
        PROVE  \A a \in line'[r] : pc'[a] \in {"wait", "work"}
    <3>1. CASE r = q
      <4>1. ~Orphan(p) /\ p \notin leaving
        BY <1>2, <2>1, <3>1, Launched
      <4>2. pc[p] \in Active /\ pc'[p] \in {"wait", "work"} /\ line'[q] = line[p] \cup {p}
        BY <1>2, <4>1, Launched DEF Active
      <4>3. \A a \in line[p] : a \in Process /\ a # p /\ a # q /\ pc[a] \in {"wait", "work"}
        BY <1>2, <4>1, <4>2, Launched DEF Waiting, TypeOK, Forest
      <4>. QED  BY <1>2, <3>1, <4>2, <4>3, Launched
    <3>2. CASE r # q
      <4>1. ~Orphan(r) /\ pc[r] \in Active /\ line'[r] = line[r]
        BY <1>2, <2>1, <3>2, Launched DEF Active
      <4>2. \A a \in line[r] : a \in Process /\ a # q /\ pc[a] \in {"wait", "work"}
        BY <1>2, <4>1, Launched DEF Waiting, TypeOK
      <4>. QED  BY <1>2, <4>1, <4>2, Launched
    <3>. QED  BY <3>1, <3>2
  <2>. QED  BY <2>1 DEF Waiting
<1>3. ASSUME NEW p \in Process, HeldByParent(p) PROVE Waiting'
  BY <1>3, NoProcessAssumption
  DEF HeldByParent, Goto, Proceeds, tree, TypeOK, Forest, HeldOK, Waiting,
       Orphan, Missed, Kind, Isuscope, Attempt, Active, Cut
<1>4. ASSUME NEW p \in Process, Open(p) PROVE Waiting'
  BY <1>4, NoProcessAssumption
  DEF Open, Goto, tree, TypeOK, Forest, HeldOK, Waiting, Orphan, Missed, Kind,
       Isuscope, Attempt, Active, Cut
<1>5. ASSUME NEW p \in Process, TryLock(p) PROVE Waiting'
  BY <1>5, NoProcessAssumption
  DEF TryLock, Goto, tree, TypeOK, Forest, HeldOK, Waiting, Orphan, Missed, Kind,
       Isuscope, Attempt, Active, Cut
<1>6. ASSUME NEW p \in Process, Busy(p) PROVE Waiting'
  BY <1>6, NoProcessAssumption
  DEF Busy, Goto, CloseFile, tree, TypeOK, Forest, HeldOK, Waiting, Orphan, Missed,
       Kind, Isuscope, Attempt, Active, Cut
<1>7. ASSUME NEW p \in Process, CreateOwner(p) PROVE Waiting'
  BY <1>7, NoProcessAssumption
  DEF CreateOwner, Goto, tree, TypeOK, Forest, HeldOK, Waiting, Orphan, Missed,
       Kind, Isuscope, Attempt, Active, Cut
<1>8. ASSUME NEW p \in Process, WriteOwner(p) PROVE Waiting'
  BY <1>8, NoProcessAssumption
  DEF WriteOwner, Goto, Proceeds, tree, TypeOK, Forest, HeldOK, Waiting,
       Orphan, Missed, Kind, Isuscope, Attempt, Active, Cut
<1>9. ASSUME NEW p \in Process, AcquireFails(p) PROVE Waiting'
  BY <1>9, NoProcessAssumption
  DEF AcquireFails, Goto, CloseFile, tree, TypeOK, Forest, HeldOK, Waiting,
       Orphan, Missed, Kind, Isuscope, Attempt, Active, Cut
<1>10. ASSUME NEW p \in Process, NotStarted(p) PROVE Waiting'
  BY <1>10, NoProcessAssumption
  DEF NotStarted, Goto, Gone, tree, TypeOK, Forest, HeldOK, Waiting,
       Orphan, Missed, Kind, Isuscope, Attempt, Active, Cut
<1>11. ASSUME NEW p \in Process, Waited(p) PROVE Waiting'
  <2>1. \A q \in Process : pc[q] \in Active /\ p \in line[q] => Orphan(q)
    BY <1>11, NobodyBelow DEF Waited
  <2>. QED  BY <1>11, <2>1 DEF Waited, Goto, Gone, tree, TypeOK, Waiting, Orphan, Missed, Active, Attempt, Cut
<1>12. ASSUME NEW p \in Process, Worked(p) PROVE Waiting'
  <2>1. \A q \in Process : pc[q] \in Active /\ p \in line[q] => Orphan(q)
    BY <1>12, NobodyBelow DEF Worked
  <2>. QED  BY <1>12, <2>1 DEF Worked, Goto, Gone, tree, TypeOK, Waiting, Orphan, Missed, Active, Attempt, Cut
<1>13. ASSUME NEW p \in Process, RemoveOwner(p) PROVE Waiting'
  BY <1>13, NoProcessAssumption
  DEF RemoveOwner, Goto, tree, TypeOK, Forest, HeldOK, Waiting, Orphan, Missed,
       Kind, Isuscope, Attempt, Active, Cut
<1>14. ASSUME NEW p \in Process, Close(p) PROVE Waiting'
  BY <1>14, NoProcessAssumption
  DEF Close, Released, Goto, CloseFile, tree, TypeOK, Forest, HeldOK, Waiting,
       Orphan, Missed, Kind, Isuscope, Attempt, Active, Cut
<1>15. ASSUME NEW p \in Process, Kill(p) PROVE Waiting'
  BY <1>15, NoProcessAssumption
  DEF Kill, Goto, CloseFile, tree, TypeOK, Forest, HeldOK, Waiting, Orphan, Missed,
       Kind, Isuscope, Attempt, Active, Cut
<1>16. ASSUME NEW p \in Process, Interrupt(p) PROVE Waiting'
  <2>1. \A q \in Process : pc[q] \in Active /\ p \in line[q] => Orphan(q)
    <3>1. CASE pc[p] = "work"
      BY <1>16, <3>1, NobodyBelow DEF Interrupt
    <3>2. CASE pc[p] # "work"
      BY <1>16, <3>2 DEF Interrupt, Waiting
    <3>. QED  BY <3>1, <3>2
  <2>. QED  BY <1>16, <2>1 DEF Interrupt, Goto, CloseFile, tree, TypeOK, Waiting, Orphan, Missed, Active, Attempt, Cut
<1>17. ASSUME NEW p \in Process, NEW c \in Process, Terminate(p, c)
      PROVE  Waiting'
  <2>1. \A q \in Process : Orphan(q) => Orphan(q)'
    BY <1>17, GroupKilled DEF Orphan, Missed, Active, Attempt, TypeOK
  <2>2. ASSUME NEW q \in Process, pc'[q] \in Active, ~Orphan(q)'
        PROVE  \A a \in line[q] : pc'[a] \in {"wait", "work"}
    <3>1. q \notin Group(c) /\ pc[q] \in Active /\ ~Orphan(q)
      BY <1>17, <2>1, <2>2, GroupKilled DEF Active, Attempt
    <3>2. \A a \in line[q] : a \in Process /\ a \notin Group(c)
      BY <1>17, <2>2, GroupKilled DEF Orphan, Missed, TypeOK
    <3>. QED  BY <1>17, <3>1, <3>2, GroupKilled DEF Waiting
  <2>. QED  BY <1>17, <2>2, GroupKilled DEF Waiting
<1>18. ASSUME NEW p \in Process, NEW c \in Process, Register(p, c)
      PROVE  Waiting'
  BY <1>18, NoProcessAssumption
  DEF Register, Starts, tree, TypeOK, Forest, HeldOK, Waiting, Orphan, Missed, Kind, Isuscope,
       Attempt, Active, Cut
<1>19. ASSUME NEW p \in Process, SecondSignal(p)
      PROVE  Waiting'
  <2>1. ASSUME NEW q \in Process, pc'[q] \in Active, ~Orphan(q)'
        PROVE  \A a \in line[q] : pc'[a] \in {"wait", "work"}
    <3>1. /\ pc[q] \in Active /\ ~Orphan(q)
          /\ \A a \in line[q] : a \in Process /\ a # p /\ a \notin Registered(p)
      BY <1>19, <2>1, AfterSignal
    <3>2. \A a \in line[q] : pc[a] \in {"wait", "work"}
      BY <3>1 DEF Waiting
    <3>. QED  BY <1>19, <3>1, <3>2, RegisteredKilled
  <2>2. line' = line
    BY <1>19, RegisteredKilled
  <2>. QED  BY <2>1, <2>2 DEF Waiting
<1>20. ASSUME NEW p \in Process, Exit(p) PROVE Waiting'
  BY <1>20, NoProcessAssumption
  DEF Exit, Goto, tree, TypeOK, Forest, HeldOK, Waiting, Orphan, Missed, Kind, Isuscope,
       Attempt, Active, Cut
<1>21. CASE UNCHANGED vars
  BY <1>21, NoProcessAssumption
  DEF vars, tree, TypeOK, Forest, HeldOK, Waiting, Orphan, Missed, Kind, Isuscope,
       Attempt, Active, Cut
<1>. QED  BY <1>1, <1>2, <1>3, <1>4, <1>5, <1>6, <1>7, <1>8, <1>9,
             <1>10, <1>11, <1>12, <1>13, <1>14, <1>15, <1>16, <1>17, <1>18,
             <1>19, <1>20, <1>21
         DEF Next, Acquire, Release, Signalled

\* The guard of a job is not dropped while there is work below it.
LEMMA CoveredStep ==
  ASSUME TypeOK, Forest, HeldOK, FileOK, Waiting, Covered, Waiting', TypeOK', [Next]_vars
  PROVE  Covered'
<1>1. ASSUME NEW p \in Process, NEW k \in Kind, Start(p, k)
      PROVE  Covered'
  <2>1. /\ pc[p] = "none" /\ pc'[p] = "enter" /\ line[p] = {}
        /\ \A r \in Process : r # p => pc'[r] = pc[r]
        /\ UNCHANGED <<parent, line, registered, leaving, guard>>
    BY <1>1 DEF Start, Goto, TypeOK, Forest
  <2>2. \A r \in Process : Orphan(r) => Orphan(r)'
    BY <2>1 DEF Orphan, Missed, TypeOK
  <2>3. ASSUME NEW r \in Process, pc'[r] \in Active, line[r] # {}, ~Orphan(r)'
        PROVE  \E g \in line[r] : guard[g]
    BY <2>1, <2>2, <2>3 DEF Covered
  <2>4. \A r \in Working' : line[r] = {} => guard[r]
    BY <2>1 DEF Working, Covered
  <2>. QED  BY <2>1, <2>3, <2>4 DEF Covered
<1>2. ASSUME NEW p \in Process, NEW q \in Process, NEW k \in Kind, Launch(p, q, k)
      PROVE  Covered'
  <2>1. ASSUME NEW r \in Process, pc'[r] \in Active, line'[r] # {}, ~Orphan(r)'
        PROVE  \E g \in line'[r] : guard'[g]
    <3>1. CASE r = q
      <4>1. ~Orphan(p) /\ p \notin leaving
        BY <1>2, <2>1, <3>1, Launched
      <4>2. /\ pc[p] \in Active /\ p \in Working
            /\ line'[q] = line[p] \cup {p} /\ guard' = guard
        BY <1>2, <4>1, Launched DEF Active, Working
      <4>. QED  BY <3>1, <4>1, <4>2 DEF Covered
    <3>2. CASE r # q
      <4>1. ~Orphan(r) /\ pc[r] \in Active /\ line'[r] = line[r] /\ guard' = guard
        BY <1>2, <2>1, <3>2, Launched DEF Active
      <4>. QED  BY <2>1, <4>1 DEF Covered
    <3>. QED  BY <3>1, <3>2
  <2>2. \A r \in Working' : line'[r] = {} => guard'[r]
    BY <1>2, Launched DEF Working, Covered
  <2>. QED  BY <2>1, <2>2 DEF Covered
<1>3. ASSUME NEW p \in Process, HeldByParent(p) PROVE Covered'
  BY <1>3, NoProcessAssumption
  DEF HeldByParent, Goto, Proceeds, tree, TypeOK, Forest, HeldOK, FileOK,
       Waiting, Covered, Orphan, Missed, Working, Kind, Isuscope, Attempt, Active,
       Cut
<1>4. ASSUME NEW p \in Process, Open(p) PROVE Covered'
  BY <1>4, NoProcessAssumption
  DEF Open, Goto, tree, TypeOK, Forest, HeldOK, FileOK, Waiting, Covered,
       Orphan, Missed, Working, Kind, Isuscope, Attempt, Active, Cut
<1>5. ASSUME NEW p \in Process, TryLock(p) PROVE Covered'
  BY <1>5, NoProcessAssumption
  DEF TryLock, Goto, tree, TypeOK, Forest, HeldOK, FileOK, Waiting,
       Covered, Orphan, Missed, Working, Kind, Isuscope, Attempt, Active, Cut
<1>6. ASSUME NEW p \in Process, Busy(p) PROVE Covered'
  BY <1>6, NoProcessAssumption
  DEF Busy, Goto, CloseFile, tree, TypeOK, Forest, HeldOK, FileOK, Waiting,
       Covered, Orphan, Missed, Working, Kind, Isuscope, Attempt, Active, Cut
<1>7. ASSUME NEW p \in Process, CreateOwner(p) PROVE Covered'
  BY <1>7, NoProcessAssumption
  DEF CreateOwner, Goto, tree, TypeOK, Forest, HeldOK, FileOK, Waiting,
       Covered, Orphan, Missed, Working, Kind, Isuscope, Attempt, Active, Cut
<1>8. ASSUME NEW p \in Process, WriteOwner(p) PROVE Covered'
  BY <1>8, NoProcessAssumption
  DEF WriteOwner, Goto, Proceeds, tree, TypeOK, Forest, HeldOK, FileOK,
       Waiting, Covered, Orphan, Missed, Working, Kind, Isuscope, Attempt, Active,
       Cut
<1>9. ASSUME NEW p \in Process, AcquireFails(p) PROVE Covered'
  BY <1>9, NoProcessAssumption
  DEF AcquireFails, Goto, CloseFile, tree, TypeOK, Forest, HeldOK, FileOK,
       Waiting, Covered, Orphan, Missed, Working, Kind, Isuscope, Attempt, Active,
       Cut
<1>10. ASSUME NEW p \in Process, NotStarted(p) PROVE Covered'
  BY <1>10, NoProcessAssumption
  DEF NotStarted, Goto, Gone, tree, TypeOK, Forest, HeldOK, FileOK,
       Waiting, Covered, Orphan, Missed, Working, Kind, Isuscope, Attempt, Active,
       Cut
<1>11. ASSUME NEW p \in Process, Waited(p) PROVE Covered'
  BY <1>11, NoProcessAssumption
  DEF Waited, Goto, Gone, tree, TypeOK, Forest, HeldOK, FileOK, Waiting,
       Covered, Orphan, Missed, Working, Kind, Isuscope, Attempt, Active, Cut
<1>12. ASSUME NEW p \in Process, Worked(p) PROVE Covered'
  BY <1>12, NoProcessAssumption
  DEF Worked, Goto, Gone, tree, TypeOK, Forest, HeldOK, FileOK, Waiting,
       Covered, Orphan, Missed, Working, Kind, Isuscope, Attempt, Active, Cut
<1>13. ASSUME NEW p \in Process, RemoveOwner(p) PROVE Covered'
  BY <1>13, NoProcessAssumption
  DEF RemoveOwner, Goto, tree, TypeOK, Forest, HeldOK, FileOK, Waiting,
       Covered, Orphan, Missed, Working, Kind, Isuscope, Attempt, Active, Cut
<1>14. ASSUME NEW p \in Process, Close(p) PROVE Covered'
  <2>1. /\ pc[p] = "close" /\ pc'[p] \in {"exit", "ended"}
        /\ \A r \in Process : r # p => pc'[r] = pc[r] /\ guard'[r] = guard[r]
        /\ UNCHANGED <<parent, line, registered, leaving>>
    BY <1>14 DEF Close, Released, Goto, tree, TypeOK
  <2>2. \A r \in Process : Orphan(r) => Orphan(r)'
    BY <2>1 DEF Orphan, Missed, TypeOK
  <2>3. ASSUME NEW r \in Process, pc'[r] \in Active, line[r] # {}, ~Orphan(r)'
        PROVE  \E g \in line[r] : guard'[g]
    <3>1. ~Orphan(r) /\ pc[r] \in Active
      BY <2>1, <2>2, <2>3 DEF Active
    <3>2. \A a \in line[r] : a \in Process /\ a # p
      BY <2>1, <3>1 DEF Waiting, TypeOK
    <3>. QED  BY <2>1, <2>3, <3>1, <3>2 DEF Covered
  <2>4. \A r \in Working' : line[r] = {} => guard'[r]
    BY <2>1 DEF Working, Covered
  <2>. QED  BY <2>1, <2>3, <2>4 DEF Covered
<1>15. ASSUME NEW p \in Process, Kill(p) PROVE Covered'
  BY <1>15, NoProcessAssumption
  DEF Kill, Goto, CloseFile, tree, TypeOK, Forest, HeldOK, FileOK, Waiting,
       Covered, Orphan, Missed, Working, Kind, Isuscope, Attempt, Active, Cut
<1>16. ASSUME NEW p \in Process, Interrupt(p) PROVE Covered'
  BY <1>16, NoProcessAssumption
  DEF Interrupt, Goto, CloseFile, tree, TypeOK, Forest, HeldOK, FileOK,
       Waiting, Covered, Orphan, Missed, Working, Kind, Isuscope, Attempt, Active,
       Cut
<1>17. ASSUME NEW p \in Process, NEW c \in Process, Terminate(p, c)
      PROVE  Covered'
  <2>1. \A r \in Process : Orphan(r) => Orphan(r)'
    BY <1>17, GroupKilled DEF Orphan, Missed, Active, Attempt, TypeOK
  <2>2. ASSUME NEW r \in Process, pc'[r] \in Active, line[r] # {}, ~Orphan(r)'
        PROVE  \E g \in line[r] : guard'[g]
    <3>1. r \notin Group(c) /\ pc[r] \in Active /\ ~Orphan(r)
      BY <1>17, <2>1, <2>2, GroupKilled DEF Active, Attempt
    <3>2. PICK g \in line[r] : guard[g]
      BY <2>2, <3>1 DEF Covered
    <3>3. g \in Process /\ g \notin Group(c)
      BY <1>17, <2>2, <3>2, GroupKilled DEF Orphan, Missed, TypeOK
    <3>. QED  BY <1>17, <3>2, <3>3, GroupKilled
  <2>3. \A r \in Working' : line[r] = {} => guard'[r]
    BY <1>17, GroupKilled DEF Working, Covered
  <2>. QED  BY <1>17, <2>2, <2>3, GroupKilled DEF Covered
<1>18. ASSUME NEW p \in Process, NEW c \in Process, Register(p, c)
      PROVE  Covered'
  BY <1>18, NoProcessAssumption
  DEF Register, Starts, tree, TypeOK, Forest, HeldOK, FileOK, Waiting, Covered, Orphan, Missed,
       Working, Kind, Isuscope, Attempt, Active, Cut
<1>19. ASSUME NEW p \in Process, SecondSignal(p)
      PROVE  Covered'
  <2>1. ASSUME NEW r \in Process, pc'[r] \in Active, line[r] # {}, ~Orphan(r)'
        PROVE  \E g \in line[r] : guard'[g]
    <3>1. /\ pc[r] \in Active /\ ~Orphan(r)
          /\ \A a \in line[r] : a \in Process /\ a # p /\ a \notin Registered(p)
      BY <1>19, <2>1, AfterSignal
    <3>2. PICK g \in line[r] : guard[g]
      BY <2>1, <3>1 DEF Covered
    <3>. QED  BY <1>19, <3>1, <3>2, RegisteredKilled
  <2>2. \A r \in Working' : line[r] = {} => guard'[r]
    BY <1>19, RegisteredKilled DEF Working, Covered
  <2>3. line' = line
    BY <1>19, RegisteredKilled
  <2>. QED  BY <2>1, <2>2, <2>3 DEF Covered
<1>20. ASSUME NEW p \in Process, Exit(p) PROVE Covered'
  BY <1>20, NoProcessAssumption
  DEF Exit, Goto, tree, TypeOK, Forest, HeldOK, FileOK, Waiting, Covered, Orphan, Missed,
       Working, Kind, Isuscope, Attempt, Active, Cut
<1>21. CASE UNCHANGED vars
  BY <1>21, NoProcessAssumption
  DEF vars, tree, TypeOK, Forest, HeldOK, FileOK, Waiting, Covered, Orphan, Missed,
       Working, Kind, Isuscope, Attempt, Active, Cut
<1>. QED  BY <1>1, <1>2, <1>3, <1>4, <1>5, <1>6, <1>7, <1>8, <1>9,
             <1>10, <1>11, <1>12, <1>13, <1>14, <1>15, <1>16, <1>17, <1>18,
             <1>19, <1>20, <1>21
         DEF Next, Acquire, Release, Signalled

\* Only the holder writes and removes `owner`.
LEMMA OwnerStep ==
  ASSUME TypeOK, Forest, FileOK, OwnerOK, [Next]_vars
  PROVE  OwnerOK'
<1>1. ASSUME NEW p \in Process, NEW k \in Kind, Start(p, k)
      PROVE  OwnerOK'
  BY <1>1, NoProcessAssumption
  DEF Start, Goto, tree, TypeOK, FileOK, OwnerOK, Kind, Isuscope, Attempt,
       Active, Cut
<1>2. ASSUME NEW p \in Process, NEW q \in Process, NEW k \in Kind, Launch(p, q, k)
      PROVE  OwnerOK'
  <2>1. /\ \A r \in Process : pc[r] \in Cut => pc'[r] \in Cut
        /\ \A r \in Process : pc[r] = "close" <=> pc'[r] = "close"
        /\ UNCHANGED <<guard, owner>>
    BY <1>2, Launched DEF Cut
  <2>. QED  BY <2>1 DEF OwnerOK
<1>3. ASSUME NEW p \in Process, HeldByParent(p) PROVE OwnerOK'
  BY <1>3, NoProcessAssumption
  DEF HeldByParent, Goto, Proceeds, tree, TypeOK, FileOK, OwnerOK, Kind,
       Isuscope, Attempt, Active, Cut
<1>4. ASSUME NEW p \in Process, Open(p) PROVE OwnerOK'
  BY <1>4, NoProcessAssumption
  DEF Open, Goto, tree, TypeOK, FileOK, OwnerOK, Kind, Isuscope, Attempt,
       Active, Cut
<1>5. ASSUME NEW p \in Process, TryLock(p) PROVE OwnerOK'
  BY <1>5, NoProcessAssumption
  DEF TryLock, Goto, tree, TypeOK, FileOK, OwnerOK, Kind, Isuscope,
       Attempt, Active, Cut
<1>6. ASSUME NEW p \in Process, Busy(p) PROVE OwnerOK'
  BY <1>6, NoProcessAssumption
  DEF Busy, Goto, CloseFile, tree, TypeOK, FileOK, OwnerOK, Kind, Isuscope,
       Attempt, Active, Cut
<1>7. ASSUME NEW p \in Process, CreateOwner(p) PROVE OwnerOK'
  BY <1>7, NoProcessAssumption
  DEF CreateOwner, Goto, tree, TypeOK, FileOK, OwnerOK, Kind, Isuscope,
       Attempt, Active, Cut
<1>8. ASSUME NEW p \in Process, WriteOwner(p) PROVE OwnerOK'
  BY <1>8, NoProcessAssumption
  DEF WriteOwner, Goto, Proceeds, tree, TypeOK, FileOK, OwnerOK, Kind,
       Isuscope, Attempt, Active, Cut
<1>9. ASSUME NEW p \in Process, AcquireFails(p) PROVE OwnerOK'
  BY <1>9, NoProcessAssumption
  DEF AcquireFails, Goto, CloseFile, tree, TypeOK, FileOK, OwnerOK, Kind,
       Isuscope, Attempt, Active, Cut
<1>10. ASSUME NEW p \in Process, NotStarted(p) PROVE OwnerOK'
  BY <1>10, NoProcessAssumption
  DEF NotStarted, Goto, Gone, tree, TypeOK, FileOK, OwnerOK, Kind,
       Isuscope, Attempt, Active, Cut
<1>11. ASSUME NEW p \in Process, Waited(p) PROVE OwnerOK'
  BY <1>11, NoProcessAssumption
  DEF Waited, Goto, Gone, tree, TypeOK, FileOK, OwnerOK, Kind, Isuscope,
       Attempt, Active, Cut
<1>12. ASSUME NEW p \in Process, Worked(p) PROVE OwnerOK'
  BY <1>12, NoProcessAssumption
  DEF Worked, Goto, Gone, tree, TypeOK, FileOK, OwnerOK, Kind, Isuscope,
       Attempt, Active, Cut
<1>13. ASSUME NEW p \in Process, RemoveOwner(p) PROVE OwnerOK'
  BY <1>13, NoProcessAssumption
  DEF RemoveOwner, Goto, tree, TypeOK, FileOK, OwnerOK, Kind, Isuscope,
       Attempt, Active, Cut
<1>14. ASSUME NEW p \in Process, Close(p) PROVE OwnerOK'
  BY <1>14, NoProcessAssumption
  DEF Close, Released, Goto, CloseFile, tree, TypeOK, FileOK, OwnerOK, Kind,
       Isuscope, Attempt, Active, Cut
<1>15. ASSUME NEW p \in Process, Kill(p) PROVE OwnerOK'
  BY <1>15, NoProcessAssumption
  DEF Kill, Goto, CloseFile, tree, TypeOK, FileOK, OwnerOK, Kind, Isuscope,
       Attempt, Active, Cut
<1>16. ASSUME NEW p \in Process, Interrupt(p) PROVE OwnerOK'
  BY <1>16, NoProcessAssumption
  DEF Interrupt, Goto, CloseFile, tree, TypeOK, FileOK, OwnerOK, Kind,
       Isuscope, Attempt, Active, Cut
<1>17. ASSUME NEW p \in Process, NEW c \in Process, Terminate(p, c)
      PROVE  OwnerOK'
  BY <1>17, GroupKilled DEF OwnerOK, Active, Attempt, Cut
<1>18. ASSUME NEW p \in Process, NEW c \in Process, Register(p, c)
      PROVE  OwnerOK'
  BY <1>18, NoProcessAssumption
  DEF Register, Starts, tree, TypeOK, FileOK, OwnerOK, Kind, Isuscope, Attempt, Active, Cut
<1>19. ASSUME NEW p \in Process, SecondSignal(p)
      PROVE  OwnerOK'
  BY <1>19, RegisteredKilled DEF TypeOK, FileOK, OwnerOK, Active, Attempt, Cut
<1>20. ASSUME NEW p \in Process, Exit(p) PROVE OwnerOK'
  BY <1>20, NoProcessAssumption
  DEF Exit, Goto, tree, TypeOK, FileOK, OwnerOK, Kind, Isuscope, Attempt, Active, Cut
<1>21. CASE UNCHANGED vars
  BY <1>21, NoProcessAssumption
  DEF vars, tree, TypeOK, FileOK, OwnerOK, Kind, Isuscope, Attempt, Active, Cut
<1>. QED  BY <1>1, <1>2, <1>3, <1>4, <1>5, <1>6, <1>7, <1>8, <1>9,
             <1>10, <1>11, <1>12, <1>13, <1>14, <1>15, <1>16, <1>17, <1>18,
             <1>19, <1>20, <1>21
         DEF Next, Acquire, Release, Signalled

-----------------------------------------------------------------------------
(* Theorems                                                                *)

\* The invariant holds in every reachable state.
THEOREM LockInvariant == Spec => []LockInv
<1>1. Init => LockInv
  BY NoProcessAssumption, InodeAssumption
  DEF Init, LockInv, TypeOK, Forest, HeldOK, FileOK, Waiting, Covered, OwnerOK,
      Orphan, Missed, Working, Kind, Active, Attempt, Cut
<1>2. LockInv /\ [Next]_vars => LockInv'
  BY TypeStep, ForestStep, HeldStep, FileStep, WaitingStep, CoveredStep, OwnerStep
  DEF LockInv
<1>. QED  BY <1>1, <1>2, PTL DEF Spec

\* Every reachable state of OperationLock is well typed, and a lock that a
\* process was given owns an open file.
THEOREM LockTypeCorrect == Spec => []TypeOK
BY LockInvariant, PTL DEF LockInv

\* However many processes lock, nest, are interrupted or are killed: all work that
\* no kill has orphaned is below one process, which holds the lock.
THEOREM OperationsExclude == Spec => []OneOperation
<1>1. LockInv => OneOperation
  <2>1. SUFFICES ASSUME LockInv, NEW p \in Working, NEW q \in Working,
                        ~Orphan(p), ~Orphan(q)
                 PROVE  \E g \in ({p} \cup line[p]) \cap ({q} \cup line[q]) :
                           guard[g] /\ \E i \in Inode : holder[i] = g
    BY DEF OneOperation
  <2>2. p \in Process /\ q \in Process /\ pc[p] \in Active /\ pc[q] \in Active
    BY DEF Working, Active
  <2>3. PICK g \in {p} \cup line[p] : guard[g]
    BY <2>1, <2>2 DEF LockInv, Covered
  <2>4. PICK h \in {q} \cup line[q] : guard[h]
    BY <2>1, <2>2 DEF LockInv, Covered
  <2>5. g \in Process /\ h \in Process
    BY <2>1, <2>2, <2>3, <2>4 DEF LockInv, TypeOK
  <2>6. /\ fd[g] = lockfile /\ fd[h] = lockfile /\ lockfile \in Inode
        /\ holder[fd[g]] = g /\ holder[fd[h]] = h
    BY <2>1, <2>3, <2>4, <2>5 DEF LockInv, FileOK, TypeOK
  <2>. QED  BY <2>3, <2>4, <2>6
<1>. QED  BY <1>1, LockInvariant, PTL

\* `owner` never names a process that gave the lock back in order, and always
\* names the one that works with it.
THEOREM OwnerIsHonest == Spec => []OwnerHonest
<1>1. LockInv => OwnerHonest
  <2>1. SUFFICES ASSUME LockInv PROVE OwnerHonest
    OBVIOUS
  <2>2. ASSUME owner # NoProcess, pc[owner] \notin Cut
        PROVE  \E i \in Inode : holder[i] = owner
    <3>1. owner \in Process /\ guard[owner]
      BY <2>1, <2>2 DEF LockInv, TypeOK, OwnerOK
    <3>2. fd[owner] \in Inode /\ holder[fd[owner]] = owner
      BY <2>1, <3>1 DEF LockInv, TypeOK, FileOK
    <3>. QED  BY <3>2
  <2>3. ASSUME NEW p \in Working, guard[p] PROVE owner = p
    BY <2>1, <2>3 DEF LockInv, OwnerOK, Working
  <2>. QED  BY <2>2, <2>3 DEF OwnerHonest
<1>. QED  BY <1>1, LockInvariant, PTL

\* A process below the holder of the lock is never told that it is busy.
THEOREM OwnJobPasses == Spec => []OwnJobNotRefused
<1>1. LockInv => OwnJobNotRefused
  BY DEF LockInv, HeldOK, OwnJobNotRefused
<1>. QED  BY <1>1, LockInvariant, PTL
=============================================================================
