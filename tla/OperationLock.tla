--------------------------- MODULE OperationLock ---------------------------
(***************************************************************************)
(* The operation lock that benchmarks, deploys and project scripts share   *)
(* (src/src/lock.rs, with its callers in main.rs, runner.rs and            *)
(* shutdown.rs), one lock directory and any number of processes.           *)
(*                                                                         *)
(* A process is `isuscope lock -- command` ("lock"), `isuscope run`        *)
(* ("run") or a command that one of them starts ("cmd", a script or a      *)
(* hook), which may itself call isuscope again.  What the children inherit *)
(* of ISUSCOPE_LOCK_HELD decides whether they lock.  RunFlow has what a    *)
(* run does inside; here a run starts children, hands the lock back when   *)
(* they have ended, and exits on a second signal without waiting for them. *)
(***************************************************************************)
EXTENDS Naturals, FiniteSets

CONSTANTS Process, NoProcess,
          Inode       \* files that the name `lock` may stand for

ASSUME NoProcessAssumption == NoProcess \notin Process
ASSUME InodeAssumption == Inode \subseteq Nat \ {0}

VARIABLES
    kind,       \* what the process is
    pc,         \* its next step
    parent,     \* who started it
    line,       \* its ancestors
    held,       \* ISUSCOPE_LOCK_HELD=1 in the environment it was started with
    registered, \* the children whose group is in GROUPS of their run
    leaving,    \* the runs that had a second signal
    guard,      \* it has an OperationLock (Some), not only its parent
    fd,         \* the lock file it has open, 0 for none
    lockfile,   \* the file `lock` in the lock directory, 0 when missing
    holder,     \* the process with the flock on a file
    owner       \* whom the file `owner` names; NoProcess: empty or missing

tree == <<kind, parent, line, held, registered, leaving>>
vars == <<pc, tree, guard, fd, lockfile, holder, owner>>

Kind == {"lock", "run", "cmd"}
Isuscope == {"lock", "run"}

Attempt == {"enter", "open", "try", "busy", "create", "write"}
Active  == Attempt \cup {"spawn", "wait", "work", "unown", "close", "exit"}
\* Killed by SIGKILL, SIGTERM or SIGHUP, or ended by SIGINT without unwinding.
Cut     == {"killed", "interrupted"}

TypeOK ==
    /\ kind \in [Process -> Kind]
    /\ pc \in [Process -> Active \cup Cut \cup {"none", "ended"}]
    /\ parent \in [Process -> Process \cup {NoProcess}]
    /\ line \in [Process -> SUBSET Process]
    /\ held \in [Process -> BOOLEAN] /\ guard \in [Process -> BOOLEAN]
    /\ registered \subseteq Process /\ leaving \subseteq Process
    /\ fd \in [Process -> Inode \cup {0}]
    /\ lockfile \in Inode \cup {0}
    /\ holder \in [Inode -> Process \cup {NoProcess}]
    /\ owner \in Process \cup {NoProcess}
    \* an OperationLock owns its open file
    /\ \A p \in Process : guard[p] => fd[p] # 0

Init ==
    /\ kind = [p \in Process |-> "cmd"]
    /\ pc = [p \in Process |-> "none"]
    /\ parent = [p \in Process |-> NoProcess]
    /\ line = [p \in Process |-> {}]
    /\ held = [p \in Process |-> FALSE] /\ guard = [p \in Process |-> FALSE]
    /\ registered = {} /\ leaving = {}
    /\ fd = [p \in Process |-> 0]
    /\ lockfile = 0
    /\ holder = [i \in Inode |-> NoProcess]
    /\ owner = NoProcess

Goto(p, step) == pc' = [pc EXCEPT ![p] = step]

\* The tasks of a run start children: while it works, and after a second
\* signal until process::exit, for nothing stops them.
Starts(p) ==
    /\ kind[p] = "run"
    /\ pc[p] = "work" \/ (p \in leaving /\ pc[p] \in {"unown", "close", "exit"})
ChildrenEnded(p) == \A q \in Process : parent[q] = p => pc[q] \notin Active

\* The kernel closes the lock file of p, and with it drops its flock.
CloseFile(p) ==
    /\ fd' = [fd EXCEPT ![p] = 0]
    /\ holder' = [i \in Inode |-> IF holder[i] = p THEN NoProcess ELSE holder[i]]

-----------------------------------------------------------------------------
(* Starting processes                                                      *)

\* A user starts isuscope in a shell that does not hold the lock.
Start(p, k) ==
    /\ pc[p] = "none" /\ k \in Isuscope
    /\ kind' = [kind EXCEPT ![p] = k]
    /\ Goto(p, "enter")
    /\ UNCHANGED <<parent, line, held, registered, leaving, guard, fd, lockfile, holder, owner>>

\* run and lock set the variable for what they start; a command passes it on.
\* Slip: run does not set it.
Inherits_Slip(p) == kind[p] = "lock" \/ held[p]
Inherits(p) == kind[p] \in Isuscope \/ held[p]

\* A process starts a child: run_locked the command, a run hooks and
\* collectors, a command other isuscopes.
Launch(p, q, k) ==
    /\ \/ kind[p] = "lock" /\ pc[p] = "spawn"
       \/ Starts(p) /\ k = "cmd"
       \/ kind[p] = "cmd" /\ pc[p] = "work" /\ k \in Isuscope
    /\ pc[q] = "none" /\ k \in Kind
    /\ kind' = [kind EXCEPT ![q] = k]
    /\ parent' = [parent EXCEPT ![q] = p]
    /\ line' = [line EXCEPT ![q] = line[p] \cup {p}]
    /\ held' = [held EXCEPT ![q] = Inherits(p)]
    /\ pc' = [pc EXCEPT ![p] = IF kind[p] = "lock" THEN "wait" ELSE @,
                        ![q] = IF k = "cmd" THEN "work" ELSE "enter"]
    /\ UNCHANGED <<registered, leaving, guard, fd, lockfile, holder, owner>>

\* register_group(), some time after spawn(); it never comes for a benchmark
\* parser, and nobody reads GROUPS after the second signal.
Register(p, c) ==
    /\ Starts(p) /\ p \notin leaving
    /\ parent[c] = p /\ pc[c] \in Active
    /\ registered' = registered \cup {c}
    /\ UNCHANGED <<pc, kind, parent, line, held, leaving, guard, fd, lockfile, holder, owner>>

-----------------------------------------------------------------------------
(* OperationLock::acquire                                                  *)

\* Where a process goes on once it may modify things.
Proceeds(p) == IF kind[p] = "lock" THEN "spawn" ELSE "work"

HeldByParent(p) ==
    /\ pc[p] = "enter"
    /\ Goto(p, IF held[p] THEN Proceeds(p) ELSE "open")
    /\ UNCHANGED <<tree, guard, fd, lockfile, holder, owner>>

\* Slip: `owner` is written before the lock is taken.
Open_Slip(p) ==
    /\ pc[p] = "open"
    /\ \/ lockfile # 0 /\ UNCHANGED lockfile
       \/ /\ lockfile = 0
          /\ \E i \in Inode : /\ \A q \in Process : fd[q] # i
                              /\ lockfile' = i
    /\ fd' = [fd EXCEPT ![p] = lockfile']
    /\ owner' = p
    /\ Goto(p, "try")
    /\ UNCHANGED <<tree, guard, holder>>

\* create(true), truncate(false): the file is made when it is missing.
Open(p) ==
    /\ pc[p] = "open"
    /\ \/ lockfile # 0 /\ UNCHANGED lockfile
       \/ /\ lockfile = 0
          /\ \E i \in Inode : /\ \A q \in Process : fd[q] # i
                              /\ lockfile' = i
    /\ fd' = [fd EXCEPT ![p] = lockfile']
    /\ Goto(p, "try")
    /\ UNCHANGED <<tree, guard, holder, owner>>

TryLock(p) ==
    /\ pc[p] = "try"
    /\ IF holder[fd[p]] = NoProcess
       THEN /\ holder' = [holder EXCEPT ![fd[p]] = p]
            /\ Goto(p, "create")
       ELSE Goto(p, "busy") /\ UNCHANGED holder
    /\ UNCHANGED <<tree, guard, fd, lockfile, owner>>

\* LockBusy, with whatever `owner` says by then, and exit with code 75.
Busy(p) ==
    /\ pc[p] = "busy"
    /\ Goto(p, "ended") /\ CloseFile(p)
    /\ UNCHANGED <<tree, guard, lockfile, owner>>

\* fs::write truncates the file, then writes it.
CreateOwner(p) ==
    /\ pc[p] = "create"
    /\ owner' = NoProcess
    /\ Goto(p, "write")
    /\ UNCHANGED <<tree, guard, fd, lockfile, holder>>

WriteOwner(p) ==
    /\ pc[p] = "write"
    /\ owner' = p
    /\ guard' = [guard EXCEPT ![p] = TRUE]
    /\ Goto(p, Proceeds(p))
    /\ UNCHANGED <<tree, fd, lockfile, holder>>

\* A file cannot be opened, locked or written: nothing is dropped but the file.
AcquireFails(p) ==
    /\ pc[p] \in {"open", "try", "create", "write"}
    /\ Goto(p, "ended") /\ CloseFile(p)
    /\ UNCHANGED <<tree, guard, lockfile, owner>>

-----------------------------------------------------------------------------
(* Holding the lock and giving it back                                     *)

Gone(p) == IF guard[p] THEN "unown" ELSE "ended"

\* The command could not be started.
NotStarted(p) ==
    /\ kind[p] = "lock" /\ pc[p] = "spawn"
    /\ Goto(p, Gone(p))
    /\ UNCHANGED <<tree, guard, fd, lockfile, holder, owner>>

\* The command of run_locked has ended.
Waited(p) ==
    /\ pc[p] = "wait" /\ ChildrenEnded(p)
    /\ Goto(p, Gone(p))
    /\ UNCHANGED <<tree, guard, fd, lockfile, holder, owner>>

\* A run leaves the nodes alone from here on, or returns early: none of its
\* children is left (LockCoversNodes of RunFlow).  A command ends.
Worked(p) ==
    /\ pc[p] = "work" /\ ChildrenEnded(p)
    /\ Goto(p, Gone(p))
    /\ UNCHANGED <<tree, guard, fd, lockfile, holder, owner>>

\* release_run_lock() returns to the end of the run or to the handler.
Released(p) == IF p \in leaving THEN "exit" ELSE "ended"

\* Slips: the file closes before `owner` is removed; the lock file is removed
\* with the lock.
RemoveOwner_Slip(p) ==
    /\ pc[p] = "unown"
    /\ IF fd[p] # 0
       THEN CloseFile(p) /\ UNCHANGED <<pc, owner>>
       ELSE owner' = NoProcess /\ Goto(p, "close") /\ UNCHANGED <<fd, holder>>
    /\ UNCHANGED <<tree, guard, lockfile>>

Close_Slip(p) ==
    /\ pc[p] = "close"
    /\ guard' = [guard EXCEPT ![p] = FALSE]
    /\ Goto(p, Released(p)) /\ CloseFile(p)
    /\ lockfile' = 0
    /\ UNCHANGED <<tree, owner>>

\* Drop for OperationLock: `owner` goes first, then the field _file closes.
RemoveOwner(p) ==
    /\ pc[p] = "unown"
    /\ owner' = NoProcess
    /\ Goto(p, "close")
    /\ UNCHANGED <<tree, guard, fd, lockfile, holder>>

Close(p) ==
    /\ pc[p] = "close"
    /\ guard' = [guard EXCEPT ![p] = FALSE]
    /\ Goto(p, Released(p)) /\ CloseFile(p)
    /\ UNCHANGED <<tree, lockfile, owner>>

-----------------------------------------------------------------------------
(* Signals and death                                                       *)

\* SIGKILL, for a `lock` SIGTERM and SIGHUP too: the process ends where it is.
Kill(p) ==
    /\ pc[p] \in Active
    /\ Goto(p, "killed") /\ CloseFile(p)
    /\ guard' = [guard EXCEPT ![p] = FALSE]
    /\ UNCHANGED <<tree, lockfile, owner>>

\* Slip: SIGINT keeps its default while run_locked waits.
Interrupt_Slip(p) ==
    /\ kind[p] \in Isuscope /\ p \notin leaving
    /\ pc[p] \in Active
    /\ pc[p] = "work" => ChildrenEnded(p)
    /\ Goto(p, "interrupted") /\ CloseFile(p)
    /\ guard' = [guard EXCEPT ![p] = FALSE]
    /\ UNCHANGED <<tree, lockfile, owner>>

\* Ctrl-C ends an isuscope without unwinding, except while it ignores SIGINT
\* or, a run with children, handles it.  Commands clean up and end by
\* themselves (Worked).
Interrupt(p) ==
    /\ kind[p] \in Isuscope /\ p \notin leaving
    /\ pc[p] \in Active \ {"wait"}
    /\ pc[p] = "work" => ChildrenEnded(p)
    /\ Goto(p, "interrupted") /\ CloseFile(p)
    /\ guard' = [guard EXCEPT ![p] = FALSE]
    /\ UNCHANGED <<tree, lockfile, owner>>

\* The process group of a child of a run: the child and everything below it,
\* down to another run, whose children have groups of their own.
Group(c) == {q \in Process : /\ pc[q] \in Active
                             /\ \/ q = c
                                \/ /\ c \in line[q]
                                   /\ \A a \in line[q] : c \in line[a] => kind[a] # "run"}

\* SIGKILL for all of D.
Die(D, step) ==
    /\ pc' = [q \in Process |-> IF q \in D THEN "killed" ELSE step[q]]
    /\ fd' = [q \in Process |-> IF q \in D THEN 0 ELSE fd[q]]
    /\ holder' = [i \in Inode |-> IF holder[i] \in D THEN NoProcess ELSE holder[i]]
    /\ guard' = [q \in Process |-> guard[q] /\ q \notin D]
    /\ UNCHANGED <<lockfile, owner>>

\* terminate_group(): a run kills the group of one of its children, at a time
\* limit or on the first signal.
Terminate(p, c) ==
    /\ Starts(p)
    /\ parent[c] = p /\ pc[c] \in Active
    /\ Die(Group(c), pc)
    /\ UNCHANGED tree

\* The processes that kill_registered_groups() of p reaches.
Registered(p) == UNION {Group(c) : c \in {c \in registered : parent[c] = p}}

\* Slip: the children are left to themselves.
SecondSignal_Slip(p) ==
    /\ kind[p] = "run" /\ pc[p] = "work"
    /\ Goto(p, IF guard[p] THEN "unown" ELSE "exit")
    /\ leaving' = leaving \cup {p}
    /\ UNCHANGED <<kind, parent, line, held, registered, guard, fd, lockfile, holder, owner>>

\* Shutdown::listen() on a second signal: the registered groups are killed,
\* then the run lock is released, then the process exits.  Nobody waits for
\* a child, and the other tasks go on until then.
SecondSignal(p) ==
    /\ kind[p] = "run" /\ pc[p] = "work"
    /\ Die(Registered(p), [pc EXCEPT ![p] = IF guard[p] THEN "unown" ELSE "exit"])
    /\ leaving' = leaving \cup {p}
    /\ UNCHANGED <<kind, parent, line, held, registered>>

\* process::exit().
Exit(p) ==
    /\ pc[p] = "exit"
    /\ Goto(p, "ended")
    /\ UNCHANGED <<tree, guard, fd, lockfile, holder, owner>>

-----------------------------------------------------------------------------
Acquire(p) == \/ HeldByParent(p) \/ Open(p) \/ TryLock(p) \/ Busy(p)
              \/ CreateOwner(p) \/ WriteOwner(p) \/ AcquireFails(p)
Release(p) == NotStarted(p) \/ Waited(p) \/ Worked(p) \/ RemoveOwner(p) \/ Close(p)
Signalled(p) == \/ Kill(p) \/ Interrupt(p) \/ SecondSignal(p) \/ Exit(p)
                \/ \E c \in Process : Terminate(p, c)

Next ==
    \E p \in Process :
        \/ \E k \in Kind : Start(p, k) \/ \E q \in Process : Launch(p, q, k)
        \/ \E c \in Process : Register(p, c)
        \/ Acquire(p) \/ Release(p) \/ Signalled(p)

Spec == Init /\ [][Next]_vars

-----------------------------------------------------------------------------
(* Properties                                                              *)

\* An orphan's work was started under a process that has been killed since,
\* or by a run that had a second signal before it had registered its group.
Missed(c) == parent[c] \in leaving /\ c \notin registered
Orphan(p) ==
    \/ \E a \in line[p] : pc[a] = "killed"
    \/ \E c \in {p} \cup line[p] : Missed(c)

\* Processes that modify things, or are about to: the commands, and those
\* whose acquire returned.
Working == {p \in Process : pc[p] \in {"spawn", "wait", "work"}}

\* Operations exclude each other: any two processes at work, in whatever
\* jobs, are below (or are) one process that holds the lock, unless one of
\* them was orphaned (lock.rs:1-9, README.md:414).  A time limit, a failure
\* and one Ctrl-C never part a command from its lock; two part those alone
\* whose group the run had not registered (shutdown.rs:17-21).
OneOperation ==
    \A p, q \in Working : Orphan(p) \/ Orphan(q)
        \/ \E g \in ({p} \cup line[p]) \cap ({q} \cup line[q]) :
              guard[g] /\ \E i \in Inode : holder[i] = g

\* `owner` names nobody but the holder of the lock, or a process that was
\* killed or interrupted; and it does name a holder from its acquire to its
\* Drop, so no Drop or write of another process disturbs it.
OwnerHonest ==
    /\ owner # NoProcess => \/ pc[owner] \in Cut
                            \/ \E i \in Inode : holder[i] = owner
    /\ \A p \in Working : guard[p] => owner = p

\* The lock of its own job never refuses a process (README.md:141): nobody
\* below the holder gets LockBusy.
OwnJobNotRefused ==
    \A p \in Process : pc[p] = "busy" => \A i \in Inode : holder[i] \notin line[p]
=============================================================================
