------------------------------ MODULE LockFile ------------------------------
(***************************************************************************)
(* LockFileManager: processes that want to create one file agree, through  *)
(* a lock file beside it, on one that does it while the others wait.       *)
(*                                                                         *)
(* Processes do not share memory, they see each other through the file     *)
(* system only, and any of them may end between two system calls.  One     *)
(* action is one system call.  The lock file is a symbolic link to a       *)
(* unique file that holds the host and the number of its process: lock is  *)
(* the process whose file the link points to.                              *)
(***************************************************************************)
EXTENDS Naturals

CONSTANTS Procs, NoProc,
          Host,       \* the host that a process runs on
          MaxPolls    \* polls of waitForUnlock until 8.5 minutes are over

ASSUME ProcsAssumption == NoProc \notin Procs /\ MaxPolls \in Nat \ {0}

VARIABLES alive,     \* the processes that run
          lock,      \* the process that the lock file names
          unique,    \* processes whose unique lock file exists
          file,      \* what the protected file holds
          pc,        \* where a process is in its LockFileManager
          owner,     \* Owner, the process that was found to hold the lock
          polls      \* how often it has looked for the end of it

lockVars == <<alive, lock, unique, file, pc, owner, polls>>

NoFile == "none"

\* Link and file are there: a link whose file is gone counts as no file.
Visible == lock # NoProc /\ lock \in unique

\* A process of another host is taken to run.
processStillExecuting(p, q) == Host[p] = Host[q] => q \in alive

At(p, here) == p \in alive /\ pc[p] = here
Goto(p, there) == pc' = [pc EXCEPT ![p] = there]

-----------------------------------------------------------------------------
(* The constructor.                                                        *)

construct(p) ==
    /\ Goto(p, "read")
    /\ owner' = [owner EXCEPT ![p] = NoProc]
    /\ polls' = [polls EXCEPT ![p] = 0]

\* readLockFile reads the number of the owner, or fails.
ReadLockFile(p) ==
    /\ At(p, "read")
    /\ IF Visible
       THEN owner' = [owner EXCEPT ![p] = lock] /\ Goto(p, "check")
       ELSE UNCHANGED owner /\ Goto(p, "clear")
    /\ UNCHANGED <<alive, lock, unique, file, polls>>

\* Mutant: the unique file is forgotten.
OwnerRunsOnly(p) ==
    /\ At(p, "check")
    /\ processStillExecuting(p, owner[p])
    /\ Goto(p, "shared")
    /\ UNCHANGED <<alive, lock, unique, file, owner, polls>>

\* An owner that runs is waited for; the second time the process has a unique file
\* of its own that is useless now.
OwnerRuns(p) ==
    /\ At(p, "check")
    /\ processStillExecuting(p, owner[p])
    /\ unique' = unique \ {p}
    /\ Goto(p, "shared")
    /\ UNCHANGED <<alive, lock, file, owner, polls>>

OwnerIsDead(p) ==
    /\ At(p, "check")
    /\ ~processStillExecuting(p, owner[p])
    /\ owner' = [owner EXCEPT ![p] = NoProc]
    /\ Goto(p, "clear")
    /\ UNCHANGED <<alive, lock, unique, file, polls>>

\* "It's invalid anyway": readLockFile removes what has that name by now.
ClearLockFile(p) ==
    /\ At(p, "clear")
    /\ lock' = NoProc
    /\ Goto(p, IF p \in unique THEN "exists" ELSE "create")
    /\ UNCHANGED <<alive, unique, file, owner, polls>>

CreateUniqueFile(p) ==
    /\ At(p, "create")
    /\ unique' = unique \cup {p}
    /\ Goto(p, "link")
    /\ UNCHANGED <<alive, lock, file, owner, polls>>

\* The unique file cannot be created, or not written and is removed.
CreateFails(p) ==
    /\ At(p, "create")
    /\ Goto(p, "error")
    /\ UNCHANGED <<alive, lock, unique, file, owner, polls>>

\* create_link succeeds for one process only.
CreateLink(p) ==
    /\ At(p, "link")
    /\ lock = NoProc
    /\ lock' = p
    /\ Goto(p, "owned")
    /\ UNCHANGED <<alive, unique, file, owner, polls>>

LinkExists(p) ==
    /\ At(p, "link")
    /\ lock # NoProc
    /\ Goto(p, "read")
    /\ UNCHANGED <<alive, lock, unique, file, owner, polls>>

\* Any other error; the unique file stays.
LinkFails(p) ==
    /\ At(p, "link")
    /\ Goto(p, "error")
    /\ UNCHANGED <<alive, lock, unique, file, owner, polls>>

\* The lock file that could not be read: is it there?
StillExists(p) ==
    /\ At(p, "exists")
    /\ Goto(p, IF Visible THEN "unowned" ELSE "link")
    /\ UNCHANGED <<alive, lock, unique, file, owner, polls>>

\* "There is a lock file that nobody owns; try to clean it up".
RemoveUnowned(p) ==
    /\ At(p, "unowned")
    /\ lock' = NoProc
    /\ Goto(p, "link")
    /\ UNCHANGED <<alive, unique, file, owner, polls>>

RemoveFails(p) ==
    /\ At(p, "unowned")
    /\ Goto(p, "error")
    /\ UNCHANGED <<alive, lock, unique, file, owner, polls>>

-----------------------------------------------------------------------------
(* waitForUnlock.                                                          *)

\* After each sleep the lock file is looked for.
Poll(p) ==
    /\ At(p, "wait")
    /\ Goto(p, IF Visible THEN "probe" ELSE "gone")
    /\ UNCHANGED <<alive, lock, unique, file, owner, polls>>

\* Mutant: it is not looked for the file itself.
LockIsGoneBlindly(p) ==
    /\ At(p, "gone")
    /\ Goto(p, "unlocked")
    /\ UNCHANGED <<alive, lock, unique, file, owner, polls>>

\* "If the original file wasn't created, somone thought the lock was dead."
LockIsGone(p) ==
    /\ At(p, "gone")
    /\ Goto(p, IF file = NoFile THEN "owner_died" ELSE "unlocked")
    /\ polls' = [polls EXCEPT ![p] = 0]
    /\ UNCHANGED <<alive, lock, unique, file, owner>>

\* Mutant: the end of the time is missed by one poll.
ProbeOnceMore(p) ==
    /\ At(p, "probe")
    /\ IF processStillExecuting(p, owner[p]) /\ polls[p] < MaxPolls
       THEN /\ polls' = [polls EXCEPT ![p] = @ + 1]
            /\ Goto(p, "wait")
       ELSE /\ polls' = [polls EXCEPT ![p] = 0]
            /\ Goto(p, IF processStillExecuting(p, owner[p]) THEN "timeout" ELSE "owner_died")
    /\ UNCHANGED <<alive, lock, unique, file, owner>>

\* Mutant: a process waits as long as the owner runs.
ProbeForever(p) ==
    /\ At(p, "probe")
    /\ Goto(p, IF processStillExecuting(p, owner[p]) THEN "wait" ELSE "owner_died")
    /\ UNCHANGED <<alive, lock, unique, file, owner, polls>>

\* The owner is the one that the constructor has found, whoever has it now.
ProbeOwner(p) ==
    /\ At(p, "probe")
    /\ IF processStillExecuting(p, owner[p]) /\ polls[p] + 1 < MaxPolls
       THEN /\ polls' = [polls EXCEPT ![p] = @ + 1]
            /\ Goto(p, "wait")
       ELSE /\ polls' = [polls EXCEPT ![p] = 0]
            /\ Goto(p, IF processStillExecuting(p, owner[p]) THEN "timeout" ELSE "owner_died")
    /\ UNCHANGED <<alive, lock, unique, file, owner>>

-----------------------------------------------------------------------------
(* The destructor, and the end of a process.                               *)

\* Mutant: the unique file is removed first.
ReleaseUniqueFirst(p) ==
    /\ At(p, "release")
    /\ unique' = unique \ {p}
    /\ Goto(p, "unlink")
    /\ UNCHANGED <<alive, lock, file, owner, polls>>

\* The owner removes the lock file, whosever that is by now ...
Release(p) ==
    /\ At(p, "release")
    /\ lock' = NoProc
    /\ Goto(p, "unlink")
    /\ UNCHANGED <<alive, unique, file, owner, polls>>

\* ... and its own unique file.
Unlink(p) ==
    /\ At(p, "unlink")
    /\ unique' = unique \ {p}
    /\ Goto(p, "done")
    /\ UNCHANGED <<alive, lock, file, owner, polls>>

\* A process ends, at any point: its memory is gone, its files stay.
Exit(p) ==
    /\ p \in alive
    /\ alive' = alive \ {p}
    /\ Goto(p, "done")
    /\ owner' = [owner EXCEPT ![p] = NoProc]
    /\ polls' = [polls EXCEPT ![p] = 0]
    /\ UNCHANGED <<lock, unique, file>>

Manage(p) ==
    \/ ReadLockFile(p) \/ OwnerRuns(p) \/ OwnerIsDead(p) \/ ClearLockFile(p)
    \/ CreateUniqueFile(p) \/ CreateFails(p)
    \/ CreateLink(p) \/ LinkExists(p) \/ LinkFails(p)
    \/ StillExists(p) \/ RemoveUnowned(p) \/ RemoveFails(p)
    \/ Poll(p) \/ LockIsGone(p) \/ ProbeOwner(p)
    \/ Release(p) \/ Unlink(p)
=============================================================================
