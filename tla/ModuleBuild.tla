----------------------------- MODULE ModuleBuild -----------------------------
(***************************************************************************)
(* compileAndLoadModule: compiler processes that import one module which   *)
(* is missing or out of date.  One that gets the lock compiles it, the     *)
(* others wait and then load it.  A module file is good for the processes  *)
(* whose configuration it was built with; "stale" it is good for none.     *)
(***************************************************************************)
EXTENDS LockFile

CONSTANTS Configs,
          Config      \* the configuration of a process

ASSUME ConfigAssumption ==
    /\ Config \in [Procs -> Configs]
    /\ Configs \cap {NoFile, "stale"} = {}

VARIABLE result       \* what compileAndLoadModule has come to

vars == <<lockVars, result>>

Init ==
    /\ alive = Procs
    /\ lock = NoProc /\ unique = {}
    /\ file \in {NoFile, "stale"}
    /\ pc = [p \in Procs |-> "idle"]
    /\ owner = [p \in Procs |-> NoProc]
    /\ polls = [p \in Procs |-> 0]
    /\ result = [p \in Procs |-> "none"]

Report(p, r) == result' = [result EXCEPT ![p] = r]

\* The end of a lock that is not owned.
Return(p) == Goto(p, "done") /\ owner' = [owner EXCEPT ![p] = NoProc]

\* The process comes to the import.
Start(p) ==
    /\ At(p, "idle")
    /\ construct(p)
    /\ UNCHANGED <<alive, lock, unique, file, result>>

\* LFS_Error: the lock failed.
LockFails(p) ==
    /\ At(p, "error")
    /\ Report(p, "lock_failure")
    /\ Goto(p, "done")
    /\ UNCHANGED <<alive, lock, unique, file, owner, polls>>

\* LFS_Owned: the module file is replaced as a whole when it has been compiled.
Compile(p) ==
    /\ At(p, "owned")
    /\ file' = Config[p]
    /\ Goto(p, "load")
    /\ UNCHANGED <<alive, lock, unique, owner, polls, result>>

\* Mutant: a failed compilation returns without the destructor.
CompileFailsLocked(p) ==
    /\ At(p, "owned")
    /\ Report(p, "not_built")
    /\ Goto(p, "done")
    /\ UNCHANGED <<alive, lock, unique, file, owner, polls>>

CompileFails(p) ==
    /\ At(p, "owned")
    /\ Report(p, "not_built")
    /\ Goto(p, "release")
    /\ UNCHANGED <<alive, lock, unique, file, owner, polls>>

\* LFS_Shared: it is someone else's to build.
WaitForUnlock(p) ==
    /\ At(p, "shared")
    /\ Goto(p, "wait")
    /\ UNCHANGED <<alive, lock, unique, file, owner, polls, result>>

Unlocked(p) ==
    /\ At(p, "unlocked")
    /\ Goto(p, "load")
    /\ UNCHANGED <<alive, lock, unique, file, owner, polls, result>>

\* "try again to get the lock".
OwnerDied(p) ==
    /\ At(p, "owner_died")
    /\ construct(p)
    /\ UNCHANGED <<alive, lock, unique, file, result>>

\* Mutant: the lock is left behind.
GiveUpOnly(p) ==
    /\ At(p, "timeout")
    /\ Report(p, "lock_timeout")
    /\ Return(p)
    /\ UNCHANGED <<alive, lock, unique, file, polls>>

\* "Clear the lock file so that future invokations can make progress."
Timeout(p) ==
    /\ At(p, "timeout")
    /\ lock' = NoProc
    /\ Report(p, "lock_timeout")
    /\ Return(p)
    /\ UNCHANGED <<alive, unique, file, polls>>

\* The state of the lock after the constructor has come to an end.
Shared(p) == owner[p] # NoProc

\* A module that is out of date after another process has built it: try again.
LoadAgain(p) ==
    /\ At(p, "load")
    /\ Shared(p) /\ file \notin {NoFile, Config[p]}
    /\ construct(p)
    /\ UNCHANGED <<alive, lock, unique, file, result>>

\* ReadAST, and the return.
Load(p) ==
    /\ At(p, "load")
    /\ Shared(p) => file \in {NoFile, Config[p]}
    /\ Report(p, IF file = Config[p] THEN "loaded" ELSE "not_built")
    /\ IF Shared(p) THEN Return(p) ELSE Goto(p, "release") /\ UNCHANGED owner
    /\ UNCHANGED <<alive, lock, unique, file, polls>>

\* The steps that a process takes in the end if it does not end itself; how
\* long a compilation takes is left open.
Proceed(p) ==
    \/ Manage(p) /\ UNCHANGED result
    \/ LockFails(p)
    \/ WaitForUnlock(p) \/ Unlocked(p) \/ OwnerDied(p) \/ Timeout(p)
    \/ LoadAgain(p) \/ Load(p)

Step(p) == \/ Start(p) \/ Proceed(p)
           \/ Compile(p) \/ CompileFails(p)
           \/ Exit(p) /\ UNCHANGED result

Done == alive = {} /\ UNCHANGED vars

Next == (\E p \in Procs : Step(p)) \/ Done

Spec == Init /\ [][Next]_vars

FairSpec == Spec /\ \A p \in Procs : WF_vars(Proceed(p))
-----------------------------------------------------------------------------
Places == {"idle", "read", "check", "clear", "create", "link", "exists", "unowned",
           "owned", "shared", "error", "wait", "gone", "probe", "unlocked", "owner_died",
           "timeout", "load", "release", "unlink", "done"}

\* getState is LFS_Owned, and the destructor has not begun.
Owns(p) == pc[p] \in {"owned", "load", "release"} /\ owner[p] = NoProc

\* The processes are where the code can be, and the files what it writes.
TypeOK ==
    /\ alive \subseteq Procs
    /\ lock \in Procs \cup {NoProc}
    /\ unique \subseteq Procs
    /\ file \in {NoFile, "stale"} \cup Configs
    /\ pc \in [Procs -> Places]
    /\ owner \in [Procs -> Procs \cup {NoProc}]
    /\ polls \in [Procs -> 0..(MaxPolls - 1)]
    /\ result \in [Procs -> {"none", "lock_failure", "not_built", "lock_timeout", "loaded"}]

\* A lock file that names a process which runs names one that still owns it:
\* nobody waits for a process that has gone on ("the file should be gone",
\* unittests/Support/LockFileManagerTest.cpp:42), however locks were taken away
\* and given anew in between.
LockIsHeld == lock # NoProc /\ lock \in alive => Owns(lock)

\* The lock file never points to a unique file that is gone: for those that
\* wait it would not be there, while nobody could create it.
NoDanglingLock == lock # NoProc => lock \in unique

\* A process that has come to an end has left no unique file, except when the
\* lock failed.
NoUniqueLeft ==
    \A p \in alive : p \in unique =>
        pc[p] \in {"read", "check", "clear", "exists", "unowned", "link", "error"}
                  \cup {"owned", "load", "release", "unlink"}
        \/ result[p] = "lock_failure"

\* Only a process that had the lock reports that the module was not built: one
\* that has waited for another's failed compilation tries itself.
OnlyOwnersReport ==
    [][\A p \in Procs : result'[p] = "not_built" /\ result[p] # "not_built" => Owns(p)]_vars

\* No process waits forever, whatever the others do: run into a compilation
\* that never ends, end without a word, or remove each other's locks.
NobodyWaitsForever ==
    \A p \in Procs : pc[p] = "read" ~> (pc[p] \in {"owned", "done"} \/ p \notin alive)

StaleLock == lock \in Procs \ alive

\* The lock of a process that has ended is gone some time after another one
\* has come for it, even if it is from a host that cannot be asked.
StaleLocksGo ==
    \A p \in Procs : StaleLock /\ pc[p] = "read" ~> (~StaleLock \/ p \notin alive)

-----------------------------------------------------------------------------
\* "using the atomicity of the file system to ensure that only a single process
\* can create that ".lock" file" (LockFileManager.h:24): no two processes that
\* run own the lock at a time.
OneOwner == \A p, q \in alive : Owns(p) /\ Owns(q) => p = q
=============================================================================
