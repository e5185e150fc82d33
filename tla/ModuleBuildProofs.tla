-------------------------- MODULE ModuleBuildProofs --------------------------
(***************************************************************************)
(* The invariants of ModuleBuild for any number of processes on any hosts. *)
(***************************************************************************)
EXTENDS ModuleBuild, TLAPS

\* Where a process knows no owner, where it knows one, and where it has its
\* unique file.
NoOwnerAt == {"idle", "read", "clear", "create", "exists", "unowned", "link", "error",
              "owned", "release", "unlink", "done"}
WaitsAt == {"check", "shared", "wait", "gone", "probe", "unlocked", "timeout"}
UniqueAt == {"exists", "unowned", "link", "owned", "release"}

\* What a process holds follows from where it is: the owner that it waits for,
\* its unique file, which a process that waits has not, its result, and that
\* there is a module file to load.
Local(p) ==
    /\ pc[p] \in NoOwnerAt => owner[p] = NoProc
    /\ pc[p] \in WaitsAt => owner[p] # NoProc
    /\ pc[p] \in UniqueAt => p \in unique
    /\ pc[p] = "load" => (p \in unique <=> owner[p] = NoProc)
    /\ pc[p] \in {"unlocked", "load"} => file # NoFile
    /\ result[p] = "lock_failure" => pc[p] = "done"

IInv == TypeOK /\ LockIsHeld /\ NoDanglingLock /\ NoUniqueLeft /\ \A p \in alive : Local(p)

LEMMA InitHolds == Init => IInv
BY ProcsAssumption DEF Init, IInv, TypeOK, LockIsHeld, NoDanglingLock, NoUniqueLeft, Local,
   Places, NoOwnerAt, WaitsAt, UniqueAt, NoFile

LEMMA StepKeeps == ASSUME IInv, NEW p \in Procs, Step(p) PROVE IInv'
<1> USE ProcsAssumption, ConfigAssumption
    DEF IInv, TypeOK, LockIsHeld, NoDanglingLock, NoUniqueLeft, Local, Owns, At, Goto,
        Report, construct, Return, Places, NoOwnerAt, WaitsAt, UniqueAt
<1>1. CASE Start(p) BY <1>1 DEF Start
<1>2. CASE Compile(p) BY <1>2 DEF Compile
<1>3. CASE CompileFails(p) BY <1>3 DEF CompileFails
<1>4. CASE Exit(p) /\ UNCHANGED result BY <1>4 DEF Exit
<1>5. CASE Manage(p) /\ UNCHANGED result
    <2>1. CASE ReadLockFile(p) BY <1>5, <2>1 DEF ReadLockFile, Visible
    <2>2. CASE OwnerRuns(p) BY <1>5, <2>2 DEF OwnerRuns
    <2>3. CASE OwnerIsDead(p) BY <1>5, <2>3 DEF OwnerIsDead
    <2>4. CASE ClearLockFile(p) BY <1>5, <2>4 DEF ClearLockFile
    <2>5. CASE CreateUniqueFile(p) BY <1>5, <2>5 DEF CreateUniqueFile
    <2>6. CASE CreateFails(p) BY <1>5, <2>6 DEF CreateFails
    <2>7. CASE CreateLink(p) BY <1>5, <2>7 DEF CreateLink
    <2>8. CASE LinkExists(p) BY <1>5, <2>8 DEF LinkExists
    <2>9. CASE LinkFails(p) BY <1>5, <2>9 DEF LinkFails
    <2>10. CASE StillExists(p) BY <1>5, <2>10 DEF StillExists, Visible
    <2>11. CASE RemoveUnowned(p) BY <1>5, <2>11 DEF RemoveUnowned
    <2>12. CASE RemoveFails(p) BY <1>5, <2>12 DEF RemoveFails
    <2>13. CASE Poll(p) BY <1>5, <2>13 DEF Poll
    <2>14. CASE LockIsGone(p) BY <1>5, <2>14 DEF LockIsGone
    <2>15. CASE ProbeOwner(p) BY <1>5, <2>15 DEF ProbeOwner
    <2>16. CASE Release(p) BY <1>5, <2>16 DEF Release
    <2>17. CASE Unlink(p) BY <1>5, <2>17 DEF Unlink
    <2>18. QED
        BY <1>5, <2>1, <2>2, <2>3, <2>4, <2>5, <2>6, <2>7, <2>8, <2>9, <2>10, <2>11,
           <2>12, <2>13, <2>14, <2>15, <2>16, <2>17 DEF Manage
<1>6. CASE LockFails(p) BY <1>6 DEF LockFails
<1>7. CASE WaitForUnlock(p) BY <1>7 DEF WaitForUnlock
<1>8. CASE Unlocked(p) BY <1>8 DEF Unlocked
<1>9. CASE OwnerDied(p) BY <1>9 DEF OwnerDied
<1>10. CASE Timeout(p) BY <1>10 DEF Timeout
<1>11. CASE LoadAgain(p) BY <1>11 DEF LoadAgain, Shared
<1>12. CASE Load(p) BY <1>12 DEF Load, Shared
<1>13. QED
    BY <1>1, <1>2, <1>3, <1>4, <1>5, <1>6, <1>7, <1>8, <1>9, <1>10, <1>11, <1>12
       DEF Step, Proceed

LEMMA NextKeeps == IInv /\ [Next]_vars => IInv'
<1>1. ASSUME IInv, UNCHANGED vars PROVE IInv'
    BY <1>1 DEF IInv, TypeOK, LockIsHeld, NoDanglingLock, NoUniqueLeft, Local, Owns, vars, lockVars
<1>2. QED
    BY <1>1, StepKeeps DEF Next, Done

\* What a process holds, and what the files are, follows from where the
\* processes are: in every order of their system calls and of their ends.
THEOREM LockInvariant == Spec => []IInv
BY InitHolds, NextKeeps, PTL DEF Spec

\* The state of LockFileManager and of compileAndLoadModule keeps its types.
THEOREM LockTypes == Spec => []TypeOK
<1>1. IInv => TypeOK
    BY DEF IInv
<1>2. QED
    BY <1>1, LockInvariant, PTL

\* A lock file that names a running process names an owner: for any number of
\* processes, though locks are taken away from their owners.
THEOREM LocksAreHeld == Spec => []LockIsHeld
<1>1. IInv => LockIsHeld
    BY DEF IInv
<1>2. QED
    BY <1>1, LockInvariant, PTL

\* The lock file always points to a unique file that is there.
THEOREM LocksNeverDangle == Spec => []NoDanglingLock
<1>1. IInv => NoDanglingLock
    BY DEF IInv
<1>2. QED
    BY <1>1, LockInvariant, PTL

\* Unique files are only left by locks that failed, and by processes that ended.
THEOREM UniqueFilesGo == Spec => []NoUniqueLeft
<1>1. IInv => NoUniqueLeft
    BY DEF IInv
<1>2. QED
    BY <1>1, LockInvariant, PTL

\* No process that has waited for another's build reports that it has failed.
THEOREM WaitersNeverReport == Spec => OnlyOwnersReport
<1>1. ASSUME IInv, [Next]_vars
      PROVE \A p \in Procs : result'[p] = "not_built" /\ result[p] # "not_built" => Owns(p)
    <2>1. CASE UNCHANGED vars
        BY <2>1 DEF vars
    <2>2. ASSUME NEW q \in Procs, Step(q)
          PROVE \A p \in Procs : result'[p] = "not_built" /\ result[p] # "not_built" => Owns(p)
        <3> USE <1>1, ProcsAssumption, ConfigAssumption
            DEF IInv, TypeOK, Local, Owns, At, Report, NoOwnerAt
        <3>1. CASE UNCHANGED result
            BY <3>1
        <3>2. CASE LockFails(q)
            BY <3>2 DEF LockFails
        <3>3. CASE CompileFails(q)
            BY <3>3 DEF CompileFails
        <3>4. CASE Timeout(q)
            BY <3>4 DEF Timeout
        <3>5. CASE Load(q)
            BY <3>5 DEF Load, Shared
        <3>6. QED
            BY <2>2, <3>1, <3>2, <3>3, <3>4, <3>5
               DEF Step, Proceed, Start, Compile, WaitForUnlock, Unlocked, OwnerDied, LoadAgain
    <2>3. QED
        BY <1>1, <2>1, <2>2 DEF Next, Done
<1>2. QED
    BY <1>1, LockInvariant, PTL DEF Spec, OnlyOwnersReport
=============================================================================
