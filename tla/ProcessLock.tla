---------------------------- MODULE ProcessLock ----------------------------
(***************************************************************************)
(* AcquireProcessLock and the release function it returns                  *)
(* (internal/client/preflight.go): one lock file, locked with flock.       *)
(*                                                                         *)
(* The lock belongs to a file, not to its name: a file is named here by    *)
(* the process that created it, which every process does at most once.     *)
(* A process started with -allow-duplicate takes no part.  The PID written *)
(* into the file is only read for messages and is left out.                *)
(***************************************************************************)
CONSTANTS
    Process,    \* client processes, each running once
    NoFile,     \* the path names no file, or the process has none open
    NoProcess   \* nobody holds the lock

ASSUME NoneAssumption == NoFile \notin Process /\ NoProcess \notin Process

VARIABLES
    name,       \* the file that the lock path names
    holder,     \* holder[f]: the process that has file f locked
    fd,         \* fd[p]: the file that process p opened
    pc          \* pc[p]: where process p is in its life

lockVars == <<name, holder, fd, pc>>

\* refused: flock failed.  unlocked: release has yet to remove the path.
\* exited: release has removed it.  crashed: killed without release.
Stage == {"start", "opened", "refused", "holding", "unlocked", "exited", "crashed"}

LockTypeOK ==
    /\ name \in Process \union {NoFile}
    /\ holder \in [Process -> Process \union {NoProcess}]
    /\ fd \in [Process -> Process \union {NoFile}]
    /\ pc \in [Process -> Stage]

-----------------------------------------------------------------------------
\* Variant: without O_CREATE.
FileOpenedNoCreate(p) == name

\* The file that os.OpenFile(path, O_CREATE) gives process p.
FileOpened(p) == IF name = NoFile THEN p ELSE name

\* The path is opened, and the file created if there is none.
OpenFile(p) ==
    /\ pc[p] = "start"
    /\ pc' = [pc EXCEPT ![p] = "opened"]
    /\ fd' = [fd EXCEPT ![p] = FileOpened(p)]
    /\ name' = FileOpened(p)
    /\ UNCHANGED holder

\* Variants: a shared lock; a lock that consists in having created the file.
CanLockShared(p)  == TRUE
CanLockCreator(p) == fd[p] = p

\* LOCK_EX with LOCK_NB succeeds if no other open file has the lock.
CanLock(p) == holder[fd[p]] = NoProcess

\* Flock succeeds; the PID is written and the client runs.
Lock(p) ==
    /\ pc[p] = "opened"
    /\ CanLock(p)
    /\ pc' = [pc EXCEPT ![p] = "holding"]
    /\ holder' = [holder EXCEPT ![fd[p]] = p]
    /\ UNCHANGED <<name, fd>>

\* Flock fails with EWOULDBLOCK: the file is closed and main panics.
Refuse(p) ==
    /\ pc[p] = "opened"
    /\ ~CanLock(p)
    /\ pc' = [pc EXCEPT ![p] = "refused"]
    /\ UNCHANGED <<name, holder, fd>>

\* release: LOCK_UN, then Close, which changes nothing more.
Unlock(p) ==
    /\ pc[p] = "holding"
    /\ pc' = [pc EXCEPT ![p] = "unlocked"]
    /\ holder' = [holder EXCEPT ![fd[p]] = NoProcess]
    /\ UNCHANGED <<name, fd>>

\* release: os.Remove(path), whatever file has that name by now.
Remove(p) ==
    /\ pc[p] = "unlocked"
    /\ pc' = [pc EXCEPT ![p] = "exited"]
    /\ name' = NoFile
    /\ UNCHANGED <<holder, fd>>

\* The process is killed: the kernel drops its lock, the path stays.
Crash(p) ==
    /\ pc[p] \in {"opened", "holding", "unlocked"}
    /\ pc' = [pc EXCEPT ![p] = "crashed"]
    /\ holder' = IF pc[p] = "holding" THEN [holder EXCEPT ![fd[p]] = NoProcess]
                 ELSE holder
    /\ UNCHANGED <<name, fd>>

-----------------------------------------------------------------------------
LockInit ==
    /\ name = NoFile
    /\ holder = [f \in Process |-> NoProcess]
    /\ fd = [p \in Process |-> NoFile]
    /\ pc = [p \in Process |-> "start"]

LockStep(p) ==
    \/ OpenFile(p)
    \/ Lock(p)
    \/ Refuse(p)
    \/ Unlock(p)
    \/ Remove(p)
    \/ Crash(p)

LockNext == \E p \in Process : LockStep(p)
LockSpec == LockInit /\ [][LockNext]_lockVars

-----------------------------------------------------------------------------
(* Properties.                                                             *)

\* The comment on AcquireProcessLock: only one client holds the lock.
SingleHolder ==
    \A p, q \in Process : pc[p] = "holding" /\ pc[q] = "holding" => p = q

\* Crashes alone never let two clients in: as long as no process has gone
\* through release's os.Remove, the lock is exclusive.
ExclusiveBeforeRemove == (\A p \in Process : pc[p] # "exited") => SingleHolder

\* A client is refused only while another one runs: neither the file that a
\* killed client leaves behind nor one that is exiting keeps the next out.
RefusedOnlyByHolder ==
    [][\A p \in Process :
          pc[p] # "refused" /\ pc'[p] = "refused"
          => \E q \in Process : pc[q] = "holding"]_lockVars

\* The inductive invariant: a lock is held by a process that runs and has
\* that file open, and until a Remove all open files are the named one.
LockInv ==
    /\ LockTypeOK
    /\ \A p \in Process : fd[p] \in Process <=> pc[p] # "start"
    /\ \A p \in Process : pc[p] = "holding" => holder[fd[p]] = p
    /\ \A f \in Process : holder[f] # NoProcess
                          => pc[holder[f]] = "holding" /\ fd[holder[f]] = f
    /\ (\A p \in Process : pc[p] # "exited")
       => \A p \in Process : fd[p] # NoFile => fd[p] = name
=============================================================================
