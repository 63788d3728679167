------------------------- MODULE ProcessLockProofs -------------------------
(***************************************************************************)
(* What the client's process lock guarantees for any number of processes   *)
(* that start, exit and crash.                                             *)
(***************************************************************************)
EXTENDS ProcessLock, TLAPS

USE NoneAssumption

\* Nobody has opened the file yet.
LEMMA LockInitInv == LockInit => LockInv
  BY DEF LockInit, LockInv, LockTypeOK, Stage

\* Every step keeps the invariant.
LEMMA LockNextInv == LockInv /\ [LockNext]_lockVars => LockInv'
  <1> SUFFICES ASSUME LockInv, [LockNext]_lockVars PROVE LockInv'
    OBVIOUS
  <1> USE DEF LockInv, LockTypeOK, Stage
  <1>1. CASE UNCHANGED lockVars
    BY <1>1 DEF lockVars
  <1>2. ASSUME NEW p \in Process, OpenFile(p) PROVE LockInv'
    BY <1>2 DEF OpenFile, FileOpened
  <1>3. ASSUME NEW p \in Process, Lock(p) PROVE LockInv'
    BY <1>3 DEF Lock, CanLock
  <1>4. ASSUME NEW p \in Process, Refuse(p) PROVE LockInv'
    BY <1>4 DEF Refuse
  <1>5. ASSUME NEW p \in Process, Unlock(p) PROVE LockInv'
    BY <1>5 DEF Unlock
  <1>6. ASSUME NEW p \in Process, Remove(p) PROVE LockInv'
    BY <1>6 DEF Remove
  <1>7. ASSUME NEW p \in Process, Crash(p) PROVE LockInv'
    BY <1>7 DEF Crash
  <1> QED
    BY <1>1, <1>2, <1>3, <1>4, <1>5, <1>6, <1>7 DEF LockNext, LockStep

\* The inductive invariant of the process lock holds in every state.
THEOREM LockInvariance == LockSpec => []LockInv
  BY LockInitInv, LockNextInv, PTL DEF LockSpec

\* Until some process has removed the path, at most one client runs with the
\* lock, however many start and crash: all of them have the same file open.
THEOREM CrashesKeepExclusion == LockSpec => []ExclusiveBeforeRemove
  <1>1. LockInv => ExclusiveBeforeRemove
    BY DEF LockInv, LockTypeOK, ExclusiveBeforeRemove, SingleHolder
  <1> QED
    BY <1>1, LockInvariance, PTL

\* A client that AcquireProcessLock turns away is turned away by a running
\* one: a lock never outlives its holder.
THEOREM RefusalsJustified == LockSpec => RefusedOnlyByHolder
  <1>1. LockInv /\ [LockNext]_lockVars =>
          [\A p \in Process :
              pc[p] # "refused" /\ pc'[p] = "refused"
              => \E q \in Process : pc[q] = "holding"]_lockVars
    <2> SUFFICES ASSUME LockInv, LockNext, NEW p \in Process,
                        pc[p] # "refused", pc'[p] = "refused"
                 PROVE  \E q \in Process : pc[q] = "holding"
      OBVIOUS
    <2>1. Refuse(p)
      BY DEF LockNext, LockStep, OpenFile, Lock, Unlock, Remove, Crash, Refuse,
             LockInv, LockTypeOK
    <2>2. fd[p] \in Process /\ holder[fd[p]] # NoProcess
      BY <2>1 DEF Refuse, CanLock, LockInv
    <2> QED
      BY <2>2 DEF LockInv, LockTypeOK
  <1> QED
    BY <1>1, LockInvariance, PTL DEF LockSpec, RefusedOnlyByHolder
=============================================================================
