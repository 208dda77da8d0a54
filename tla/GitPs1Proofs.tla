---------------------------- MODULE GitPs1Proofs ----------------------------
(***************************************************************************)
(* Theorems about GitPs1 for every set of runs, both IPC builds and every  *)
(* pattern of signals, kills and cleans. First the types; then the lock: a *)
(* repository stays locked only while a run has the permit or after a run  *)
(* lost it, and gains few permits; then a bound on the steps of a prompt.  *)
(***************************************************************************)
EXTENDS GitPs1, FiniteSetTheorems, TLAPS

\* How runs, roles and processes are related.
LEMMA ProcFacts ==
  /\ \A r \in Runs : /\ Parent(r) \in Procs /\ RunOf(Parent(r)) = r /\ Parent(r)[2] = "parent"
                     /\ Child(r) \in Procs /\ RunOf(Child(r)) = r /\ Child(r)[2] = "child"
  /\ \A r, s \in Runs : /\ Parent(r) # Child(s)
                        /\ Parent(r) = Parent(s) => r = s
                        /\ Child(r) = Child(s) => r = s
  /\ \A p \in Procs : RunOf(p) \in Runs /\ (p = Parent(RunOf(p)) \/ p = Child(RunOf(p)))
BY DEF Parent, Child, RunOf, Procs, Roles

-----------------------------------------------------------------------------
(* Type correctness.  It needs to know that a process which accesses a     *)
(* segment has one, and that a child which stores a status has computed it.*)

DataInv ==
  /\ \A r \in Runs : pc[Parent(r)] \in Guarded \/ pc[Child(r)] # "none" => shm[r] \in Runs
  /\ \A p \in Procs : pc[p] = "copy" => addr[p] # None
  /\ \A r \in Runs : pc[Child(r)] \in {"attach", "copy"} => buf[Child(r)] \in Statuses

TypeInv == TypeOK /\ DataInv

LEMMA TypeInit == Init => TypeInv
<1> SUFFICES ASSUME Init PROVE TypeInv
  OBVIOUS
<1>1. TypeOK
  BY ProcFacts, IpcAssumption, GitPs1Assumption
     DEF Init, IpcInit, TypeOK, IpcTypeOK, PcTypeOK, ParentLabels, ChildLabels
<1>2. DataInv
  BY ProcFacts, IpcAssumption DEF Init, IpcInit, DataInv, Guarded
<1> QED BY <1>1, <1>2 DEF TypeInv

\* What a move of one process does to the program counters.
LEMMA MoveParent ==
  ASSUME PcTypeOK, NEW r \in Runs, NEW l \in ParentLabels, Goto(Parent(r), l)
  PROVE  /\ PcTypeOK'
         /\ pc'[Parent(r)] = l
         /\ \A p \in Procs \ {Parent(r)} : pc'[p] = pc[p]
BY ProcFacts DEF PcTypeOK, Goto

LEMMA MoveChild ==
  ASSUME PcTypeOK, NEW r \in Runs, NEW l \in ChildLabels, Goto(Child(r), l)
  PROVE  /\ PcTypeOK'
         /\ pc'[Child(r)] = l
         /\ \A p \in Procs \ {Child(r)} : pc'[p] = pc[p]
BY ProcFacts DEF PcTypeOK, Goto

\* A step of a parent that moves it and leaves alone what DataInv speaks of.
LEMMA DataMoveParent ==
  ASSUME TypeInv, NEW r \in Runs, NEW l \in ParentLabels \ {"copy"}, Goto(Parent(r), l),
         UNCHANGED <<addr, shm, buf>>, l \in Guarded => shm[r] \in Runs
  PROVE  DataInv'
<1>1. PcTypeOK
  BY DEF TypeInv, TypeOK
<1>2. /\ pc'[Parent(r)] = l
      /\ \A p \in Procs \ {Parent(r)} : pc'[p] = pc[p]
  BY <1>1, MoveParent
<1>3. QED BY <1>2, ProcFacts DEF TypeInv, DataInv

\* The same for a child.
LEMMA DataMoveChild ==
  ASSUME TypeInv, NEW r \in Runs, NEW l \in ChildLabels \ {"copy", "attach"},
         Goto(Child(r), l), pc[Child(r)] # "none", UNCHANGED <<addr, shm, buf>>
  PROVE  DataInv'
<1>1. PcTypeOK
  BY DEF TypeInv, TypeOK
<1>2. /\ pc'[Child(r)] = l
      /\ \A p \in Procs \ {Child(r)} : pc'[p] = pc[p]
  BY <1>1, MoveChild
<1>3. QED BY <1>2, ProcFacts DEF TypeInv, DataInv

\* A step that only moves a parent.
LEMMA TypeMove ==
  ASSUME TypeInv, NEW r \in Runs, NEW l \in ParentLabels \ {"copy"}, Goto(Parent(r), l),
         UNCHANGED <<ipcVars, mode, sem, shm, flag, target, polls, buf, won, posted, fresh, faults>>,
         l \in Guarded => shm[r] \in Runs
  PROVE  TypeInv'
<1>1. PcTypeOK'
  BY MoveParent DEF TypeInv, TypeOK
<1>2. DataInv'
  BY DataMoveParent DEF ipcVars
<1> QED BY <1>1, <1>2 DEF TypeInv, TypeOK, IpcTypeOK, ipcVars

\* The types of the semaphore variables under the fragments of Ipc.
LEMMA SemTypes ==
  ASSUME IpcTypeOK, NEW r \in Runs, NEW s \in Runs \cup {None}, UNCHANGED shmVars,
         \/ NewSemaphore(r, 0) /\ UNCHANGED inited
         \/ OpenSemaphore(r)
         \/ SetSemaphore(r)
         \/ deleteSemaphore
         \/ DecrementSemaphore(s)
         \/ postSemaphore(s)
         \/ UNCHANGED semVars
  PROVE  IpcTypeOK'
BY IpcAssumption, SMTT(60) DEF IpcTypeOK, NewSemaphore, OpenSemaphore, SetSemaphore, deleteSemaphore,
   DecrementSemaphore, CanDecrement, postSemaphore, semVars, shmVars

LEMMA PostTypes ==
  ASSUME IpcTypeOK, NEW p \in Procs, NEW s \in Runs \cup {None}, dettachSharedMemory(p),
         UNCHANGED semVars \/ postSemaphore(s)
  PROVE  IpcTypeOK'
BY IpcAssumption DEF IpcTypeOK, dettachSharedMemory, postSemaphore, semVars

\* The same as MoveParent and MoveChild, for a label that both may have.
LEMMA MoveProc ==
  ASSUME PcTypeOK, NEW p \in Procs, NEW l \in ParentLabels \cap ChildLabels, Goto(p, l)
  PROVE  /\ PcTypeOK'
         /\ pc'[p] = l
         /\ \A q \in Procs \ {p} : pc'[q] = pc[q]
BY ProcFacts DEF PcTypeOK, Goto

LEMMA TypeProcStep ==
  ASSUME TypeInv, NEW p \in Procs, ProcStep(p)
  PROVE  TypeInv'
<1> USE DEF TypeInv
<1>a. PcTypeOK /\ IpcTypeOK /\ DataInv
  BY DEF TypeOK
<1>b. AfterAccess(p) \in {"release", "done"}
  BY DEF AfterAccess
<1>c. pc[p] \in {"attach", "copy", "detach", "release", "clearflag"} => shm[RunOf(p)] \in Runs
  BY <1>a, ProcFacts DEF DataInv, Guarded
<1>1. CASE Attach(p)
  <2>1. /\ PcTypeOK'
        /\ pc'[p] = "copy"
        /\ \A q \in Procs \ {p} : pc'[q] = pc[q]
    BY <1>1, <1>a, MoveProc DEF Attach, ParentLabels, ChildLabels, Guarded
  <2>2. /\ addr' \in [Procs -> Runs \cup {BadAddr, None}]
        /\ addr'[p] # None
        /\ \A q \in Procs \ {p} : addr'[q] = addr[q]
    BY <1>1, <1>a, <1>c, IpcAssumption DEF Attach, attachSharedMemory, IpcTypeOK
  <2>3. DataInv'
    BY <1>1, <1>a, <1>c, <2>1, <2>2, ProcFacts DEF Attach, DataInv
  <2> QED BY <1>1, <2>1, <2>2, <2>3 DEF Attach, attachSharedMemory, TypeOK, IpcTypeOK, semVars
<1>2. CASE CopyFaults(p) \/ Detach(p)
  <2>1. /\ PcTypeOK'
        /\ pc'[p] \in {"crashed", "release", "done"}
        /\ \A q \in Procs \ {p} : pc'[q] = pc[q]
    BY <1>2, <1>a, <1>b, MoveProc DEF CopyFaults, Detach, ParentLabels, ChildLabels, Guarded, Ended
  <2>2. IpcTypeOK' /\ \A q \in Procs \ {p} : addr'[q] = addr[q]
    BY <1>2, <1>a DEF CopyFaults, Detach, dettachSharedMemory, IpcTypeOK, semVars
  <2>3. DataInv'
    BY <1>2, <1>a, <1>c, <2>1, <2>2, ProcFacts DEF CopyFaults, Detach, DataInv
  <2> QED BY <1>2, <2>1, <2>2, <2>3 DEF CopyFaults, Detach, TypeOK
<1>3. CASE Release(p) \/ ClearFlag(p)
  <2>1. /\ PcTypeOK'
        /\ pc'[p] \in {"clearflag", "done"}
        /\ \A q \in Procs \ {p} : pc'[q] = pc[q]
    BY <1>3, <1>a, MoveProc DEF Release, ClearFlag, ParentLabels, ChildLabels, Guarded, Ended
  <2>2. DataInv'
    BY <1>3, <1>a, <1>c, <2>1, ProcFacts DEF Release, ClearFlag, shmVars, ipcVars, DataInv
  <2>3. IpcTypeOK' /\ posted' \subseteq Runs
    <3>1. UNCHANGED shmVars
      BY <1>3 DEF Release, ClearFlag, ipcVars, shmVars
    <3>2. \/ semVars' = semVars /\ posted' = posted
          \/ postSemaphore(sem[RunOf(p)]) /\ posted' = posted \cup {RunOf(p)}
      BY <1>3 DEF Release, ClearFlag, releaseResource, ipcVars, semVars
    <3> QED BY <1>a, <3>1, <3>2, SemTypes, ProcFacts DEF TypeOK
  <2> QED BY <1>3, <2>1, <2>2, <2>3 DEF Release, ClearFlag, TypeOK
<1> QED BY <1>1, <1>2, <1>3 DEF ProcStep

LEMMA TypeParentStep ==
  ASSUME TypeInv, NEW r \in Runs, ParentStep(r)
  PROVE  TypeInv'
<1> USE DEF TypeInv
<1>a. PcTypeOK /\ IpcTypeOK /\ DataInv
  BY DEF TypeOK
<1>b. pc[Parent(r)] \in Guarded => shm[r] \in Runs
  BY <1>a DEF DataInv
<1>1. CASE Start(r)
  <2>1. FirstLabel(mode[r]) \in ParentLabels \ Guarded /\ FirstLabel(mode[r]) # "copy"
    BY DEF FirstLabel, ParentLabels, Guarded
  <2> QED BY <2>1, <1>1, TypeMove DEF Start
<1>2. CASE NotARepository(r) \/ SemExists(r) \/ SemSetFails(r) \/ IpcError(r)
  BY <1>2, TypeMove DEF NotARepository, SemExists, SemSetFails, IpcError, ParentLabels, Guarded, Ended
<1>3. CASE ForkFails(r) \/ PollExited(r) \/ PollKilled(r) \/ PollFails(r) \/ PollTimeout(r) \/ NoName(r)
  <2>1. AfterAccess(Parent(r)) \in {"release", "done"}
    BY DEF AfterAccess
  <2> QED BY <2>1, <1>3, <1>b, TypeMove
        DEF ForkFails, PollExited, PollKilled, PollFails, PollTimeout, NoName, ParentLabels, Guarded, Ended
<1>4. CASE NoCache(r)
  <2>1. PcTypeOK'
    BY <1>4, <1>a, MoveParent DEF NoCache, ParentLabels, Ended
  <2>2. DataInv'
    <3>1. /\ pc'[Parent(r)] = "done"
          /\ \A p \in Procs \ {Parent(r)} : pc'[p] = pc[p]
      BY <1>4, <1>a, MoveParent DEF NoCache, ParentLabels, Ended
    <3>2. \A q \in Runs : buf'[Child(q)] = buf[Child(q)]
      BY <1>4, ProcFacts DEF NoCache, TypeOK
    <3> QED BY <1>4, <1>a, <3>1, <3>2, ProcFacts DEF NoCache, DataInv, Guarded, ipcVars
  <2> QED BY <1>4, <2>1, <2>2, ProcFacts DEF NoCache, TypeOK, IpcTypeOK, ipcVars
<1>5. CASE CleanShm(r)
  <2>1. PcTypeOK'
    BY <1>5, <1>a, MoveParent DEF CleanShm, ParentLabels
  <2>2. DataInv'
    BY <1>5, DataMoveParent DEF CleanShm, deleteSharedMemory, ParentLabels, Guarded
  <2> QED BY <1>5, <2>1, <2>2 DEF CleanShm, deleteSharedMemory, TypeOK, IpcTypeOK, semVars
<1>6. CASE CleanSem(r) \/ SemCreate(r)
  <2>1. PcTypeOK'
    BY <1>6, <1>a, MoveParent DEF CleanSem, SemCreate, ParentLabels, Ended
  <2>2. DataInv'
    BY <1>6, DataMoveParent DEF CleanSem, SemCreate, shmVars, ParentLabels, Guarded, Ended
  <2>3. IpcTypeOK'
    BY <1>6, <1>a, SemTypes DEF CleanSem, SemCreate
  <2> QED BY <1>6, <2>1, <2>2, <2>3 DEF CleanSem, SemCreate, TypeOK
<1>7. CASE SemSet(r) \/ SemGet(r)
  <2>1. PcTypeOK'
    BY <1>7, <1>a, MoveParent DEF SemSet, SemGet, ParentLabels
  <2>2. DataInv'
    BY <1>7, DataMoveParent DEF SemSet, SemGet, shmVars, ParentLabels, Guarded, Ended
  <2>3. IpcTypeOK'
    BY <1>7, <1>a, SemTypes DEF SemSet, SemGet
  <2>4. sem' \in [Runs -> Runs \cup {None}]
    BY <1>7, <2>3 DEF SemSet, SemGet, TypeOK, IpcTypeOK
  <2> QED BY <1>7, <2>1, <2>2, <2>3, <2>4 DEF SemSet, SemGet, TypeOK
<1>8. CASE ShmGet(r)
  <2>1. /\ PcTypeOK'
        /\ pc'[Parent(r)] \in {"attach", "trywait"}
        /\ \A p \in Procs \ {Parent(r)} : pc'[p] = pc[p]
    BY <1>8, <1>a, MoveParent DEF ShmGet, ParentLabels, Guarded
  <2>2. shmKey' \in Runs
    BY <1>8, <1>a, IpcAssumption DEF ShmGet, getOrCreateSharedMemory, IpcTypeOK
  <2>3. shm' = [shm EXCEPT ![r] = shmKey'] /\ shm' \in [Runs -> Runs \cup {None}]
    BY <1>8, <2>2 DEF ShmGet, TypeOK
  <2>4. DataInv'
    <3>1. \A q \in Runs : shm[q] \in Runs => shm'[q] \in Runs
      BY <2>2, <2>3 DEF TypeOK
    <3>2. shm'[r] \in Runs
      BY <2>2, <2>3 DEF TypeOK
    <3>3. UNCHANGED <<addr, buf>>
      BY <1>8 DEF ShmGet, getOrCreateSharedMemory
    <3> QED BY <1>a, <2>1, <3>1, <3>2, <3>3, ProcFacts DEF DataInv
  <2> QED BY <1>8, <2>1, <2>2, <2>3, <2>4 DEF ShmGet, getOrCreateSharedMemory, TypeOK, IpcTypeOK, semVars
<1>9. CASE TryWait(r)
  <2>1. PcTypeOK'
    BY <1>9, <1>a, MoveParent DEF TryWait, ParentLabels, Guarded
  <2>2. DataInv'
    BY <1>9, <1>b, DataMoveParent DEF TryWait, shmVars, ParentLabels, Guarded
  <2>3. IpcTypeOK'
    BY <1>9, <1>a, SemTypes DEF TryWait, TypeOK
  <2> QED BY <1>9, <2>1, <2>2, <2>3 DEF TryWait, TypeOK
<1>10. CASE SetFlag(r)
  <2>1. PcTypeOK'
    BY <1>10, <1>a, MoveParent DEF SetFlag, ParentLabels, Guarded
  <2>2. DataInv'
    BY <1>10, <1>b, DataMoveParent DEF SetFlag, ipcVars, ParentLabels, Guarded
  <2> QED BY <1>10, <2>1, <2>2, ProcFacts DEF SetFlag, TypeOK, IpcTypeOK, ipcVars
<1>11. CASE Fork(r)
  <2>1. /\ PcTypeOK'
        /\ pc'[Parent(r)] = "poll" /\ pc'[Child(r)] = "start"
        /\ \A p \in Procs \ {Parent(r), Child(r)} : pc'[p] = pc[p]
    BY <1>11, <1>a, ProcFacts DEF Fork, PcTypeOK, ParentLabels, ChildLabels, Guarded
  <2>2. DataInv'
    BY <1>11, <1>a, <1>b, <2>1, ProcFacts DEF Fork, DataInv, ipcVars, Guarded
  <2> QED BY <1>11, <2>1, <2>2, ProcFacts DEF Fork, TypeOK, IpcTypeOK, ipcVars
<1>12. CASE PollAlive(r)
  <2>1. polls' \in [Runs -> 0 .. WaitTime]
    BY <1>12, GitPs1Assumption DEF PollAlive, TypeOK
  <2> QED BY <1>12, <1>a, <2>1 DEF PollAlive, TypeOK, IpcTypeOK, PcTypeOK, DataInv, ipcVars
<1>13. CASE CopyOut(r)
  <2>1. /\ PcTypeOK'
        /\ pc'[Parent(r)] = "detach"
        /\ \A p \in Procs \ {Parent(r)} : pc'[p] = pc[p]
    BY <1>13, <1>a, MoveParent DEF CopyOut, ParentLabels, Guarded
  <2>2. shmVal[addr[Parent(r)]] \in Statuses \cup {Blank}
    BY <1>13, <1>a, ProcFacts DEF CopyOut, IpcTypeOK, DataInv
  <2>3. /\ buf' \in [Procs -> Statuses \cup {Blank, None}]
        /\ \A q \in Runs : buf'[Child(q)] = buf[Child(q)]
    BY <1>13, <2>2, ProcFacts DEF CopyOut, TypeOK
  <2>4. DataInv'
    BY <1>13, <1>a, <1>b, <2>1, <2>3, ProcFacts DEF CopyOut, DataInv, ipcVars, Guarded
  <2> QED BY <1>13, <2>1, <2>3, <2>4 DEF CopyOut, TypeOK, IpcTypeOK, ipcVars
<1>14. CASE ProcStep(Parent(r))
  BY <1>14, ProcFacts, TypeProcStep
<1> QED
  BY <1>1, <1>2, <1>3, <1>4, <1>5, <1>6, <1>7, <1>8, <1>9, <1>10, <1>11, <1>12, <1>13, <1>14
     DEF ParentStep

LEMMA TypeChildStep ==
  ASSUME TypeInv, NEW r \in Runs, ChildStep(r)
  PROVE  TypeInv'
<1> USE DEF TypeInv
<1>a. PcTypeOK /\ IpcTypeOK /\ DataInv
  BY DEF TypeOK
<1>1. CASE ChildStart(r)
  <2>1. PcTypeOK'
    BY <1>1, <1>a, MoveChild DEF ChildStart, ChildLabels
  <2>2. DataInv'
    BY <1>1, DataMoveChild DEF ChildStart, ChildLabels, ipcVars
  <2> QED BY <1>1, <2>1, <2>2, ProcFacts DEF ChildStart, TypeOK, IpcTypeOK, ipcVars
<1>2. CASE ChildStat(r)
  <2>1. /\ PcTypeOK'
        /\ pc'[Child(r)] = "attach"
        /\ \A p \in Procs \ {Child(r)} : pc'[p] = pc[p]
    BY <1>2, <1>a, MoveChild DEF ChildStat, ChildLabels
  <2>2. DataInv'
    BY <1>2, <1>a, <2>1, ProcFacts DEF ChildStat, DataInv, TypeOK, ipcVars
  <2> QED BY <1>2, <2>1, <2>2, ProcFacts DEF ChildStat, TypeOK, IpcTypeOK, ipcVars
<1>3. CASE ChildStatFails(r)
  <2>1. PcTypeOK'
    BY <1>3, <1>a, MoveChild DEF ChildStatFails, ChildLabels
  <2>2. DataInv'
    BY <1>3, DataMoveChild DEF ChildStatFails, ChildLabels, ipcVars
  <2> QED BY <1>3, <2>1, <2>2 DEF ChildStatFails, TypeOK, IpcTypeOK, ipcVars
<1>4. CASE CopyIn(r)
  <2>1. PcTypeOK'
    BY <1>4, <1>a, MoveChild DEF CopyIn, ChildLabels
  <2>2. DataInv'
    BY <1>4, DataMoveChild DEF CopyIn, ChildLabels
  <2>3. buf[Child(r)] \in Statuses
    BY <1>4, <1>a DEF CopyIn, DataInv
  <2>4. fresh' \in [Runs -> SUBSET Statuses]
    BY <1>4, <2>3 DEF CopyIn, TypeOK
  <2> QED BY <1>4, <2>1, <2>2, <2>3, <2>4 DEF CopyIn, TypeOK, IpcTypeOK, semVars
<1>5. CASE ProcStep(Child(r))
  BY <1>5, ProcFacts, TypeProcStep
<1> QED
  BY <1>1, <1>2, <1>3, <1>4, <1>5 DEF ChildStep

LEMMA TypeSignal ==
  ASSUME TypeInv, NEW p \in Procs, sigHandler(p) \/ Kill(p)
  PROVE  TypeInv'
<1> USE DEF TypeInv
<1>a. PcTypeOK /\ IpcTypeOK /\ DataInv
  BY DEF TypeOK
<1>1. /\ PcTypeOK'
      /\ pc'[p] \in {"done", "killed"}
      /\ \A q \in Procs \ {p} : pc'[q] = pc[q]
  BY <1>a, MoveProc DEF sigHandler, Kill, ParentLabels, ChildLabels, Ended
<1>2. DataInv'
  BY <1>a, <1>1, ProcFacts
     DEF sigHandler, Kill, dettachSharedMemory, DataInv, IpcTypeOK, Live, Guarded
<1>3. IpcTypeOK' /\ posted' \subseteq Runs
  <2>1. \/ semVars' = semVars /\ posted' = posted
        \/ postSemaphore(sem[RunOf(p)]) /\ posted' = posted \cup {RunOf(p)}
    BY DEF sigHandler, Kill, releaseResource, semVars
  <2> QED BY <1>a, <2>1, PostTypes, ProcFacts DEF sigHandler, Kill, TypeOK
<1>4. faults' \in 0 .. MaxFaults
  BY GitPs1Assumption DEF sigHandler, Kill, TypeOK
<1> QED BY <1>1, <1>2, <1>3, <1>4 DEF sigHandler, Kill, TypeOK

\* Every step of the program keeps the types.
LEMMA TypeNext == TypeInv /\ [Next]_vars => TypeInv'
<1> SUFFICES ASSUME TypeInv, [Next]_vars PROVE TypeInv'
  OBVIOUS
<1>1. CASE UNCHANGED vars
  BY <1>1 DEF vars, ipcVars, TypeInv, TypeOK, IpcTypeOK, PcTypeOK, DataInv
<1> QED
  BY <1>1, TypeParentStep, TypeChildStep, TypeSignal DEF Next, Terminating

\* Every variable always has its type, in both builds and under all faults.
THEOREM TypeCorrect == Spec => []TypeOK
<1>1. Spec => []TypeInv
  BY TypeInit, TypeNext, PTL DEF Spec
<1> QED BY <1>1, PTL DEF TypeInv

-----------------------------------------------------------------------------
(* The lock.                                                               *)

\* The labels of a parent that has not yet come to tryWaitSemaphre().
Early == {"idle", "nocache", "rmshm", "rmsem", "semget", "semget2", "setval",
          "shmget", "trywait"}

\* Run r has the permit or has lost it.
Accounted(r) == Holding(r) \/ Lost(r)

\* What the lock of the System V build keeps.
SysVAccounted == ~Posix => LockAccounted

(* LockAccounted is not inductive: it needs to know that a run takes a     *)
(* permit only once and posts only afterwards, that a semaphore is         *)
(* initialised only by its creator, and that a parent has no target.       *)
LockInv ==
  /\ \A r \in Runs : pc[Parent(r)] \in Early =>
       r \notin won /\ r \notin posted /\ pc[Child(r)] = "none"
  /\ \A r \in Runs : pc[Parent(r)] \in {"idle", "semget", "semget2"} => r \notin inited
  /\ \A r \in Runs : target[Parent(r)] = None
  /\ SysVAccounted

LEMMA LockInit == Init => LockInv
BY ProcFacts DEF Init, IpcInit, LockInv, SysVAccounted, LockAccounted, Empty

\* When no semaphore becomes empty and every run stays accounted for that a
\* still empty semaphore needs, the lock stays accounted for.
LEMMA AccountKept ==
  ASSUME SysVAccounted,
         \A s \in Runs : Empty(s)' =>
           /\ Empty(s)
           /\ \A r \in Runs : sem[r] = s /\ Accounted(r) => sem'[r] = s /\ Accounted(r)'
  PROVE  SysVAccounted'
BY DEF SysVAccounted, LockAccounted, Accounted

\* After a post no run that uses the semaphore finds it empty.
LEMMA PostFills ==
  ASSUME TypeOK, NEW s \in Runs \cup {None}, postSemaphore(s)
  PROVE  \A t \in Runs : Empty(t)' => Empty(t) /\ t # s
BY IpcAssumption DEF TypeOK, IpcTypeOK, postSemaphore, Empty, SemUsable

\* What keeps a run accounted for when another process moves.
LEMMA OthersAccounted ==
  ASSUME NEW r \in Runs, pc'[Parent(r)] = pc[Parent(r)], flag'[Parent(r)] = flag[Parent(r)],
         r \in won => r \in won', r \in posted' => r \in posted, Accounted(r)
  PROVE  Accounted(r)'
BY DEF Accounted, Holding, Lost

-----------------------------------------------------------------------------
(* The early steps of a parent: its run is not accounted for anything.     *)

EarlyStep(r) ==
  \/ Start(r) \/ NotARepository(r) \/ NoCache(r)
  \/ CleanShm(r) \/ CleanSem(r)
  \/ SemCreate(r) \/ SemExists(r) \/ SemSet(r) \/ SemSetFails(r) \/ SemGet(r)
  \/ IpcError(r) \/ ShmGet(r)

\* What an early step does to program counters and to history.
LEMMA EarlyMoves ==
  ASSUME TypeInv, NEW r \in Runs, EarlyStep(r)
  PROVE  /\ pc[Parent(r)] \in Early \ {"trywait"}
         /\ pc'[Parent(r)] \in Early \cup {"done", "attach"}
         /\ pc'[Parent(r)] \in {"idle", "semget", "semget2"} =>
              pc[Parent(r)] \in {"idle", "semget"} /\ inited' = inited
         /\ \A p \in Procs \ {Parent(r)} : pc'[p] = pc[p]
         /\ UNCHANGED <<won, posted, flag, target>>
         /\ \A q \in Runs \ {r} : sem'[q] = sem[q]
<1> USE DEF TypeInv, TypeOK
<1>1. CASE Start(r)
  BY <1>1, ProcFacts DEF Start, Goto, PcTypeOK, Early, FirstLabel, ipcVars
<1>2. CASE NotARepository(r) \/ NoCache(r) \/ CleanShm(r) \/ CleanSem(r)
  BY <1>2, ProcFacts DEF NotARepository, NoCache, CleanShm, CleanSem, Goto, PcTypeOK, Early
<1>3. CASE SemCreate(r) \/ SemExists(r) \/ SemSet(r) \/ SemSetFails(r) \/ SemGet(r)
  BY <1>3, ProcFacts
     DEF SemCreate, SemExists, SemSet, SemSetFails, SemGet, Goto, PcTypeOK, Early, ipcVars
<1>4. CASE IpcError(r) \/ ShmGet(r)
  BY <1>4, ProcFacts DEF IpcError, ShmGet, Goto, PcTypeOK, Early
<1> QED BY <1>1, <1>2, <1>3, <1>4 DEF EarlyStep

\* What an early step does to the semaphores: it makes none empty, and only
\* the creator of a semaphore initialises it.
LEMMA EarlySem ==
  ASSUME TypeInv, LockInv, NEW r \in Runs, EarlyStep(r)
  PROVE  /\ \A s \in Runs : Empty(s)' => Empty(s)
         /\ inited' \subseteq inited \cup {r}
<1> USE DEF TypeInv, TypeOK, IpcTypeOK, Empty, SemUsable
<1>1. CASE Start(r) \/ NotARepository(r) \/ NoCache(r) \/ SemExists(r) \/ SemSetFails(r) \/ IpcError(r)
  BY <1>1 DEF Start, NotARepository, NoCache, SemExists, SemSetFails, IpcError, ipcVars
<1>2. CASE CleanShm(r) \/ ShmGet(r)
  BY <1>2 DEF CleanShm, ShmGet, semVars
<1>3. CASE CleanSem(r)
  BY <1>3, IpcAssumption DEF CleanSem, deleteSemaphore
<1>4. CASE SemCreate(r)
  <2>1. r \notin inited
    BY <1>4 DEF SemCreate, LockInv
  <2> QED BY <1>4, <2>1 DEF SemCreate, NewSemaphore
<1>5. CASE SemSet(r)
  BY <1>5 DEF SemSet, SetSemaphore
<1>6. CASE SemGet(r)
  <2>1. r \notin inited
    BY <1>6 DEF SemGet, LockInv
  <2>2. CASE semKey # None
    BY <1>6, <2>2 DEF SemGet, OpenSemaphore, semVars
  <2>3. CASE semKey = None
    BY <1>6, <2>1, <2>3 DEF SemGet, OpenSemaphore, NewSemaphore
  <2> QED BY <2>2, <2>3
<1> QED BY <1>1, <1>2, <1>3, <1>4, <1>5, <1>6 DEF EarlyStep

LEMMA LockEarly ==
  ASSUME TypeInv, LockInv, NEW r \in Runs, EarlyStep(r)
  PROVE  LockInv'
<1>1. ~Accounted(r)
  BY EarlyMoves DEF LockInv, Accounted, Holding, Lost
<1>2. \A q \in Runs \ {r} : Accounted(q) => Accounted(q)'
  BY EarlyMoves, OthersAccounted, ProcFacts
<1>3. SysVAccounted'
  <2> SUFFICES ASSUME NEW s \in Runs, Empty(s)'
               PROVE  /\ Empty(s)
                      /\ \A q \in Runs : sem[q] = s /\ Accounted(q) => sem'[q] = s /\ Accounted(q)'
    BY AccountKept DEF LockInv
  <2> QED BY <1>1, <1>2, EarlyMoves, EarlySem
<1> QED BY <1>3, EarlyMoves, EarlySem, ProcFacts DEF LockInv, Early

-----------------------------------------------------------------------------
(* The steps that touch the lock: TryWait takes a permit, releaseResource  *)
(* gives one back.                                                         *)

LEMMA LockTryWait ==
  ASSUME TypeInv, LockInv, NEW r \in Runs, TryWait(r)
  PROVE  LockInv'
<1> USE DEF TypeInv, TypeOK, IpcTypeOK
<1>1. /\ pc[Parent(r)] = "trywait" /\ pc'[Parent(r)] \in {"setflag", "attach"}
      /\ \A p \in Procs \ {Parent(r)} : pc'[p] = pc[p]
  BY ProcFacts DEF TryWait, Goto, PcTypeOK
<1>2. r \notin won /\ r \notin posted /\ ~Accounted(r)
  BY <1>1 DEF LockInv, Early, Accounted, Holding, Lost
<1>3. UNCHANGED <<sem, flag, target, posted, inited, semKey>> /\ won \subseteq won' /\ won' \subseteq won \cup {r}
  BY DEF TryWait, DecrementSemaphore
<1>4. \A q \in Runs \ {r} : Accounted(q) => Accounted(q)'
  BY <1>1, <1>3, OthersAccounted, ProcFacts
<1>5. ASSUME ~Posix, NEW s \in Runs, Empty(s)'
      PROVE  \E q \in Runs : sem'[q] = s /\ Accounted(q)'
  <2>1. CASE CanDecrement(sem[r]) /\ sem[r] = s
    <3>1. r \in won' /\ r \notin posted'
      BY <2>1, <1>2, <1>3 DEF TryWait
    <3>2. Holding(r)'
      BY <3>1, <1>1, <1>5, <2>1 DEF Holding, TryWait, tryWaitSemaphre, Goto, PcTypeOK
    <3> QED BY <2>1, <3>2, <1>3 DEF Accounted
  <2>2. CASE ~(CanDecrement(sem[r]) /\ sem[r] = s)
    <3>1. semVal'[s] = semVal[s]
      BY <2>2 DEF TryWait, DecrementSemaphore
    <3>2. Empty(s)
      BY <3>1, <1>3, <1>5 DEF Empty, SemUsable
    <3> QED BY <3>2, <1>2, <1>3, <1>4, <1>5 DEF LockInv, SysVAccounted, LockAccounted, Accounted
  <2> QED BY <2>1, <2>2
<1>6. SysVAccounted'
  BY <1>5 DEF SysVAccounted, LockAccounted, Accounted
<1> QED BY <1>1, <1>2, <1>3, <1>6, ProcFacts DEF LockInv, Early

\* A step of process p that runs releaseResource() and nothing else of the
\* lock, and that leaves its run accounted for when it does not post.
LEMMA LockRelease ==
  ASSUME TypeInv, LockInv, NEW p \in Procs, NEW b \in BOOLEAN, releaseResource(p, b),
         UNCHANGED <<sem, won, target>>,
         \A q \in Procs \ {p} : pc'[q] = pc[q] /\ flag'[q] = flag[q],
         \A q \in Runs : p = Parent(q) => pc'[p] \notin Early,
         pc[p] # "none",
         ~(b /\ target[p] \in {None, p}) /\ Accounted(RunOf(p)) => Accounted(RunOf(p))'
  PROVE  LockInv'
<1> USE DEF TypeInv
<1> DEFINE r == RunOf(p)
<1>a. r \in Runs /\ (p = Parent(r) \/ p = Child(r))
  BY ProcFacts
<1>b. pc'[Parent(r)] \notin Early
  BY <1>a, ProcFacts DEF LockInv
<1>1. CASE b /\ target[p] \in {None, p}
  <2>1. postSemaphore(sem[r]) /\ posted' = posted \cup {r}
    BY <1>1 DEF releaseResource
  <2>2. inited' = inited
    BY <2>1 DEF postSemaphore
  <2>3. \A q \in Runs \ {r} : Accounted(q) => Accounted(q)'
    BY <2>1, <1>a, OthersAccounted, ProcFacts
  <2>4. \A s \in Runs : Empty(s)' => Empty(s) /\ s # sem[r]
    BY <2>1, <1>a, PostFills DEF TypeOK
  <2>5. SysVAccounted'
    BY <2>3, <2>4, AccountKept DEF LockInv
  <2> QED BY <1>a, <1>b, <2>1, <2>2, <2>5, ProcFacts DEF LockInv, Early
<1>2. CASE ~(b /\ target[p] \in {None, p})
  <2>1. UNCHANGED <<semKey, semVal, inited, posted>>
    BY <1>2 DEF releaseResource, semVars
  <2>2. \A q \in Runs \ {r} : Accounted(q) => Accounted(q)'
    BY <2>1, <1>a, OthersAccounted, ProcFacts
  <2>3. Accounted(r) => Accounted(r)'
    BY <1>2
  <2>4. SysVAccounted'
    BY <2>1, <2>2, <2>3, AccountKept DEF LockInv, Empty, SemUsable
  <2> QED BY <1>a, <1>b, <2>1, <2>4, ProcFacts DEF LockInv, Early
<1> QED BY <1>1, <1>2

\* The same for a step that leaves the lock alone altogether.
LEMMA LockIdle ==
  ASSUME TypeInv, LockInv, NEW p \in Procs, UNCHANGED <<semVars, posted, sem, won>>,
         \A q \in Runs : target'[Parent(q)] = target[Parent(q)],
         \A q \in Procs \ {p} : pc'[q] = pc[q] /\ flag'[q] = flag[q],
         \A q \in Runs : p = Parent(q) => pc'[p] \notin Early,
         pc[p] # "none",
         Accounted(RunOf(p)) => Accounted(RunOf(p))'
  PROVE  LockInv'
<1> DEFINE r == RunOf(p)
<1>a. r \in Runs /\ (p = Parent(r) \/ p = Child(r))
  BY ProcFacts
<1>b. pc'[Parent(r)] \notin Early
  BY <1>a, ProcFacts DEF LockInv
<1>1. \A q \in Runs \ {r} : Accounted(q) => Accounted(q)'
  BY <1>a, OthersAccounted, ProcFacts
<1>2. SysVAccounted'
  BY <1>1, AccountKept DEF LockInv, Empty, SemUsable, semVars
<1> QED BY <1>a, <1>b, <1>2, ProcFacts DEF LockInv, Early, semVars

-----------------------------------------------------------------------------
(* The other steps move one process between labels of Holding, or end it.  *)

LEMMA LockParent ==
  ASSUME TypeInv, LockInv, NEW r \in Runs, ParentStep(r)
  PROVE  LockInv'
<1> USE DEF TypeInv, TypeOK
<1> DEFINE p == Parent(r)
<1>a. p \in Procs /\ RunOf(p) = r /\ \A q \in Runs : p = Parent(q) => q = r
  BY ProcFacts
<1>1. CASE EarlyStep(r)
  BY <1>1, LockEarly
<1>2. CASE TryWait(r)
  BY <1>2, LockTryWait
<1>3. CASE SetFlag(r)
  <2>1. /\ pc[p] = "setflag" /\ pc'[p] = "fork"
        /\ \A q \in Procs \ {p} : pc'[q] = pc[q] /\ flag'[q] = flag[q]
        /\ flag'[p]
    BY <1>3, <1>a DEF SetFlag, Goto, PcTypeOK
  <2>2. UNCHANGED <<semVars, posted, sem, won, target>>
    BY <1>3 DEF SetFlag, ipcVars, semVars
  <2>3. Accounted(r) => Accounted(r)'
    BY <2>1, <2>2 DEF Accounted, Holding, Lost
  <2> QED BY <1>a, <2>1, <2>2, <2>3, LockIdle DEF Early
<1>4. CASE Fork(r)
  <2>1. /\ pc[p] = "fork" /\ pc'[p] = "poll"
        /\ \A q \in Runs \ {r} : pc'[Parent(q)] = pc[Parent(q)] /\ pc'[Child(q)] = pc[Child(q)]
    BY <1>4, ProcFacts DEF Fork, PcTypeOK
  <2>2. \A q \in Runs : flag'[Parent(q)] = flag[Parent(q)] /\ target'[Parent(q)] = target[Parent(q)]
    BY <1>4, ProcFacts DEF Fork
  <2>3. UNCHANGED <<semKey, semVal, inited, posted, sem, won>>
    BY <1>4 DEF Fork, ipcVars
  <2>4. \A q \in Runs : Accounted(q) => Accounted(q)'
    BY <2>1, <2>2, <2>3 DEF Accounted, Holding, Lost
  <2>5. SysVAccounted'
    BY <2>3, <2>4, AccountKept DEF LockInv, Empty, SemUsable
  <2> QED BY <2>1, <2>2, <2>3, <2>5 DEF LockInv, Early
<1>5. CASE ForkFails(r) \/ PollAlive(r) \/ PollExited(r) \/ PollKilled(r) \/ PollFails(r) \/ PollTimeout(r)
  <2>1. /\ pc[p] \in {"fork", "poll"} /\ pc'[p] \in {"poll", "attach", "release"}
        /\ \A q \in Procs \ {p} : pc'[q] = pc[q]
    BY <1>5, <1>a DEF ForkFails, PollAlive, PollExited, PollKilled, PollFails, PollTimeout, Goto, PcTypeOK
  <2>2. UNCHANGED <<semVars, posted, sem, won, target, flag>>
    BY <1>5 DEF ForkFails, PollAlive, PollExited, PollKilled, PollFails, PollTimeout, ipcVars, semVars
  <2>3. Accounted(r) => Accounted(r)'
    BY <2>1, <2>2 DEF Accounted, Holding, Lost
  <2> QED BY <1>a, <2>1, <2>2, <2>3, LockIdle DEF Early
<1>6. CASE NoName(r) \/ CopyOut(r) \/ Attach(p) \/ CopyFaults(p) \/ Detach(p)
  <2>1. /\ pc[p] \in {"attach", "copy", "detach"}
        /\ \/ pc'[p] \in {"copy", "detach", "release", "crashed"}
           \/ pc'[p] = "done" /\ ~flag[p]
        /\ \A q \in Procs \ {p} : pc'[q] = pc[q]
    BY <1>6, <1>a DEF NoName, CopyOut, Attach, CopyFaults, Detach, AfterAccess, Goto, PcTypeOK
  <2>2. UNCHANGED <<semVars, posted, sem, won, target, flag>>
    BY <1>6 DEF NoName, CopyOut, Attach, CopyFaults, Detach, ipcVars, semVars
  <2>3. Accounted(r) => Accounted(r)'
    BY <2>1, <2>2 DEF Accounted, Holding, Lost
  <2> QED BY <1>a, <2>1, <2>2, <2>3, LockIdle DEF Early
<1>7. CASE Release(p)
  <2>1. /\ pc[p] = "release" /\ pc'[p] = "clearflag"
        /\ \A q \in Procs \ {p} : pc'[q] = pc[q]
    BY <1>7, <1>a DEF Release, Goto, PcTypeOK
  <2>2. target[p] = None
    BY DEF LockInv
  <2> QED BY <1>7, <1>a, <2>1, <2>2, LockRelease DEF Release, Early
<1>8. CASE ClearFlag(p)
  <2>1. /\ pc[p] = "clearflag" /\ pc'[p] = "done"
        /\ \A q \in Procs \ {p} : pc'[q] = pc[q] /\ flag'[q] = flag[q]
    BY <1>8, <1>a DEF ClearFlag, Goto, PcTypeOK
  <2>2. ~Accounted(r)
    BY <2>1 DEF Accounted, Holding, Lost
  <2>3. UNCHANGED <<semVars, posted, sem, won, target>>
    BY <1>8 DEF ClearFlag, ipcVars, semVars
  <2> QED BY <1>a, <2>1, <2>2, <2>3, LockIdle DEF Early
<1> QED
  BY <1>1, <1>2, <1>3, <1>4, <1>5, <1>6, <1>7, <1>8 DEF ParentStep, ProcStep, EarlyStep

LEMMA LockChild ==
  ASSUME TypeInv, LockInv, NEW r \in Runs, ChildStep(r)
  PROVE  LockInv'
<1> USE DEF TypeInv, TypeOK
<1> DEFINE p == Child(r)
<1>a. /\ p \in Procs /\ RunOf(p) = r /\ \A q \in Runs : p # Parent(q)
      /\ Parent(r) \in Procs /\ Parent(r) # p
  BY ProcFacts
<1>1. CASE Release(p)
  <2>1. /\ pc[p] = "release"
        /\ \A q \in Procs \ {p} : pc'[q] = pc[q]
    BY <1>1, <1>a DEF Release, Goto, PcTypeOK
  <2>2. UNCHANGED <<sem, won, target, flag>> /\ releaseResource(p, TRUE)
    BY <1>1 DEF Release
  <2>3. posted' = posted => (Accounted(r) => Accounted(r)')
    BY <1>a, <2>1, <2>2, OthersAccounted
  <2>4. ~(target[p] \in {None, p}) => posted' = posted
    BY <2>2 DEF releaseResource
  <2> QED BY <1>a, <2>1, <2>2, <2>3, <2>4, LockRelease
<1>2. CASE ChildStart(r) \/ ChildStat(r) \/ ChildStatFails(r) \/ CopyIn(r)
             \/ Attach(p) \/ CopyFaults(p) \/ Detach(p) \/ ClearFlag(p)
  <2>1. /\ pc[p] # "none"
        /\ \A q \in Procs \ {p} : pc'[q] = pc[q] /\ flag'[q] = flag[q]
    BY <1>2, <1>a DEF ChildStart, ChildStat, ChildStatFails, CopyIn, Attach, CopyFaults, Detach,
                      ClearFlag, Goto, PcTypeOK
  <2>2. /\ UNCHANGED <<semVars, posted, sem, won>>
        /\ \A q \in Runs : target'[Parent(q)] = target[Parent(q)]
    BY <1>2, ProcFacts DEF ChildStart, ChildStat, ChildStatFails, CopyIn, Attach, CopyFaults, Detach,
                      ClearFlag, ipcVars, semVars
  <2>3. Accounted(r) => Accounted(r)'
    BY <1>a, <2>1, <2>2, OthersAccounted
  <2> QED BY <1>a, <2>1, <2>2, <2>3, LockIdle
<1> QED
  BY <1>1, <1>2 DEF ChildStep, ProcStep

LEMMA LockSignal ==
  ASSUME TypeInv, LockInv, NEW p \in Procs, sigHandler(p) \/ Kill(p)
  PROVE  LockInv'
<1> USE DEF TypeInv, TypeOK
<1> DEFINE r == RunOf(p)
<1>a. r \in Runs /\ (p = Parent(r) \/ p = Child(r)) /\ Parent(r) \in Procs
  BY ProcFacts
<1>1. /\ pc[p] \notin {"none"} \cup Ended /\ pc'[p] \in {"done", "killed"}
      /\ pc'[p] = "killed" \/ sigHandler(p)
      /\ \A q \in Procs \ {p} : pc'[q] = pc[q]
  BY DEF sigHandler, Kill, Live, Goto, PcTypeOK
<1>2. UNCHANGED <<sem, won, target, flag>>
  BY DEF sigHandler, Kill
<1>3. CASE sigHandler(p)
  <2>1. releaseResource(p, flag[p]) /\ pc'[p] = "done"
    BY <1>3, <1>1 DEF sigHandler, Goto, PcTypeOK
  <2>2. posted' = posted /\ ~(flag[p] /\ target[p] \in {None, p}) /\ Accounted(r) => Accounted(r)'
    <3>1. CASE p = Child(r)
      BY <3>1, <1>a, <1>1, <1>2, OthersAccounted, ProcFacts
    <3>2. CASE p = Parent(r)
      BY <3>2, <1>1, <1>2, <2>1 DEF LockInv, Accounted, Holding, Lost, Ended
    <3> QED BY <1>a, <3>1, <3>2
  <2>3. ~(flag[p] /\ target[p] \in {None, p}) => posted' = posted
    BY <2>1 DEF releaseResource
  <2> QED BY <1>1, <1>2, <2>1, <2>2, <2>3, LockRelease DEF Early
<1>4. CASE Kill(p)
  <2>1. pc'[p] = "killed" /\ UNCHANGED <<semVars, posted>>
    BY <1>4 DEF Kill, Goto, PcTypeOK
  <2>2. Accounted(r) => Accounted(r)'
    <3>1. CASE p = Child(r)
      BY <3>1, <1>a, <1>1, <1>2, <2>1, OthersAccounted, ProcFacts
    <3>2. CASE p = Parent(r)
      BY <3>2, <1>1, <1>2, <2>1 DEF Accounted, Holding, Lost, Ended
    <3> QED BY <1>a, <3>1, <3>2
  <2> QED BY <1>1, <1>2, <2>1, <2>2, LockIdle DEF Early
<1> QED BY <1>3, <1>4

-----------------------------------------------------------------------------
\* Every step of the program keeps the lock accounted for.
LEMMA LockNext == TypeInv /\ LockInv /\ [Next]_vars => LockInv'
<1> SUFFICES ASSUME TypeInv, LockInv, [Next]_vars PROVE LockInv'
  OBVIOUS
<1>1. CASE UNCHANGED vars
  BY <1>1 DEF vars, ipcVars, LockInv, SysVAccounted, LockAccounted, Holding, Lost, Empty, SemUsable
<1> QED
  BY <1>1, LockParent, LockChild, LockSignal DEF Next, Terminating

\* A lock of the System V build that cannot be taken is held by a run that
\* will give it back, or a run lost it while its parent was killed, crashed,
\* or not yet marked.
THEOREM LockNeverForgotten ==
  ASSUME ~Posix
  PROVE  Spec => []LockAccounted
<1>1. Spec => [](TypeInv /\ LockInv)
  BY TypeInit, TypeNext, LockInit, LockNext, PTL DEF Spec
<1>2. LockInv => LockAccounted
  BY DEF LockInv, SysVAccounted
<1> QED BY <1>1, <1>2, PTL

-----------------------------------------------------------------------------
(* The System V build gives back only what was taken.  A post comes from   *)
(* label "release" or from the signal handler under g_shouldSemPost, so    *)
(* the invariant says which labels and flags only a winner can have.       *)

WinInv ==
  /\ \A p \in Procs : flag[p] \/ pc[p] = "release" => RunOf(p) \in won
  /\ \A r \in Runs : /\ pc[Parent(r)] \in {"setflag", "fork", "poll"} => r \in won
                     /\ pc[Child(r)] # "none" => r \in won
  /\ OnlyWinnersPost

LEMMA WinInit == Init => WinInv
BY ProcFacts DEF Init, WinInv, OnlyWinnersPost

\* A step of one process that keeps WinInv: it changes flag and history as
\* WinInv allows and goes to "release" only where WinInv names its run.
LEMMA WinMove ==
  ASSUME TypeInv, WinInv, NEW p \in Procs, won \subseteq won',
         \A q \in Procs \ {p} : pc'[q] = pc[q] /\ flag'[q] = flag[q],
         flag'[p] \/ pc'[p] \in {"release", "setflag", "fork", "poll"} => RunOf(p) \in won',
         pc[p] = "none" => pc'[p] = "none",
         posted' \subseteq posted \/ (posted' = posted \cup {RunOf(p)} /\ RunOf(p) \in won)
  PROVE  WinInv'
<1>1. \A r \in Runs : \/ pc'[Parent(r)] = pc[Parent(r)] /\ flag'[Parent(r)] = flag[Parent(r)]
                      \/ p = Parent(r)
  BY ProcFacts
<1>2. \A r \in Runs : pc'[Child(r)] # "none" => r \in won'
  BY ProcFacts DEF WinInv
<1> QED BY <1>1, <1>2, ProcFacts DEF WinInv, OnlyWinnersPost

LEMMA WinNext ==
  ASSUME ~Posix, TypeInv, WinInv, Next
  PROVE  WinInv'
<1> USE DEF TypeInv, TypeOK
<1>1. ASSUME NEW r \in Runs, EarlyStep(r)
      PROVE  WinInv'
  <2>1. flag[Parent(r)] => r \in won
    BY ProcFacts DEF WinInv
  <2> QED BY <1>1, <2>1, EarlyMoves, WinMove, ProcFacts DEF Early
<1>2. ASSUME NEW r \in Runs, TryWait(r)
      PROVE  WinInv'
  <2>1. /\ pc[Parent(r)] = "trywait"
        /\ (pc'[Parent(r)] = "setflag" /\ r \in won') \/ pc'[Parent(r)] = "attach"
        /\ \A q \in Procs \ {Parent(r)} : pc'[q] = pc[q]
    BY <1>2, ProcFacts DEF TryWait, tryWaitSemaphre, Goto, PcTypeOK
  <2>2. UNCHANGED <<flag, posted>> /\ won \subseteq won'
    BY <1>2 DEF TryWait
  <2>3. flag[Parent(r)] => r \in won
    BY ProcFacts DEF WinInv
  <2> QED BY <2>1, <2>2, <2>3, WinMove, ProcFacts
<1>3. ASSUME NEW r \in Runs, Fork(r)
      PROVE  WinInv'
  <2>1. r \in won
    BY <1>3 DEF Fork, WinInv
  <2>2. /\ \A q \in Procs \ {Parent(r), Child(r)} : pc'[q] = pc[q] /\ flag'[q] = flag[q]
        /\ UNCHANGED <<won, posted>>
    BY <1>3, ProcFacts DEF Fork, PcTypeOK
  <2>3. \A q \in Procs : flag'[q] \/ pc'[q] = "release" => RunOf(q) \in won'
    <3>1. \A q \in {Parent(r), Child(r)} : RunOf(q) \in won'
      BY <2>1, <2>2, ProcFacts
    <3> QED BY <2>2, <3>1 DEF WinInv
  <2>4. \A q \in Runs \ {r} : pc'[Parent(q)] = pc[Parent(q)] /\ pc'[Child(q)] = pc[Child(q)]
    BY <2>2, ProcFacts
  <2> QED BY <2>1, <2>2, <2>3, <2>4 DEF WinInv, OnlyWinnersPost
<1>4. ASSUME NEW r \in Runs, SetFlag(r) \/ ForkFails(r) \/ PollAlive(r) \/ PollExited(r)
                             \/ PollKilled(r) \/ PollFails(r) \/ PollTimeout(r)
      PROVE  WinInv'
  <2>1. r \in won
    BY <1>4 DEF SetFlag, ForkFails, PollAlive, PollExited, PollKilled, PollFails, PollTimeout, WinInv
  <2>2. /\ pc[Parent(r)] # "none"
        /\ \A q \in Procs \ {Parent(r)} : pc'[q] = pc[q] /\ flag'[q] = flag[q]
        /\ UNCHANGED <<won, posted>>
    BY <1>4, ProcFacts DEF SetFlag, ForkFails, PollAlive, PollExited, PollKilled, PollFails, PollTimeout, Goto, PcTypeOK
  <2> QED BY <2>1, <2>2, WinMove, ProcFacts
<1>5. ASSUME NEW r \in Runs, NoName(r) \/ CopyOut(r) \/ ChildStart(r) \/ ChildStat(r)
                             \/ ChildStatFails(r) \/ CopyIn(r)
      PROVE  WinInv'
  <2>1. PICK p \in Procs :
          /\ p \in {Parent(r), Child(r)} /\ pc[p] # "none"
          /\ pc'[p] = "release" => flag[p] \/ p = Child(r)
          /\ pc'[p] \in {"attach", "copy", "detach", "release", "done", "stat"}
          /\ \A q \in Procs \ {p} : pc'[q] = pc[q]
    BY <1>5, ProcFacts DEF NoName, CopyOut, ChildStart, ChildStat, ChildStatFails, CopyIn,
                           AfterAccess, Goto, PcTypeOK
  <2>2. UNCHANGED <<won, posted, flag>>
    BY <1>5 DEF NoName, CopyOut, ChildStart, ChildStat, ChildStatFails, CopyIn
  <2>3. flag[p] \/ p = Child(r) => RunOf(p) \in won
    BY <2>1, ProcFacts DEF WinInv
  <2> QED BY <2>1, <2>2, <2>3, WinMove
<1>6. ASSUME NEW p \in Procs, Attach(p) \/ CopyFaults(p) \/ Detach(p) \/ ClearFlag(p)
      PROVE  WinInv'
  <2>1. /\ pc[p] # "none"
        /\ pc'[p] = "release" => flag[p]
        /\ pc'[p] \in {"copy", "crashed", "release", "done"}
        /\ \A q \in Procs \ {p} : pc'[q] = pc[q] /\ flag'[q] = flag[q]
        /\ flag'[p] => flag[p]
    BY <1>6 DEF Attach, CopyFaults, Detach, ClearFlag, AfterAccess, Goto, PcTypeOK
  <2>2. UNCHANGED <<won, posted>>
    BY <1>6 DEF Attach, CopyFaults, Detach, ClearFlag
  <2> QED BY <2>1, <2>2, WinMove DEF WinInv
<1>7. ASSUME NEW p \in Procs, Release(p) \/ sigHandler(p) \/ Kill(p)
      PROVE  WinInv'
  <2>1. /\ pc[p] # "none"
        /\ pc'[p] \in {"clearflag", "done", "killed"}
        /\ \A q \in Procs \ {p} : pc'[q] = pc[q]
        /\ posted' = posted \/ (posted' = posted \cup {RunOf(p)} /\ (pc[p] = "release" \/ flag[p]))
    BY <1>7 DEF Release, sigHandler, Kill, releaseResource, Live, Goto, PcTypeOK
  <2>2. UNCHANGED <<won, flag>>
    BY <1>7 DEF Release, sigHandler, Kill
  <2>3. flag[p] \/ pc[p] = "release" => RunOf(p) \in won
    BY DEF WinInv
  <2> QED BY <2>1, <2>2, <2>3, WinMove
<1>8. CASE Terminating
  BY <1>8 DEF Terminating, vars, WinInv, OnlyWinnersPost
<1>9. ASSUME NEW r \in Runs, ParentStep(r) \/ ChildStep(r)
      PROVE  WinInv'
  BY <1>1, <1>2, <1>3, <1>4, <1>5, <1>6, <1>7, <1>9, ProcFacts
     DEF ParentStep, ChildStep, ProcStep, EarlyStep
<1> QED BY <1>7, <1>8, <1>9 DEF Next

\* In the System V build a permit is given back only by a run that took one,
\* under every interleaving of parents, children, signals and cleans.
THEOREM WinnersPost ==
  ASSUME ~Posix
  PROVE  Spec => []OnlyWinnersPost
<1>1. TypeInv /\ WinInv /\ [Next]_vars => WinInv'
  <2>1. CASE UNCHANGED vars
    BY <2>1 DEF vars, WinInv, OnlyWinnersPost
  <2> QED BY <2>1, WinNext
<1>2. Spec => [](TypeInv /\ WinInv)
  BY <1>1, TypeInit, TypeNext, WinInit, PTL DEF Spec
<1> QED BY <1>2, PTL DEF WinInv

-----------------------------------------------------------------------------
(* A segment that nobody takes away is found by every attach that no limit *)
(* refuses: in the POSIX build always, in the System V build where nobody  *)
(* cleans, since then the key keeps the one segment all runs use.          *)

SegmentsStay == Posix \/ "clean" \notin Modes

\* Where nobody cleans: all runs use the segment of the key.
OneSegment ==
  "clean" \notin Modes =>
    /\ \A r \in Runs : shm[r] # None => shm[r] = shmKey
    /\ \A r \in Runs : pc[Parent(r)] \notin {"rmshm", "rmsem"}

SegInv ==
  /\ OneSegment
  /\ \A p \in Procs : addr[p] = BadAddr => p \in refused
  /\ \A p \in refused : p[2] \in Limited
  /\ CrashOnlyRefused

LEMMA SegInit == Init => SegInv
BY ProcFacts, IpcAssumption DEF Init, IpcInit, SegInv, OneSegment, CrashOnlyRefused

\* A step that moves one process and leaves the segments alone.
LEMMA SegMove ==
  ASSUME SegInv, NEW p \in Procs, UNCHANGED <<shm, shmKey, refused>>,
         \A q \in Procs \ {p} : pc'[q] = pc[q] /\ addr'[q] = addr[q],
         addr'[p] = BadAddr => p \in refused,
         pc'[p] = "crashed" => p \in refused,
         "clean" \notin Modes => pc'[p] \notin {"rmshm", "rmsem"}
  PROVE  SegInv'
<1>1. OneSegment'
  <2> SUFFICES ASSUME "clean" \notin Modes, NEW r \in Runs
               PROVE  (shm[r] # None => shm[r] = shmKey) /\ pc'[Parent(r)] \notin {"rmshm", "rmsem"}
    BY DEF OneSegment
  <2> QED BY ProcFacts DEF SegInv, OneSegment
<1> QED BY <1>1 DEF SegInv, CrashOnlyRefused

LEMMA SegParent ==
  ASSUME TypeInv, SegInv, NEW r \in Runs, ParentStep(r), ~ProcStep(Parent(r))
  PROVE  SegInv'
<1> USE DEF TypeInv, TypeOK
<1> DEFINE p == Parent(r)
<1>a. p \in Procs /\ p # Child(r) /\ Child(r) \in Procs
  BY ProcFacts
<1>b. /\ addr[p] = BadAddr => p \in refused
      /\ pc[p] = "crashed" => p \in refused
  BY <1>a DEF SegInv, CrashOnlyRefused
<1>1. CASE Start(r)
  <2>1. "clean" \notin Modes => mode[r] # "clean"
    OBVIOUS
  <2>2. /\ "clean" \notin Modes => pc'[p] \in {"semget", "nocache"}
        /\ pc'[p] # "crashed" /\ \A q \in Procs \ {p} : pc'[q] = pc[q]
    BY <1>1, <1>a, <2>1 DEF Start, FirstLabel, Goto, PcTypeOK
  <2> QED BY <1>1, <1>a, <1>b, <2>2, SegMove DEF Start, ipcVars
<1>2. CASE CleanShm(r) \/ CleanSem(r)
  <2>1. "clean" \in Modes
    BY <1>2 DEF CleanShm, CleanSem, SegInv, OneSegment
  <2>2. /\ pc'[p] \in {"rmsem", "done"} /\ \A q \in Procs \ {p} : pc'[q] = pc[q]
        /\ UNCHANGED <<addr, refused>>
    BY <1>2, <1>a DEF CleanShm, CleanSem, deleteSharedMemory, shmVars, Goto, PcTypeOK
  <2> QED BY <1>a, <2>1, <2>2 DEF SegInv, OneSegment, CrashOnlyRefused
<1>3. CASE ShmGet(r)
  <2>1. /\ pc'[p] \in {"attach", "trywait"} /\ \A q \in Procs \ {p} : pc'[q] = pc[q]
        /\ UNCHANGED <<addr, refused>>
    BY <1>3, <1>a DEF ShmGet, getOrCreateSharedMemory, Goto, PcTypeOK
  <2>2. OneSegment'
    <3>1. ASSUME "clean" \notin Modes
          PROVE  \A q \in Runs : shm'[q] # None => shm'[q] = shmKey'
      BY <1>3, <3>1 DEF ShmGet, getOrCreateSharedMemory, SegInv, OneSegment
    <3>2. ASSUME "clean" \notin Modes, NEW q \in Runs
          PROVE  pc'[Parent(q)] \notin {"rmshm", "rmsem"}
      BY <2>1, <3>2, ProcFacts DEF SegInv, OneSegment
    <3> QED BY <3>1, <3>2 DEF OneSegment
  <2> QED BY <1>a, <2>1, <2>2 DEF SegInv, CrashOnlyRefused
<1>4. CASE Fork(r)
  <2>1. /\ \A q \in Procs : pc'[q] = pc[q] \/ pc'[q] \in {"poll", "start"}
        /\ UNCHANGED <<shm, shmKey, addr, refused>>
    BY <1>4, <1>a DEF Fork, PcTypeOK, ipcVars
  <2>2. OneSegment'
    BY <2>1, ProcFacts DEF SegInv, OneSegment
  <2> QED BY <2>1, <2>2 DEF SegInv, CrashOnlyRefused
<1>5. CASE NotARepository(r) \/ NoCache(r) \/ SemCreate(r) \/ SemExists(r) \/ SemSet(r)
           \/ SemSetFails(r) \/ SemGet(r) \/ IpcError(r)
  <2>1. /\ pc'[p] \notin {"rmshm", "rmsem", "crashed"} /\ \A q \in Procs \ {p} : pc'[q] = pc[q]
    BY <1>5, <1>a DEF NotARepository, NoCache, SemCreate, SemExists, SemSet, SemSetFails, SemGet,
                      IpcError, Goto, PcTypeOK
  <2>2. UNCHANGED <<shm, shmKey, addr, refused>>
    BY <1>5 DEF NotARepository, NoCache, SemCreate, SemExists, SemSet, SemSetFails, SemGet,
                IpcError, ipcVars, shmVars
  <2> QED BY <1>a, <1>b, <2>1, <2>2, SegMove
<1>6. CASE TryWait(r) \/ SetFlag(r) \/ ForkFails(r) \/ PollAlive(r) \/ PollExited(r)
           \/ PollKilled(r) \/ PollFails(r) \/ PollTimeout(r) \/ NoName(r) \/ CopyOut(r)
  <2>1. pc'[p] \notin {"rmshm", "rmsem", "crashed"} /\ \A q \in Procs \ {p} : pc'[q] = pc[q]
    BY <1>6, <1>a DEF TryWait, SetFlag, ForkFails, PollAlive, PollExited, PollKilled, PollFails, PollTimeout,
                      NoName, CopyOut, AfterAccess, Goto, PcTypeOK
  <2>2. UNCHANGED <<shm, shmKey, addr, refused>>
    BY <1>6 DEF TryWait, SetFlag, ForkFails, PollAlive, PollExited, PollKilled, PollFails, PollTimeout,
                NoName, CopyOut, ipcVars, shmVars
  <2> QED BY <1>a, <1>b, <2>1, <2>2, SegMove
<1> QED
  BY <1>1, <1>2, <1>3, <1>4, <1>5, <1>6 DEF ParentStep

\* An attach fails only when a limit refuses it.
LEMMA SegAttach ==
  ASSUME SegmentsStay, TypeInv, SegInv, NEW p \in Procs, Attach(p)
  PROVE  SegInv'
<1> USE DEF TypeInv, TypeOK, IpcTypeOK
<1>1. shm[RunOf(p)] \in Runs /\ ("clean" \notin Modes => shm[RunOf(p)] = shmKey)
  BY ProcFacts, IpcAssumption DEF Attach, DataInv, Guarded, SegInv, OneSegment
<1>2. ShmAlive(shm[RunOf(p)]) /\ shm[RunOf(p)] # BadAddr
  BY <1>1, IpcAssumption DEF SegmentsStay, ShmAlive
<1>3. /\ pc'[p] = "copy" /\ \A q \in Procs \ {p} : pc'[q] = pc[q] /\ addr'[q] = addr[q]
      /\ UNCHANGED <<shm, shmKey>>
  BY DEF Attach, attachSharedMemory, Goto, PcTypeOK
<1>4. /\ addr'[p] = BadAddr => p \in refused'
      /\ refused \subseteq refused' /\ refused' \subseteq refused \cup {p}
      /\ p \in refused' => p \in refused \/ p[2] \in Limited
  BY <1>2 DEF Attach, attachSharedMemory
<1>5. OneSegment'
  BY <1>3, ProcFacts DEF SegInv, OneSegment
<1> QED BY <1>3, <1>4, <1>5 DEF SegInv, CrashOnlyRefused

LEMMA SegProc ==
  ASSUME SegmentsStay, TypeInv, SegInv, NEW p \in Procs, ProcStep(p) \/ sigHandler(p) \/ Kill(p)
  PROVE  SegInv'
<1> USE DEF TypeInv, TypeOK, IpcTypeOK
<1>1. addr[p] = BadAddr => p \in refused
  BY DEF SegInv
<1>2. CASE Attach(p)
  BY <1>2, SegAttach
<1>3. CASE CopyFaults(p)
  <2>1. /\ pc'[p] = "crashed" /\ \A q \in Procs \ {p} : pc'[q] = pc[q]
        /\ UNCHANGED <<shm, shmKey, refused>> /\ addr' = [addr EXCEPT ![p] = None] /\ p \in refused
    BY <1>1, <1>3 DEF CopyFaults, dettachSharedMemory, Goto, PcTypeOK
  <2> QED BY <2>1, SegMove, IpcAssumption
<1>4. CASE Detach(p) \/ sigHandler(p) \/ Kill(p)
  <2>1. pc'[p] \in {"release", "done", "killed"} /\ \A q \in Procs \ {p} : pc'[q] = pc[q]
    BY <1>4 DEF Detach, sigHandler, Kill, AfterAccess, Goto, PcTypeOK
  <2>2. UNCHANGED <<shm, shmKey, refused>> /\ addr' = [addr EXCEPT ![p] = None]
    BY <1>4 DEF Detach, sigHandler, Kill, dettachSharedMemory
  <2> QED BY <2>1, <2>2, SegMove, IpcAssumption
<1>5. CASE Release(p) \/ ClearFlag(p)
  <2>1. pc'[p] \in {"clearflag", "done"} /\ \A q \in Procs \ {p} : pc'[q] = pc[q]
    BY <1>5 DEF Release, ClearFlag, Goto, PcTypeOK
  <2>2. UNCHANGED <<shm, shmKey, addr, refused>>
    BY <1>5 DEF Release, ClearFlag, ipcVars, shmVars
  <2> QED BY <1>1, <2>1, <2>2, SegMove
<1> QED BY <1>2, <1>3, <1>4, <1>5 DEF ProcStep

LEMMA SegNext ==
  ASSUME SegmentsStay, TypeInv, SegInv, [Next]_vars
  PROVE  SegInv'
<1>1. ASSUME NEW r \in Runs, ChildStart(r) \/ ChildStat(r) \/ ChildStatFails(r) \/ CopyIn(r)
      PROVE  SegInv'
  <2>1. pc'[Child(r)] \in {"stat", "attach", "release", "detach"}
        /\ \A q \in Procs \ {Child(r)} : pc'[q] = pc[q]
    BY <1>1, ProcFacts DEF ChildStart, ChildStat, ChildStatFails, CopyIn, Goto, TypeInv, TypeOK, PcTypeOK
  <2>2. UNCHANGED <<shm, shmKey, addr, refused>>
    BY <1>1 DEF ChildStart, ChildStat, ChildStatFails, CopyIn, ipcVars
  <2> QED BY <2>1, <2>2, SegMove, ProcFacts DEF SegInv
<1>2. CASE UNCHANGED vars
  BY <1>2 DEF vars, ipcVars, SegInv, OneSegment, CrashOnlyRefused
<1> QED
  BY <1>1, <1>2, SegParent, SegProc, ProcFacts DEF Next, ChildStep, Terminating

\* In the POSIX build, and in the System V build without a clean, a process
\* dies of an access to shared memory only when the system refused it the
\* memory: whatever signals and kills there are, every segment is found.
THEOREM CrashIsRefusal ==
  ASSUME SegmentsStay
  PROVE  Spec => []CrashOnlyRefused
<1>1. Spec => [](TypeInv /\ SegInv)
  BY TypeInit, TypeNext, SegInit, SegNext, PTL DEF Spec
<1> QED BY <1>1, PTL DEF SegInv

-----------------------------------------------------------------------------
(* Where parents are undisturbed no run loses its permit: its parent stays *)
(* before a release with g_shouldSemPost set until somebody posts for it.  *)

HoldInv ==
  \A r \in won \ posted : Holding(r)

LEMMA HoldInit == Init => HoldInv
BY DEF Init, HoldInv

\* A step that takes no permit and moves parent r, if it moves a parent, on
\* to a label where run r still holds the permit.
LEMMA HoldMove ==
  ASSUME HoldInv, NEW r \in Runs, won \subseteq Runs, won' \subseteq won, posted \subseteq posted',
         \A q \in Runs \ {r} : pc'[Parent(q)] = pc[Parent(q)] /\ flag'[Parent(q)] = flag[Parent(q)],
         r \in won' \ posted' => Holding(r)'
  PROVE  HoldInv'
BY DEF HoldInv, Holding

LEMMA HoldParent ==
  ASSUME ~Posix, "parent" \notin Limited, TypeInv, LockInv, SegInv, HoldInv, NEW r \in Runs, ParentStep(r)
  PROVE  HoldInv'
<1> USE DEF TypeInv, TypeOK
<1> DEFINE p == Parent(r)
<1>a. p \in Procs /\ \A q \in Runs \ {r} : Parent(q) \in Procs \ {p}
  BY ProcFacts
<1>1. CASE EarlyStep(r)
  <2>1. r \notin won
    BY <1>1, EarlyMoves DEF LockInv
  <2> QED BY <1>1, <1>a, <2>1, EarlyMoves, HoldMove
<1>2. CASE TryWait(r)
  <2>1. \/ pc'[p] = "setflag"
        \/ r \notin won'
    BY <1>2, <1>a DEF TryWait, tryWaitSemaphre, Goto, PcTypeOK, LockInv, Early
  <2>2. /\ \A q \in Procs \ {p} : pc'[q] = pc[q]
        /\ UNCHANGED <<flag, posted>> /\ won' \subseteq won \cup {r}
    BY <1>2 DEF TryWait, Goto, PcTypeOK
  <2> QED BY <1>a, <2>1, <2>2 DEF HoldInv, Holding
<1>3. CASE SetFlag(r) \/ Fork(r) \/ ForkFails(r) \/ PollAlive(r) \/ PollExited(r)
           \/ PollKilled(r) \/ PollFails(r) \/ PollTimeout(r) \/ CopyOut(r) \/ Attach(p)
  <2>1. /\ pc'[p] \in {"fork", "poll", "attach", "copy", "detach", "release"}
        /\ SetFlag(r) \/ (flag'[p] = flag[p] /\ pc[p] # "setflag")
        /\ SetFlag(r) => flag'[p]
    BY <1>3, <1>a, ProcFacts DEF SetFlag, Fork, ForkFails, PollAlive, PollExited, PollKilled, PollFails, PollTimeout,
             CopyOut, Attach, Goto, PcTypeOK
  <2>2. /\ \A q \in Runs \ {r} : pc'[Parent(q)] = pc[Parent(q)] /\ flag'[Parent(q)] = flag[Parent(q)]
        /\ UNCHANGED <<won, posted>>
    BY <1>3, <1>a, ProcFacts DEF SetFlag, Fork, ForkFails, PollAlive, PollExited, PollKilled, PollFails, PollTimeout,
             CopyOut, Attach, Goto, PcTypeOK
  <2> QED BY <2>1, <2>2, HoldMove DEF HoldInv, Holding
<1>4. CASE NoName(r) \/ Detach(p)
  <2>1. /\ pc[p] \in {"attach", "detach"} /\ pc'[p] = AfterAccess(p)
        /\ \A q \in Procs \ {p} : pc'[q] = pc[q]
        /\ UNCHANGED <<won, posted, flag>>
    BY <1>4, <1>a DEF NoName, Detach, Goto, PcTypeOK
  <2>2. r \in won \ posted => flag[p] /\ pc'[p] = "release"
    BY <2>1 DEF HoldInv, Holding, AfterAccess
  <2> QED BY <1>a, <2>1, <2>2, HoldMove DEF Holding
<1>5. CASE CopyFaults(p)
  BY <1>5, <1>a, ProcFacts DEF CopyFaults, SegInv
<1>6. CASE Release(p)
  <2>1. target[p] = None
    BY DEF LockInv
  <2>2. /\ r \in posted' /\ posted \subseteq posted' /\ UNCHANGED <<won, flag>>
        /\ \A q \in Procs \ {p} : pc'[q] = pc[q]
    BY <1>6, <2>1, ProcFacts DEF Release, releaseResource, Goto, PcTypeOK
  <2> QED BY <1>a, <2>2, HoldMove
<1>7. CASE ClearFlag(p)
  <2>1. r \notin won \ posted
    BY <1>7 DEF ClearFlag, HoldInv, Holding
  <2>2. /\ \A q \in Procs \ {p} : pc'[q] = pc[q] /\ flag'[q] = flag[q]
        /\ UNCHANGED <<won, posted>>
    BY <1>7 DEF ClearFlag, Goto, PcTypeOK
  <2> QED BY <1>a, <2>1, <2>2, HoldMove
<1> QED
  BY <1>1, <1>2, <1>3, <1>4, <1>5, <1>6, <1>7 DEF ParentStep, ProcStep, EarlyStep

\* A child, whatever it does or suffers, moves no parent.
LEMMA HoldChild ==
  ASSUME TypeInv, HoldInv, NEW r \in Runs,
         ChildStep(r) \/ sigHandler(Child(r)) \/ Kill(Child(r))
  PROVE  HoldInv'
<1> USE DEF TypeInv, TypeOK
<1> DEFINE p == Child(r)
<1>1. \A q \in Runs : Parent(q) \in Procs \ {p}
  BY ProcFacts
<1>2. CASE ChildStart(r) \/ ChildStat(r) \/ ChildStatFails(r) \/ CopyIn(r)
  <2>1. /\ \A q \in Procs \ {p} : pc'[q] = pc[q]
        /\ UNCHANGED <<won, posted, flag>>
    BY <1>2 DEF ChildStart, ChildStat, ChildStatFails, CopyIn, Goto, PcTypeOK
  <2> QED BY <1>1, <2>1 DEF HoldInv, Holding
<1>3. CASE Attach(p) \/ CopyFaults(p) \/ Detach(p) \/ ClearFlag(p)
  <2>1. /\ \A q \in Procs \ {p} : pc'[q] = pc[q] /\ flag'[q] = flag[q]
        /\ UNCHANGED <<won, posted>>
    BY <1>3 DEF Attach, CopyFaults, Detach, ClearFlag, Goto, PcTypeOK
  <2> QED BY <1>1, <2>1 DEF HoldInv, Holding
<1>4. CASE Release(p) \/ sigHandler(p) \/ Kill(p)
  <2>1. /\ \A q \in Procs \ {p} : pc'[q] = pc[q]
        /\ UNCHANGED <<won, flag>> /\ posted \subseteq posted'
    BY <1>4 DEF Release, sigHandler, Kill, releaseResource, Goto, PcTypeOK
  <2> QED BY <1>1, <2>1 DEF HoldInv, Holding
<1> QED BY <1>2, <1>3, <1>4 DEF ChildStep, ProcStep

LEMMA HoldNext ==
  ASSUME ParentsUndisturbed, TypeInv, LockInv, SegInv, HoldInv, [Next]_vars
  PROVE  HoldInv'
<1>1. CASE UNCHANGED vars
  BY <1>1 DEF vars, HoldInv, Holding
<1>2. ASSUME NEW p \in Procs, sigHandler(p) \/ Kill(p)
      PROVE  p = Child(RunOf(p)) /\ RunOf(p) \in Runs
  BY <1>2, ProcFacts DEF sigHandler, Kill, ParentsUndisturbed
<1>3. CASE \E p \in Procs : sigHandler(p) \/ Kill(p)
  BY <1>2, <1>3, HoldChild
<1>4. CASE \E r \in Runs : ParentStep(r) \/ ChildStep(r)
  BY <1>4, HoldParent, HoldChild DEF ParentsUndisturbed
<1> QED BY <1>1, <1>3, <1>4 DEF Next, Terminating

LEMMA SegmentsKept == "clean" \notin Modes => SegmentsStay
BY DEF SegmentsStay

\* Whatever happens to the children, an empty lock is always held by a
\* parent that will give it back, so the repository is never locked for good.
THEOREM LockNeverWedged ==
  ASSUME ParentsUndisturbed
  PROVE  Spec => []NeverWedged
<1>1. "clean" \notin Modes
  BY DEF ParentsUndisturbed
<1>2. Spec => [](TypeInv /\ LockInv /\ SegInv /\ HoldInv)
  BY <1>1, SegmentsKept, TypeInit, TypeNext, LockInit, LockNext, SegInit, SegNext, HoldInit, HoldNext,
     PTL DEF Spec
<1>3. LockInv /\ HoldInv => NeverWedged
  BY DEF LockInv, SysVAccounted, LockAccounted, HoldInv, Lost, NeverWedged, ParentsUndisturbed
<1> QED BY <1>2, <1>3, PTL

-----------------------------------------------------------------------------
(* How many permits a semaphore can gain.  In the System V build without   *)
(* signals a run posts at most twice, once in each process, and only after *)
(* it took one permit.                                                     *)

\* The labels of a process that may still come to releaseResource(true).
ParentOwes == {"setflag", "fork", "poll", "attach", "copy", "detach", "release"}
ChildOwes == {"start", "stat", "attach", "copy", "detach", "release"}
MayPost(r) == pc[Parent(r)] \in ParentOwes \/ pc[Child(r)] \in ChildOwes

\* The runs that took a permit of semaphore s, those that posted to it, and
\* of these the ones that may post once more.
Takers(s) == {r \in won : sem[r] = s}
Givers(s) == {r \in posted : sem[r] = s}
Twice(s) == {r \in Givers(s) : MayPost(r)}

\* Every taker took one permit; a giver gave one, or two when it may not give
\* any more.
Balance(s) ==
  semVal[s] + Cardinality(Takers(s)) + Cardinality(Twice(s)) <= 1 + 2 * Cardinality(Givers(s))

\* A run initialises its semaphore once, has one when it comes to the lock,
\* forks before it posts, and when it has posted one of its processes is past
\* its post.
Turn(r) ==
  /\ pc[Parent(r)] \in {"shmget", "trywait"} => sem[r] # None
  /\ pc[Parent(r)] \in {"idle", "semget", "semget2", "setval"} => r \notin inited
  /\ pc[Parent(r)] \in Early \cup {"setflag", "fork"} => pc[Child(r)] = "none" /\ r \notin posted
  /\ r \in posted => pc[Parent(r)] \notin ParentOwes \/ pc[Child(r)] \in {"clearflag"} \cup Ended

DriftInv ==
  /\ \A r \in Runs : Turn(r)
  /\ \A s \in Runs \ inited : semVal[s] = 0
  /\ \A r \in won : sem[r] \in inited
  /\ \A s \in inited : Balance(s)

LEMMA DriftInit == Init => DriftInv
BY ProcFacts DEF Init, IpcInit, DriftInv, Turn, Early, ParentOwes

LEMMA RunSets ==
  ASSUME IsFiniteSet(Runs), TypeOK, OnlyWinnersPost, NEW s \in Runs
  PROVE  /\ IsFiniteSet(Takers(s)) /\ IsFiniteSet(Givers(s)) /\ IsFiniteSet(Twice(s))
         /\ Cardinality(Takers(s)) \in Nat /\ Cardinality(Givers(s)) \in Nat
         /\ Cardinality(Twice(s)) \in Nat
         /\ Cardinality(Givers(s)) <= Cardinality(Takers(s))
<1>1. Takers(s) \subseteq Runs /\ Givers(s) \subseteq Takers(s) /\ Twice(s) \subseteq Runs
  BY DEF TypeOK, OnlyWinnersPost, Takers, Givers, Twice
<1>2. IsFiniteSet(Takers(s)) /\ IsFiniteSet(Twice(s))
  BY <1>1, FS_Subset
<1>3. IsFiniteSet(Givers(s)) /\ Cardinality(Givers(s)) <= Cardinality(Takers(s))
  BY <1>1, <1>2, FS_Subset
<1> QED BY <1>2, <1>3, FS_CardinalityType

\* A step that neither takes nor gives a permit and lets nobody give again.
LEMMA BalanceKept ==
  ASSUME IsFiniteSet(Runs), TypeOK, OnlyWinnersPost, NEW s \in Runs, Balance(s),
         Takers(s)' = Takers(s), Givers(s)' = Givers(s), Twice(s)' \subseteq Twice(s),
         semVal'[s] = semVal[s]
  PROVE  Balance(s)'
<1>1. Cardinality(Twice(s)') \in Nat /\ Cardinality(Twice(s)') <= Cardinality(Twice(s))
  BY RunSets, FS_Subset, FS_CardinalityType
<1>2. semVal[s] \in Nat
  BY DEF TypeOK, IpcTypeOK
<1>3. Cardinality(Takers(s)') = Cardinality(Takers(s)) /\ Cardinality(Givers(s)') = Cardinality(Givers(s))
  OBVIOUS
<1> QED BY <1>1, <1>2, <1>3, RunSets DEF Balance

LEMMA DriftQuiet ==
  ASSUME IsFiniteSet(Runs), TypeInv, LockInv, WinInv, DriftInv,
         \A r \in Runs : Turn(r)',
         \A r \in Runs : r \in posted /\ MayPost(r)' => MayPost(r),
         UNCHANGED <<inited, won, posted>>,
         \A r \in won : sem'[r] = sem[r],
         \A s \in Runs : semVal'[s] = semVal[s] \/ (s \notin inited /\ semVal'[s] = 0)
  PROVE  DriftInv'
<1> USE DEF TypeInv
<1>1. ASSUME NEW s \in inited
      PROVE  Balance(s)'
  <2>1. s \in Runs /\ OnlyWinnersPost /\ won \subseteq Runs
    BY DEF TypeOK, IpcTypeOK, WinInv
  <2>2. Takers(s)' = Takers(s) /\ Givers(s)' = Givers(s)
    BY <2>1 DEF Takers, Givers, OnlyWinnersPost
  <2>3. Twice(s)' \subseteq Twice(s)
    BY <2>1, <2>2 DEF Twice, Givers, OnlyWinnersPost
  <2> QED BY <1>1, <2>1, <2>2, <2>3, BalanceKept DEF DriftInv
<1>2. \A s \in Runs \ inited' : semVal'[s] = 0
  BY DEF DriftInv
<1>3. \A r \in won' : sem'[r] \in inited'
  BY DEF DriftInv
<1> QED BY <1>1, <1>2, <1>3 DEF DriftInv

\* A step that moves process p, and from which Turn follows by its labels.
LEMMA TurnMove ==
  ASSUME LockInv, DriftInv, NEW p \in Procs,
         \A q \in Procs \ {p} : pc'[q] = pc[q],
         UNCHANGED <<posted, inited>>,
         \A q \in Runs \ {RunOf(p)} : sem'[q] = sem[q],
         p = Parent(RunOf(p)) =>
           /\ pc'[p] \in {"shmget", "trywait"} => sem'[RunOf(p)] # None
           /\ pc'[p] \in {"idle", "semget", "semget2", "setval"} =>
                pc[p] \in {"idle", "semget", "semget2", "setval"}
           /\ pc'[p] \in Early \cup {"setflag", "fork"} => pc[p] \in Early \cup {"setflag", "fork"}
           /\ pc'[p] \in ParentOwes => pc[p] \in Early \cup ParentOwes,
         p = Child(RunOf(p)) =>
           /\ pc[p] # "none" /\ sem'[RunOf(p)] = sem[RunOf(p)]
           /\ pc[p] \in {"clearflag"} \cup Ended => pc'[p] \in {"clearflag"} \cup Ended
           /\ pc'[p] \in ChildOwes => pc[p] \in ChildOwes
  PROVE  /\ \A r \in Runs : Turn(r)'
         /\ \A r \in Runs : r \in posted /\ MayPost(r)' => MayPost(r)
<1> DEFINE r == RunOf(p)
<1>a. r \in Runs /\ Turn(r)
  BY ProcFacts DEF DriftInv
<1>1. \A q \in Runs \ {r} : pc'[Parent(q)] = pc[Parent(q)] /\ pc'[Child(q)] = pc[Child(q)]
  BY ProcFacts
<1>2. \A q \in Runs \ {r} : Turn(q)' /\ (MayPost(q)' => MayPost(q))
  BY <1>1 DEF Turn, MayPost, DriftInv
<1>3. CASE p = Parent(r)
  <2>1. pc'[Child(r)] = pc[Child(r)]
    BY <1>3, <1>a, ProcFacts
  <2>2. Turn(r)' /\ (r \in posted /\ MayPost(r)' => MayPost(r))
    BY <1>3, <1>a, <2>1 DEF Turn, MayPost
  <2> QED BY <1>2, <2>2
<1>4. CASE p = Child(r)
  <2>1. pc'[Parent(r)] = pc[Parent(r)]
    BY <1>4, <1>a, ProcFacts
  <2>2. Turn(r)' /\ (r \in posted /\ MayPost(r)' => MayPost(r))
    BY <1>4, <1>a, <2>1 DEF Turn, MayPost
  <2> QED BY <1>2, <2>2
<1> QED BY <1>3, <1>4, ProcFacts

LEMMA DriftEarly ==
  ASSUME IsFiniteSet(Runs), ~Posix, TypeInv, LockInv, WinInv, DriftInv, NEW r \in Runs, EarlyStep(r)
  PROVE  DriftInv'
<1> USE DEF TypeInv, TypeOK
<1> DEFINE p == Parent(r)
<1>a. p \in Procs /\ RunOf(p) = r /\ p # Child(r)
  BY ProcFacts
<1>b. r \notin won /\ r \notin posted /\ Turn(r)
  BY EarlyMoves DEF LockInv, DriftInv
<1>1. CASE SemSet(r)
  <2>1. /\ pc[p] = "setval" /\ pc'[p] = "shmget" /\ \A q \in Procs \ {p} : pc'[q] = pc[q]
        /\ inited' = inited \cup {r} /\ UNCHANGED <<won, posted>>
        /\ semVal' = [semVal EXCEPT ![r] = 1] /\ sem' = [sem EXCEPT ![r] = r]
    BY <1>1, <1>a DEF SemSet, SetSemaphore, Goto, PcTypeOK
  <2>2. r \notin inited
    BY <1>b, <2>1 DEF Turn
  <2>3. \A q \in Runs : Turn(q)' /\ (q # r => (MayPost(q)' <=> MayPost(q)))
    <3>1. Turn(r)'
      BY <1>a, <1>b, <2>1, IpcAssumption, ProcFacts DEF Turn, Early, ParentOwes
    <3>2. \A q \in Runs \ {r} : pc'[Parent(q)] = pc[Parent(q)] /\ pc'[Child(q)] = pc[Child(q)]
      BY <2>1, ProcFacts
    <3>3. \A q \in Runs \ {r} : Turn(q)' /\ (MayPost(q)' <=> MayPost(q))
      BY <3>2, <2>1 DEF Turn, MayPost, DriftInv
    <3> QED BY <3>1, <3>3
  <2>4. \A s \in Runs \ inited' : semVal'[s] = 0
    BY <2>1 DEF DriftInv, IpcTypeOK
  <2>5. \A q \in won' : sem'[q] \in inited'
    BY <1>b, <2>1 DEF DriftInv
  <2>6. ASSUME NEW s \in inited'
        PROVE  Balance(s)'
    <3>0. s \in Runs /\ won \subseteq Runs /\ OnlyWinnersPost
      BY <2>1 DEF IpcTypeOK, WinInv
    <3>1. CASE s = r
      <4>1. Takers(s)' = {} /\ Givers(s)' = {} /\ Twice(s)' = {}
        BY <1>b, <2>1, <2>2, <3>0, <3>1 DEF Takers, Givers, Twice, DriftInv, OnlyWinnersPost
      <4>2. semVal'[s] = 1
        BY <2>1, <3>1 DEF IpcTypeOK
      <4>3. Cardinality({}) = 0
        BY FS_EmptySet
      <4> QED BY <4>1, <4>2, <4>3 DEF Balance
    <3>2. CASE s # r
      <4>1. Takers(s)' = Takers(s) /\ Givers(s)' = Givers(s)
        BY <1>b, <2>1, <3>0 DEF Takers, Givers, OnlyWinnersPost
      <4>2. Twice(s)' \subseteq Twice(s)
        BY <1>b, <2>3, <3>0, <4>1 DEF Twice, Givers, OnlyWinnersPost
      <4>3. semVal'[s] = semVal[s] /\ s \in inited
        BY <2>1, <2>6, <3>0, <3>2 DEF IpcTypeOK
      <4> QED BY <3>0, <4>1, <4>2, <4>3, BalanceKept DEF DriftInv
    <3> QED BY <3>1, <3>2
  <2> QED BY <2>3, <2>4, <2>5, <2>6 DEF DriftInv
<1>2. CASE ~SemSet(r)
  <2>1. /\ inited' = inited
        /\ \A s \in Runs : semVal'[s] = semVal[s] \/ (s \notin inited /\ semVal'[s] = 0)
    <3>1. CASE Start(r) \/ NotARepository(r) \/ NoCache(r) \/ SemExists(r) \/ SemSetFails(r) \/ IpcError(r)
      BY <3>1 DEF Start, NotARepository, NoCache, SemExists, SemSetFails, IpcError, ipcVars
    <3>2. CASE CleanShm(r) \/ CleanSem(r) \/ ShmGet(r)
      BY <3>2 DEF CleanShm, CleanSem, deleteSemaphore, ShmGet, semVars
    <3>3. CASE SemCreate(r) \/ SemGet(r)
      <4>1. r \notin inited
        BY <3>3, <1>b DEF SemCreate, SemGet, Turn
      <4> QED BY <3>3, <4>1 DEF SemCreate, SemGet, OpenSemaphore, NewSemaphore, semVars, IpcTypeOK
    <3> QED BY <1>2, <3>1, <3>2, <3>3 DEF EarlyStep
  <2>2. /\ pc'[p] = "setval" => pc[p] = "semget"
        /\ pc'[p] \in {"shmget", "trywait"} =>
             \/ pc[p] = "shmget" /\ sem'[r] = sem[r]
             \/ sem'[r] # None
    BY <1>a, <1>2, IpcAssumption DEF EarlyStep, Start, NotARepository, NoCache, CleanShm, CleanSem, SemCreate, SemExists, SemSet,
               SemSetFails, SemGet, IpcError, ShmGet, Goto, PcTypeOK, FirstLabel,
               OpenSemaphore, NewSemaphore, semVars
  <2>3. /\ UNCHANGED <<won, posted>> /\ \A q \in Runs \ {r} : sem'[q] = sem[q]
        /\ \A q \in Procs \ {p} : pc'[q] = pc[q]
        /\ pc[p] \in Early /\ pc'[p] \in Early \cup {"done", "attach"}
        /\ pc'[p] \in {"idle", "semget", "semget2"} => pc[p] \in {"idle", "semget"}
    BY EarlyMoves
  <2>4. /\ \A q \in Runs : Turn(q)'
        /\ \A q \in Runs : q \in posted /\ MayPost(q)' => MayPost(q)
    <3>1. p # Child(RunOf(p))
      BY <1>a
    <3>2. pc'[p] \in {"shmget", "trywait"} => sem'[r] # None
      BY <1>b, <2>2 DEF Turn
    <3> QED BY <1>a, <2>1, <2>2, <2>3, <3>1, <3>2, TurnMove DEF Early, ParentOwes
  <2> QED BY <1>b, <2>1, <2>3, <2>4, DriftQuiet
<1> QED BY <1>1, <1>2

LEMMA DriftTryWait ==
  ASSUME IsFiniteSet(Runs), ~Posix, TypeInv, LockInv, WinInv, DriftInv, NEW r \in Runs, TryWait(r)
  PROVE  DriftInv'
<1> USE DEF TypeInv, TypeOK, IpcTypeOK
<1> DEFINE p == Parent(r)
           t == sem[r]
<1>a. p \in Procs /\ RunOf(p) = r /\ p # Child(RunOf(p))
  BY ProcFacts
<1>b. /\ pc[p] = "trywait" /\ pc'[p] \in {"setflag", "attach"} /\ \A q \in Procs \ {p} : pc'[q] = pc[q]
      /\ UNCHANGED <<sem, posted, inited>>
  BY <1>a DEF TryWait, DecrementSemaphore, Goto, PcTypeOK
<1>c. r \notin won /\ r \notin posted
  BY <1>b DEF LockInv, Early
<1>1. /\ \A q \in Runs : Turn(q)'
      /\ \A q \in Runs : q \in posted /\ MayPost(q)' => MayPost(q)
  BY <1>a, <1>b, TurnMove DEF Early, ParentOwes
<1>2. CASE ~CanDecrement(t)
  BY <1>1, <1>2, <1>b, DriftQuiet DEF TryWait, DecrementSemaphore
<1>3. CASE CanDecrement(t)
  <2>1. semVal' = [semVal EXCEPT ![t] = @ - 1] /\ won' = won \cup {r} /\ semVal[t] > 0 /\ t = semKey
    BY <1>3 DEF TryWait, DecrementSemaphore, CanDecrement, SemUsable
  <2>2. t \in Runs
    BY <1>b DEF DriftInv, Turn
  <2>3. t \in inited
    BY <2>1, <2>2 DEF DriftInv
  <2>4. \A s \in Runs \ inited' : semVal'[s] = 0
    BY <1>b, <2>1, <2>3 DEF DriftInv
  <2>5. \A q \in won' : sem'[q] \in inited'
    BY <1>b, <2>1, <2>3 DEF DriftInv
  <2>6. ASSUME NEW s \in inited'
        PROVE  Balance(s)'
    <3>0. s \in Runs /\ s \in inited /\ OnlyWinnersPost /\ Balance(s)
      BY <1>b, <2>6 DEF WinInv, DriftInv
    <3>1. Givers(s)' = Givers(s) /\ Twice(s)' \subseteq Twice(s)
      BY <1>1, <1>b DEF Givers, Twice
    <3>2. CASE s # t
      <4>1. Takers(s)' = Takers(s) /\ semVal'[s] = semVal[s]
        BY <1>b, <2>1, <3>2, <3>0 DEF Takers
      <4> QED BY <3>0, <3>1, <4>1, BalanceKept
    <3>3. CASE s = t
      <4>1. Takers(s)' = Takers(s) \cup {r} /\ r \notin Takers(s) /\ semVal'[s] = semVal[s] - 1
        BY <1>b, <1>c, <2>1, <2>2, <3>3 DEF Takers
      <4>2. Cardinality(Takers(s)') = Cardinality(Takers(s)) + 1
        BY <3>0, <4>1, RunSets, FS_AddElement
      <4>3. Cardinality(Twice(s)') \in Nat /\ Cardinality(Twice(s)') <= Cardinality(Twice(s))
        BY <3>0, <3>1, RunSets, FS_Subset, FS_CardinalityType
      <4>4. Cardinality(Givers(s)') = Cardinality(Givers(s)) /\ semVal[s] \in Nat
        BY <3>0, <3>1
      <4> QED BY <3>0, <4>1, <4>2, <4>3, <4>4, RunSets DEF Balance
    <3> QED BY <3>2, <3>3
  <2> QED BY <1>1, <2>4, <2>5, <2>6 DEF DriftInv
<1> QED BY <1>2, <1>3

\* Steps of a process after the lock that post nothing.
LateStep(r) ==
  \/ SetFlag(r) \/ ForkFails(r) \/ PollAlive(r) \/ PollExited(r) \/ PollKilled(r)
  \/ PollFails(r) \/ PollTimeout(r) \/ NoName(r) \/ CopyOut(r)
  \/ ChildStart(r) \/ ChildStat(r) \/ ChildStatFails(r) \/ CopyIn(r)

LEMMA DriftLate ==
  ASSUME IsFiniteSet(Runs), TypeInv, LockInv, WinInv, DriftInv, NEW p \in Procs,
         LateStep(RunOf(p)) \/ Attach(p) \/ CopyFaults(p) \/ Detach(p) \/ ClearFlag(p) \/ Kill(p)
  PROVE  DriftInv'
<1> USE DEF TypeInv, TypeOK
<1>1. PICK q \in Procs :
        /\ \A x \in Procs \ {q} : pc'[x] = pc[x]
        /\ pc[q] # "none" /\ pc'[q] \notin Early
        /\ q = Parent(RunOf(q)) =>
             /\ pc'[q] \in {"setflag", "fork"} => pc[q] \in {"setflag", "fork"}
             /\ pc'[q] \in ParentOwes => pc[q] \in ParentOwes
        /\ q = Child(RunOf(q)) =>
             /\ pc[q] \in {"clearflag"} \cup Ended => pc'[q] \in Ended
             /\ pc'[q] \in ChildOwes => pc[q] \in ChildOwes
  <2>1. CASE SetFlag(RunOf(p)) \/ ForkFails(RunOf(p)) \/ PollAlive(RunOf(p)) \/ PollExited(RunOf(p))
             \/ PollKilled(RunOf(p)) \/ PollFails(RunOf(p)) \/ PollTimeout(RunOf(p)) \/ NoName(RunOf(p))
             \/ CopyOut(RunOf(p))
    <3>1. RunOf(Parent(RunOf(p))) = RunOf(p) /\ Parent(RunOf(p)) # Child(RunOf(p))
      BY ProcFacts
    <3> Parent(RunOf(p)) \in Procs
      BY ProcFacts
    <3> WITNESS Parent(RunOf(p)) \in Procs
    <3> QED BY <2>1, <3>1 DEF SetFlag, ForkFails, PollAlive, PollExited, PollKilled, PollFails, PollTimeout,
               NoName, CopyOut, AfterAccess, Goto, PcTypeOK, Early, ParentOwes
  <2>2. CASE ChildStart(RunOf(p)) \/ ChildStat(RunOf(p)) \/ ChildStatFails(RunOf(p)) \/ CopyIn(RunOf(p))
    <3>1. RunOf(Child(RunOf(p))) = RunOf(p) /\ Parent(RunOf(p)) # Child(RunOf(p))
      BY ProcFacts
    <3> Child(RunOf(p)) \in Procs
      BY ProcFacts
    <3> WITNESS Child(RunOf(p)) \in Procs
    <3> QED BY <2>2, <3>1 DEF ChildStart, ChildStat, ChildStatFails, CopyIn, Goto, PcTypeOK, Early,
               ChildOwes, Ended
  <2>3. CASE Attach(p) \/ CopyFaults(p) \/ Detach(p) \/ ClearFlag(p) \/ Kill(p)
    <3> WITNESS p \in Procs
    <3> QED BY <2>3 DEF Attach, CopyFaults, Detach, ClearFlag, Kill, Live, AfterAccess, Goto, PcTypeOK,
               Early, ParentOwes, ChildOwes, Ended
  <2> QED BY <2>1, <2>2, <2>3 DEF LateStep
<1>2. UNCHANGED <<semVal, inited, sem, won, posted>>
  BY DEF LateStep, SetFlag, ForkFails, PollAlive, PollExited, PollKilled, PollFails, PollTimeout, NoName,
         CopyOut, ChildStart, ChildStat, ChildStatFails, CopyIn, Attach, CopyFaults, Detach, ClearFlag,
         Kill, ipcVars, semVars
<1>3. /\ \A r \in Runs : Turn(r)'
      /\ \A r \in Runs : r \in posted /\ MayPost(r)' => MayPost(r)
  BY <1>1, <1>2, TurnMove DEF Early
<1> QED BY <1>2, <1>3, DriftQuiet

LEMMA DriftFork ==
  ASSUME IsFiniteSet(Runs), TypeInv, LockInv, WinInv, DriftInv, NEW r \in Runs, Fork(r)
  PROVE  DriftInv'
<1> USE DEF TypeInv, TypeOK
<1>1. /\ pc[Parent(r)] = "fork" /\ pc'[Parent(r)] = "poll"
      /\ \A q \in Runs \ {r} : pc'[Parent(q)] = pc[Parent(q)] /\ pc'[Child(q)] = pc[Child(q)]
      /\ UNCHANGED <<semVal, inited, sem, won, posted>>
  BY ProcFacts DEF Fork, PcTypeOK, ipcVars
<1>2. r \notin posted
  BY <1>1 DEF DriftInv, Turn
<1>3. \A q \in Runs : Turn(q)' /\ (q \in posted /\ MayPost(q)' => MayPost(q))
  BY <1>1, <1>2 DEF DriftInv, Turn, MayPost, Early
<1> QED BY <1>1, <1>3, DriftQuiet

\* A post: the first of a run entitles it to a second one, which is its last.
LEMMA DriftPost ==
  ASSUME IsFiniteSet(Runs), ~Posix, TypeInv, LockInv, WinInv, DriftInv, NEW p \in Procs, Release(p)
  PROVE  DriftInv'
<1> USE DEF TypeInv, TypeOK, IpcTypeOK
<1> DEFINE r == RunOf(p)
           t == sem[r]
<1>a. r \in Runs /\ (p = Parent(r) \/ p = Child(r)) /\ Parent(r) # Child(r) /\ Parent(r) \in Procs
  BY ProcFacts
<1>b. /\ pc[p] = "release" /\ pc'[p] = "clearflag" /\ \A q \in Procs \ {p} : pc'[q] = pc[q]
      /\ UNCHANGED <<sem, won, target>> /\ releaseResource(p, TRUE)
  BY DEF Release, Goto, PcTypeOK
<1>c. r \in won /\ t \in inited /\ t \in Runs
  BY <1>a, <1>b DEF WinInv, DriftInv
<1>1. CASE UNCHANGED <<semVars, posted>>
  <2>1. /\ \A q \in Runs : Turn(q)'
        /\ \A q \in Runs : q \in posted /\ MayPost(q)' => MayPost(q)
    BY <1>1, <1>a, <1>b, TurnMove DEF semVars, Early, ParentOwes, ChildOwes, Ended
  <2> QED BY <1>1, <1>b, <2>1, DriftQuiet DEF semVars
<1>2. CASE postSemaphore(t) /\ posted' = posted \cup {r}
  <2>1. /\ inited' = inited /\ semVal'[t] <= semVal[t] + 1 /\ semVal'[t] \in Nat
        /\ \A s \in Runs \ {t} : semVal'[s] = semVal[s]
    BY <1>2, <1>c DEF postSemaphore
  <2>2. \A q \in Runs \ {r} : pc'[Parent(q)] = pc[Parent(q)] /\ pc'[Child(q)] = pc[Child(q)]
    BY <1>a, <1>b, ProcFacts
  <2>3. \A q \in Runs \ {r} : Turn(q)' /\ (MayPost(q)' => MayPost(q))
    BY <1>2, <1>b, <2>1, <2>2 DEF Turn, MayPost, DriftInv
  <2>4. pc[Parent(r)] \notin Early \cup {"setflag", "fork"}
    BY <1>a, <1>b DEF DriftInv, Turn, Early
  <2>5. pc'[Parent(r)] \notin Early \cup {"setflag", "fork"}
    BY <1>a, <1>b, <2>4 DEF Early
  <2>6. pc'[Parent(r)] \notin ParentOwes \/ pc'[Child(r)] \in {"clearflag"} \cup Ended
    BY <1>a, <1>b DEF ParentOwes
  <2>7. Turn(r)'
    BY <2>5, <2>6 DEF Turn, Early
  <2>8. r \in posted => MayPost(r) /\ ~MayPost(r)'
    <3>1. ASSUME r \in posted, p = Parent(r)
          PROVE  MayPost(r) /\ ~MayPost(r)'
      <4>1. pc[Child(r)] \in {"clearflag"} \cup Ended /\ pc'[Child(r)] = pc[Child(r)]
        BY <3>1, <1>a, <1>b, ProcFacts DEF DriftInv, Turn, ParentOwes
      <4> QED BY <3>1, <1>b, <4>1 DEF MayPost, ParentOwes, ChildOwes, Ended
    <3>2. ASSUME r \in posted, p = Child(r)
          PROVE  MayPost(r) /\ ~MayPost(r)'
      <4>1. pc[Parent(r)] \notin ParentOwes /\ pc'[Parent(r)] = pc[Parent(r)]
        BY <3>2, <1>a, <1>b DEF DriftInv, Turn, Ended
      <4> QED BY <3>2, <1>b, <4>1 DEF MayPost, ChildOwes
    <3> QED BY <1>a, <3>1, <3>2
  <2>9. ASSUME NEW s \in inited'
        PROVE  Balance(s)'
    <3>0. s \in Runs /\ OnlyWinnersPost /\ OnlyWinnersPost' /\ Balance(s) /\ Takers(s)' = Takers(s)
      BY <1>2, <1>b, <1>c, <2>1, <2>9 DEF WinInv, DriftInv, OnlyWinnersPost, Takers
    <3>1. CASE s # t
      <4>1. Givers(s)' = Givers(s) /\ semVal'[s] = semVal[s]
        BY <1>2, <1>b, <2>1, <3>0, <3>1 DEF Givers
      <4>2. Twice(s)' \subseteq Twice(s)
        BY <2>3, <3>1, <1>b, <4>1, <3>0 DEF Twice, Givers, OnlyWinnersPost
      <4> QED BY <3>0, <4>1, <4>2, BalanceKept
    <3>2. CASE s = t /\ r \notin posted
      <4>1. Givers(s)' = Givers(s) \cup {r} /\ r \notin Givers(s)
        BY <1>2, <1>b, <3>2 DEF Givers
      <4>2. Twice(s)' \subseteq Twice(s) \cup {r}
        BY <2>3, <1>b, <4>1, <3>0 DEF Twice, Givers, OnlyWinnersPost
      <4>3. Cardinality(Givers(s)') = Cardinality(Givers(s)) + 1
        BY <3>0, <4>1, RunSets, FS_AddElement
      <4>4. IsFiniteSet(Twice(s) \cup {r}) /\ Cardinality(Twice(s) \cup {r}) = Cardinality(Twice(s)) + 1
        <5>1. r \notin Twice(s) /\ IsFiniteSet(Twice(s))
          BY <3>0, <4>1, RunSets DEF Twice
        <5> QED BY <5>1, FS_AddElement
      <4>5. Cardinality(Twice(s)') \in Nat /\ Cardinality(Twice(s)') <= Cardinality(Twice(s)) + 1
        BY <3>0, <4>2, <4>4, RunSets, FS_Subset, FS_CardinalityType
      <4>6. semVal[s] \in Nat /\ semVal'[s] <= semVal[s] + 1 /\ semVal'[s] \in Nat
            /\ Cardinality(Takers(s)') = Cardinality(Takers(s))
        BY <2>1, <3>0, <3>2
      <4> QED BY <3>0, <4>3, <4>5, <4>6, RunSets DEF Balance
    <3>3. CASE s = t /\ r \in posted
      <4>1. Givers(s)' = Givers(s) /\ r \in Twice(s)
        BY <1>2, <1>b, <2>8, <3>3 DEF Givers, Twice
      <4>2. Twice(s)' \subseteq Twice(s) \ {r}
        BY <2>3, <2>8, <3>3, <1>b, <4>1, <3>0 DEF Twice, Givers, OnlyWinnersPost
      <4>3. IsFiniteSet(Twice(s) \ {r}) /\ Cardinality(Twice(s) \ {r}) = Cardinality(Twice(s)) - 1
        BY <3>0, <4>1, RunSets, FS_RemoveElement
      <4>4. Cardinality(Twice(s)') \in Nat /\ Cardinality(Twice(s)') <= Cardinality(Twice(s)) - 1
        BY <3>0, <4>2, <4>3, RunSets, FS_Subset, FS_CardinalityType
      <4>5. semVal[s] \in Nat /\ semVal'[s] <= semVal[s] + 1 /\ semVal'[s] \in Nat
            /\ Cardinality(Takers(s)') = Cardinality(Takers(s))
            /\ Cardinality(Givers(s)') = Cardinality(Givers(s))
        BY <2>1, <3>0, <3>3, <4>1
      <4> QED BY <3>0, <4>4, <4>5, RunSets DEF Balance
    <3> QED BY <3>1, <3>2, <3>3
  <2>10. \A s \in Runs \ inited' : semVal'[s] = 0
    BY <1>c, <2>1 DEF DriftInv
  <2>11. \A q \in won' : sem'[q] \in inited'
    BY <1>b, <2>1 DEF DriftInv
  <2> QED BY <2>3, <2>7, <2>9, <2>10, <2>11 DEF DriftInv
<1> QED BY <1>1, <1>2, <1>b DEF releaseResource

LEMMA DriftNext ==
  ASSUME IsFiniteSet(Runs), ~Posix, SignalTo = {}, TypeInv, LockInv, WinInv, DriftInv, [Next]_vars
  PROVE  DriftInv'
<1>1. CASE UNCHANGED vars
  BY <1>1 DEF vars, ipcVars, DriftInv, Turn, Balance, Takers, Givers, Twice, MayPost
<1>2. ASSUME NEW r \in Runs, ParentStep(r)
      PROVE  DriftInv'
  <2>1. CASE LateStep(r) \/ Attach(Parent(r)) \/ CopyFaults(Parent(r)) \/ Detach(Parent(r)) \/ ClearFlag(Parent(r))
    BY <2>1, DriftLate, ProcFacts
  <2>2. CASE EarlyStep(r) \/ TryWait(r) \/ Fork(r) \/ Release(Parent(r))
    BY <2>2, DriftEarly, DriftTryWait, DriftFork, DriftPost, ProcFacts
  <2> QED BY <1>2, <2>1, <2>2 DEF ParentStep, ProcStep, EarlyStep, LateStep
<1>3. ASSUME NEW r \in Runs, ChildStep(r)
      PROVE  DriftInv'
  <2>1. CASE LateStep(r) \/ Attach(Child(r)) \/ CopyFaults(Child(r)) \/ Detach(Child(r)) \/ ClearFlag(Child(r))
    BY <2>1, DriftLate, ProcFacts
  <2>2. CASE Release(Child(r))
    BY <2>2, DriftPost, ProcFacts
  <2> QED BY <1>3, <2>1, <2>2 DEF ChildStep, ProcStep, LateStep
<1>4. ASSUME NEW p \in Procs, sigHandler(p) \/ Kill(p)
      PROVE  DriftInv'
  BY <1>4, DriftLate DEF sigHandler
<1> QED BY <1>1, <1>2, <1>3, <1>4 DEF Next, Terminating

\* However many runs there are, and whoever is killed or cleans, a semaphore
\* never has more permits than one and those that its runs gave back twice.
THEOREM DriftBounded ==
  ASSUME IsFiniteSet(Runs), ~Posix, SignalTo = {}
  PROVE  Spec => []DriftAtMostOnePerRun
<1>1. TypeInv /\ LockInv /\ WinInv /\ [Next]_vars => WinInv'
  <2>1. CASE UNCHANGED vars
    BY <2>1 DEF vars, WinInv, OnlyWinnersPost
  <2> QED BY <2>1, WinNext
<1>2. Spec => [](TypeInv /\ LockInv /\ WinInv /\ DriftInv)
  BY <1>1, TypeInit, TypeNext, LockInit, LockNext, WinInit, DriftInit, DriftNext, PTL DEF Spec
<1>3. TypeInv /\ WinInv /\ DriftInv => DriftAtMostOnePerRun
  <2> SUFFICES ASSUME TypeInv, WinInv, DriftInv, NEW s \in Runs
               PROVE  semVal[s] <= 1 + Cardinality(Givers(s))
    BY DEF DriftAtMostOnePerRun, Givers
  <2>1. TypeOK /\ OnlyWinnersPost /\ semVal[s] \in Nat
    BY DEF TypeInv, TypeOK, IpcTypeOK, WinInv
  <2>2. CASE s \in inited
    BY <2>1, <2>2, RunSets DEF DriftInv, Balance
  <2>3. CASE s \notin inited
    BY <2>1, <2>3, RunSets DEF DriftInv
  <2> QED BY <2>2, <2>3
<1> QED BY <1>2, <1>3, PTL

-----------------------------------------------------------------------------
(* A crash has a cause: with cleans anywhere, an attach fails only when a  *)
(* limit refuses it or after a clean took the segment of the run away from *)
(* the key, and the key never comes back to a segment it has lost.         *)

\* Process p may fail to attach the segment of its run.
Excused(p) == p \in refused \/ (~Posix /\ shm[RunOf(p)] \in Runs \ {shmKey})

CrashInv ==
  /\ \A r \in Runs : pc[Parent(r)] \in {"idle", "semget", "semget2", "setval", "shmget"} =>
       shmKey # r /\ \A q \in Runs : shm[q] # r
  /\ \A p \in Procs : pc[p] = "crashed" \/ (pc[p] = "copy" /\ addr[p] = BadAddr) => Excused(p)

LEMMA CrashInit == Init => CrashInv
BY ProcFacts, IpcAssumption DEF Init, IpcInit, CrashInv

\* A step that moves process p and gives the key no segment.
LEMMA CrashMove ==
  ASSUME TypeInv, CrashInv, NEW p \in Procs, UNCHANGED shm, shmKey' \in {shmKey, None},
         refused \subseteq refused',
         \A q \in Procs \ {p} : pc'[q] = pc[q] /\ addr'[q] = addr[q],
         pc'[p] \in {"idle", "semget", "semget2", "setval", "shmget"} =>
           pc[p] \in {"idle", "semget", "semget2", "setval", "shmget"},
         pc'[p] = "crashed" \/ (pc'[p] = "copy" /\ addr'[p] = BadAddr) =>
           p \in refused' \/ Excused(p)
  PROVE  CrashInv'
<1>1. ASSUME NEW r \in Runs, pc'[Parent(r)] \in {"idle", "semget", "semget2", "setval", "shmget"}
      PROVE  shmKey' # r /\ \A q \in Runs : shm'[q] # r
  <2>1. pc[Parent(r)] \in {"idle", "semget", "semget2", "setval", "shmget"}
    BY <1>1, ProcFacts
  <2> QED BY <2>1, IpcAssumption DEF CrashInv
<1>2. ASSUME NEW q \in Procs, pc'[q] = "crashed" \/ (pc'[q] = "copy" /\ addr'[q] = BadAddr)
      PROVE  Excused(q)'
  <2>1. q \in refused' \/ Excused(q)
    BY <1>2 DEF CrashInv
  <2> QED BY <2>1, IpcAssumption DEF Excused
<1> QED BY <1>1, <1>2 DEF CrashInv

LEMMA CrashParent ==
  ASSUME TypeInv, LockInv, CrashInv, NEW r \in Runs, ParentStep(r), ~ProcStep(Parent(r))
  PROVE  CrashInv'
<1> USE DEF TypeInv, TypeOK
<1> DEFINE p == Parent(r)
<1>a. p \in Procs /\ p # Child(r) /\ Child(r) \in Procs /\ RunOf(p) = r
  BY ProcFacts
<1>1. CASE ShmGet(r)
  <2>1. /\ pc[p] = "shmget" /\ pc'[p] \in {"attach", "trywait"} /\ \A q \in Procs \ {p} : pc'[q] = pc[q]
        /\ UNCHANGED <<addr, refused>> /\ shmKey' \in {shmKey, r} /\ shm' = [shm EXCEPT ![r] = shmKey']
    BY <1>1, <1>a DEF ShmGet, getOrCreateSharedMemory, Goto, PcTypeOK
  <2>2. shmKey # r /\ \A q \in Runs : shm[q] # r
    BY <2>1 DEF CrashInv
  <2>3. pc[Child(r)] = "none"
    BY <2>1 DEF LockInv, Early
  <2>4. ASSUME NEW q \in Runs, pc'[Parent(q)] \in {"idle", "semget", "semget2", "setval", "shmget"}
        PROVE  shmKey' # q /\ \A x \in Runs : shm'[x] # q
    <3>1. q # r /\ pc'[Parent(q)] = pc[Parent(q)]
      BY <2>1, <2>4, ProcFacts
    <3> QED BY <2>1, <2>4, <3>1 DEF CrashInv
  <2>5. ASSUME NEW q \in Procs, pc'[q] = "crashed" \/ (pc'[q] = "copy" /\ addr'[q] = BadAddr)
        PROVE  Excused(q)'
    <3>1. q # p /\ q # Child(r)
      BY <1>a, <2>1, <2>3, <2>5
    <3>2. RunOf(q) # r /\ RunOf(q) \in Runs
      BY <3>1, ProcFacts
    <3>3. Excused(q)
      BY <2>1, <2>5, <3>1 DEF CrashInv
    <3> QED BY <2>1, <2>2, <3>2, <3>3 DEF Excused
  <2> QED BY <2>4, <2>5 DEF CrashInv
<1>2. CASE Fork(r)
  <2>1. /\ pc[p] = "fork" /\ pc'[p] = "poll" /\ pc'[Child(r)] = "start"
        /\ \A q \in Procs \ {p, Child(r)} : pc'[q] = pc[q]
        /\ UNCHANGED <<shm, shmKey, addr, refused>>
    BY <1>2, <1>a DEF Fork, PcTypeOK, ipcVars
  <2> QED BY <2>1, <1>a, ProcFacts DEF CrashInv, Excused
<1>3. CASE EarlyStep(r) /\ ~ShmGet(r)
  <2>1. UNCHANGED <<shm, addr, refused>> /\ shmKey' \in {shmKey, None}
    BY <1>3 DEF EarlyStep, Start, NotARepository, NoCache, CleanShm, CleanSem, SemCreate, SemExists,
                SemSet, SemSetFails, SemGet, IpcError, deleteSharedMemory, ipcVars, shmVars
  <2>2. /\ \A q \in Procs \ {p} : pc'[q] = pc[q]
        /\ pc'[p] \notin {"crashed", "copy"}
        /\ pc'[p] \in {"idle", "semget", "semget2", "setval", "shmget"} =>
             pc[p] \in {"idle", "semget", "semget2", "setval", "shmget"}
    BY <1>3, <1>a DEF EarlyStep, Start, NotARepository, NoCache, CleanShm, CleanSem, SemCreate, SemExists,
                SemSet, SemSetFails, SemGet, IpcError, FirstLabel, Goto, PcTypeOK
  <2> QED BY <1>a, <2>1, <2>2, CrashMove
<1>4. CASE TryWait(r) \/ SetFlag(r) \/ ForkFails(r) \/ PollAlive(r) \/ PollExited(r)
           \/ PollKilled(r) \/ PollFails(r) \/ PollTimeout(r) \/ NoName(r) \/ CopyOut(r)
  <2>1. /\ pc'[p] \notin {"idle", "semget", "semget2", "setval", "shmget", "crashed", "copy"}
        /\ \A q \in Procs \ {p} : pc'[q] = pc[q]
    BY <1>4, <1>a DEF TryWait, SetFlag, ForkFails, PollAlive, PollExited, PollKilled, PollFails, PollTimeout,
                      NoName, CopyOut, AfterAccess, Goto, PcTypeOK
  <2>2. UNCHANGED <<shm, shmKey, addr, refused>>
    BY <1>4 DEF TryWait, SetFlag, ForkFails, PollAlive, PollExited, PollKilled, PollFails, PollTimeout,
                NoName, CopyOut, ipcVars, shmVars
  <2> QED BY <1>a, <2>1, <2>2, CrashMove
<1> QED BY <1>1, <1>2, <1>3, <1>4 DEF ParentStep, EarlyStep

LEMMA CrashProc ==
  ASSUME TypeInv, CrashInv, NEW p \in Procs, ProcStep(p) \/ sigHandler(p) \/ Kill(p)
  PROVE  CrashInv'
<1> USE DEF TypeInv, TypeOK
<1>1. CASE Attach(p)
  <2>1. /\ pc[p] = "attach" /\ pc'[p] = "copy" /\ \A q \in Procs \ {p} : pc'[q] = pc[q]
        /\ UNCHANGED <<shm, shmKey>> /\ \A q \in Procs \ {p} : addr'[q] = addr[q]
        /\ refused \subseteq refused'
        /\ addr'[p] = BadAddr =>
             p \in refused' \/ shm[RunOf(p)] = BadAddr \/ (~Posix /\ shm[RunOf(p)] # shmKey)
    BY <1>1 DEF Attach, attachSharedMemory, ShmAlive, Goto, PcTypeOK, IpcTypeOK
  <2>2. shm[RunOf(p)] \in Runs
    BY <2>1, ProcFacts DEF DataInv, Guarded
  <2> QED BY <2>1, <2>2, CrashMove, IpcAssumption DEF Excused
<1>2. CASE CopyFaults(p)
  <2>1. /\ pc[p] = "copy" /\ addr[p] = BadAddr /\ pc'[p] = "crashed"
        /\ \A q \in Procs \ {p} : pc'[q] = pc[q] /\ addr'[q] = addr[q]
        /\ UNCHANGED <<shm, shmKey, refused>>
    BY <1>2 DEF CopyFaults, dettachSharedMemory, Goto, PcTypeOK, IpcTypeOK
  <2>2. Excused(p)
    BY <2>1 DEF CrashInv
  <2> QED BY <2>1, <2>2, CrashMove
<1>3. CASE Detach(p) \/ Release(p) \/ ClearFlag(p) \/ sigHandler(p) \/ Kill(p)
  <2>1. /\ pc'[p] \in {"release", "clearflag", "done", "killed"}
        /\ \A q \in Procs \ {p} : pc'[q] = pc[q]
    BY <1>3 DEF Detach, Release, ClearFlag, sigHandler, Kill, AfterAccess, Goto, PcTypeOK
  <2>2. UNCHANGED <<shm, shmKey, refused>> /\ \A q \in Procs \ {p} : addr'[q] = addr[q]
    BY <1>3 DEF Detach, Release, ClearFlag, sigHandler, Kill, dettachSharedMemory, ipcVars, shmVars, IpcTypeOK
  <2> QED BY <2>1, <2>2, CrashMove
<1> QED BY <1>1, <1>2, <1>3 DEF ProcStep

LEMMA CrashNext ==
  ASSUME TypeInv, LockInv, CrashInv, [Next]_vars
  PROVE  CrashInv'
<1>1. ASSUME NEW r \in Runs, ChildStart(r) \/ ChildStat(r) \/ ChildStatFails(r) \/ CopyIn(r)
      PROVE  CrashInv'
  <2>1. /\ pc'[Child(r)] \in {"stat", "attach", "release", "detach"}
        /\ \A q \in Procs \ {Child(r)} : pc'[q] = pc[q]
    BY <1>1, ProcFacts DEF ChildStart, ChildStat, ChildStatFails, CopyIn, Goto, TypeInv, TypeOK, PcTypeOK
  <2>2. UNCHANGED <<shm, shmKey, addr, refused>>
    BY <1>1 DEF ChildStart, ChildStat, ChildStatFails, CopyIn, ipcVars
  <2> QED BY <2>1, <2>2, CrashMove, ProcFacts
<1>2. CASE UNCHANGED vars
  BY <1>2 DEF vars, ipcVars, CrashInv, Excused
<1> QED
  BY <1>1, <1>2, CrashParent, CrashProc, ProcFacts DEF Next, ChildStep, Terminating

\* Under every pattern of cleans, signals, kills and refusals a process dies
\* of an access to shared memory only when it was refused the memory or a
\* clean has taken the key from the segment of its run.
THEOREM CrashExplained == Spec => []CrashHasCause
<1>1. Spec => [](TypeInv /\ LockInv /\ CrashInv)
  BY TypeInit, TypeNext, LockInit, LockNext, CrashInit, CrashNext, PTL DEF Spec
<1>2. CrashInv => CrashHasCause
  BY DEF CrashInv, CrashHasCause, Excused
<1> QED BY <1>1, <1>2, PTL

-----------------------------------------------------------------------------
(* Where nobody cleans and no parent is killed, the semaphore of the key   *)
(* is there to stay, and its creator comes to initialise it.               *)

GotInv ==
  /\ \A r \in Runs : sem[r] \in {None, semKey}
  /\ semKey # None => semKey \in inited \/ pc[Parent(semKey)] = "setval"
  /\ \A r \in Runs : /\ pc[Parent(r)] = "setval" => semKey = r
                     /\ pc[Parent(r)] = "semget2" => semKey # None
                     /\ pc[Parent(r)] \notin {"rmshm", "rmsem"}

LEMMA GotInit == Init => GotInv
BY ProcFacts DEF Init, IpcInit, GotInv

\* A step that leaves the semaphores alone, and that moves no parent out of,
\* or into, the initialisation of one.
LEMMA GotMove ==
  ASSUME GotInv, TypeInv, UNCHANGED <<sem, semKey>>, inited \subseteq inited',
         \A r \in Runs :
           \/ pc'[Parent(r)] = pc[Parent(r)]
           \/ /\ pc[Parent(r)] # "setval"
              /\ pc'[Parent(r)] \notin {"setval", "semget2", "rmshm", "rmsem"}
  PROVE  GotInv'
BY DEF GotInv, TypeInv, TypeOK, IpcTypeOK

LEMMA GotEarly ==
  ASSUME "clean" \notin Modes, TypeInv, GotInv, NEW r \in Runs, EarlyStep(r)
  PROVE  GotInv'
<1> USE DEF TypeInv, TypeOK, IpcTypeOK
<1> DEFINE p == Parent(r)
<1>a. p \in Procs /\ \A q \in Runs \ {r} : Parent(q) \in Procs \ {p}
  BY ProcFacts
<1>b. mode[r] # "clean"
  OBVIOUS
<1>1. CASE SemCreate(r)
  <2>1. /\ semKey = None /\ semKey' = r /\ UNCHANGED <<sem, inited>>
        /\ pc'[p] = "setval" /\ \A q \in Procs \ {p} : pc'[q] = pc[q]
    BY <1>1, <1>a DEF SemCreate, NewSemaphore, Goto, PcTypeOK
  <2> QED BY <1>a, <2>1, IpcAssumption DEF GotInv
<1>2. CASE SemExists(r)
  <2>1. /\ semKey # None /\ UNCHANGED <<sem, inited, semKey>> /\ pc[p] = "semget"
        /\ pc'[p] = "semget2" /\ \A q \in Procs \ {p} : pc'[q] = pc[q]
    BY <1>2, <1>a DEF SemExists, ipcVars, Goto, PcTypeOK
  <2>2. \A q \in Runs : pc'[Parent(q)] = "setval" <=> pc[Parent(q)] = "setval"
    BY <1>a, <2>1
  <2> QED BY <1>a, <2>1, <2>2 DEF GotInv
<1>3. CASE SemSet(r)
  <2>1. /\ pc[p] = "setval" /\ inited' = inited \cup {r} /\ UNCHANGED semKey
        /\ sem' = [sem EXCEPT ![r] = r]
        /\ pc'[p] = "shmget" /\ \A q \in Procs \ {p} : pc'[q] = pc[q]
    BY <1>3, <1>a DEF SemSet, SetSemaphore, Goto, PcTypeOK
  <2>2. semKey = r
    BY <2>1 DEF GotInv
  <2> QED BY <1>a, <2>1, <2>2 DEF GotInv
<1>4. CASE SemGet(r) /\ semKey # None
  <2>1. /\ pc[p] \in {"semget", "semget2"} /\ UNCHANGED <<inited, semKey>>
        /\ sem' = [sem EXCEPT ![r] = semKey]
        /\ pc'[p] = "shmget" /\ \A q \in Procs \ {p} : pc'[q] = pc[q]
    BY <1>4, <1>a DEF SemGet, OpenSemaphore, semVars, Goto, PcTypeOK
  <2>2. \A q \in Runs : pc'[Parent(q)] = "setval" <=> pc[Parent(q)] = "setval"
    BY <1>a, <2>1
  <2> QED BY <1>a, <2>1, <2>2 DEF GotInv
<1>5. CASE SemGet(r) /\ semKey = None
  <2>1. Posix
    BY <1>5 DEF SemGet, GotInv
  <2>2. /\ inited' = inited \cup {r} /\ semKey' = r /\ sem' = [sem EXCEPT ![r] = r]
        /\ pc'[p] = "shmget" /\ \A q \in Procs \ {p} : pc'[q] = pc[q]
    BY <1>5, <1>a, <2>1 DEF SemGet, OpenSemaphore, NewSemaphore, Goto, PcTypeOK
  <2> QED BY <1>5, <1>a, <2>2, IpcAssumption DEF GotInv
<1>6. CASE SemSetFails(r)
  BY <1>6 DEF SemSetFails, GotInv, SemUsable
<1>7. CASE CleanShm(r) \/ CleanSem(r)
  BY <1>7 DEF CleanShm, CleanSem, GotInv
<1>8. CASE Start(r) \/ NotARepository(r) \/ NoCache(r) \/ IpcError(r) \/ ShmGet(r)
  <2>1. /\ pc[p] # "setval" /\ pc'[p] \notin {"setval", "semget2", "rmshm", "rmsem"}
        /\ \A q \in Procs \ {p} : pc'[q] = pc[q]
        /\ UNCHANGED <<sem, semKey, inited>>
    BY <1>8, <1>a, <1>b DEF Start, NotARepository, NoCache, IpcError, ShmGet, FirstLabel, ipcVars, semVars,
                      Goto, PcTypeOK
  <2> QED BY <1>a, <2>1, GotMove
<1> QED BY <1>1, <1>2, <1>3, <1>4, <1>5, <1>6, <1>7, <1>8 DEF EarlyStep

LEMMA GotNext ==
  ASSUME "clean" \notin Modes, "parent" \notin KillTo, TypeInv, GotInv, [Next]_vars
  PROVE  GotInv'
<1> USE DEF TypeInv, TypeOK
<1>1. CASE UNCHANGED vars
  BY <1>1 DEF vars, ipcVars, GotInv
<1>2. ASSUME NEW r \in Runs, ParentStep(r), ~EarlyStep(r)
      PROVE  GotInv'
  <2>1. \A q \in Runs \ {r} : pc'[Parent(q)] = pc[Parent(q)]
    BY <1>2, ProcFacts DEF ParentStep, EarlyStep, ProcStep, TryWait, SetFlag, Fork, ForkFails, PollAlive, PollExited,
       PollKilled, PollFails, PollTimeout, NoName, CopyOut, Attach, CopyFaults, Detach, Release, ClearFlag,
       Goto, PcTypeOK
  <2>2. /\ pc[Parent(r)] # "setval"
        /\ pc'[Parent(r)] \notin {"setval", "semget2", "rmshm", "rmsem"}
    BY <1>2, ProcFacts DEF ParentStep, EarlyStep, ProcStep, TryWait, SetFlag, Fork, ForkFails, PollAlive, PollExited,
       PollKilled, PollFails, PollTimeout, NoName, CopyOut, Attach, CopyFaults, Detach, Release, ClearFlag,
       AfterAccess, Goto, PcTypeOK
  <2>3. UNCHANGED <<sem, semKey, inited>>
    BY <1>2 DEF ParentStep, EarlyStep, ProcStep, TryWait, SetFlag, Fork, ForkFails, PollAlive, PollExited,
       PollKilled, PollFails, PollTimeout, NoName, CopyOut, Attach, CopyFaults, Detach, Release, ClearFlag,
       DecrementSemaphore, releaseResource, postSemaphore, ipcVars, semVars
  <2> QED BY <2>1, <2>2, <2>3, GotMove
<1>3. ASSUME NEW r \in Runs, ChildStep(r)
      PROVE  GotInv'
  <2>1. \A q \in Runs : pc'[Parent(q)] = pc[Parent(q)]
    BY <1>3, ProcFacts DEF ChildStep, ProcStep, ChildStart, ChildStat, ChildStatFails, CopyIn, Attach,
       CopyFaults, Detach, Release, ClearFlag, Goto, PcTypeOK
  <2>2. UNCHANGED <<sem, semKey, inited>>
    BY <1>3 DEF ChildStep, ProcStep, ChildStart, ChildStat, ChildStatFails, CopyIn, Attach,
       CopyFaults, Detach, Release, ClearFlag, releaseResource, postSemaphore, ipcVars, semVars
  <2> QED BY <2>1, <2>2, GotMove
<1>4. ASSUME NEW p \in Procs, sigHandler(p) \/ Kill(p)
      PROVE  GotInv'
  <2>1. /\ pc'[p] \in {"done", "killed"} /\ \A q \in Procs \ {p} : pc'[q] = pc[q]
        /\ p[2] = "parent" => pc[p] \in Guarded
    BY <1>4 DEF sigHandler, Kill, Handles, Goto, PcTypeOK
  <2>2. UNCHANGED <<sem, semKey, inited>>
    BY <1>4 DEF sigHandler, Kill, releaseResource, postSemaphore, semVars
  <2>3. \A r \in Runs : p = Parent(r) => p[2] = "parent"
    BY ProcFacts
  <2> QED BY <2>1, <2>2, <2>3, GotMove, ProcFacts DEF Guarded
<1> QED BY <1>1, <1>2, <1>3, <1>4, GotEarly DEF Next, Terminating

\* sem_open() creates a semaphore with its first value, whoever cleans.
OpenedInv ==
  /\ semKey \in {None} \cup inited
  /\ \A r \in Runs : sem[r] \in {None} \cup inited

LEMMA OpenedNext ==
  ASSUME Posix, TypeInv, OpenedInv, [Next]_vars
  PROVE  OpenedInv'
<1> USE DEF TypeInv, TypeOK
<1>1. CASE UNCHANGED vars
  BY <1>1 DEF vars, ipcVars, OpenedInv
<1>2. ASSUME NEW r \in Runs, EarlyStep(r)
      PROVE  OpenedInv'
  <2>1. CASE SemGet(r)
    <3>1. /\ inited \subseteq inited' /\ semKey' \in inited'
          /\ sem' = [sem EXCEPT ![r] = semKey']
      BY <2>1 DEF SemGet, OpenSemaphore, NewSemaphore, semVars, OpenedInv
    <3> QED BY <3>1 DEF OpenedInv
  <2>2. CASE SemSet(r)
    BY <2>2 DEF SemSet, SetSemaphore, OpenedInv
  <2>3. CASE CleanSem(r)
    BY <2>3 DEF CleanSem, deleteSemaphore, OpenedInv
  <2>4. CASE Start(r) \/ NotARepository(r) \/ NoCache(r) \/ CleanShm(r) \/ SemExists(r)
             \/ SemSetFails(r) \/ IpcError(r) \/ ShmGet(r)
    BY <2>4 DEF Start, NotARepository, NoCache, CleanShm, SemExists, SemSetFails, IpcError, ShmGet,
                ipcVars, semVars, OpenedInv
  <2>5. ~SemCreate(r)
    BY DEF SemCreate
  <2> QED BY <1>2, <2>1, <2>2, <2>3, <2>4, <2>5 DEF EarlyStep
<1>3. ASSUME NEW r \in Runs, (ParentStep(r) /\ ~EarlyStep(r)) \/ ChildStep(r)
      PROVE  OpenedInv'
  BY <1>3 DEF ParentStep, EarlyStep, ProcStep, TryWait, SetFlag, Fork, ForkFails, PollAlive, PollExited,
     PollKilled, PollFails, PollTimeout, NoName, CopyOut, Attach, CopyFaults, Detach, Release, ClearFlag,
     ChildStep, ChildStart, ChildStat, ChildStatFails, CopyIn,
     DecrementSemaphore, releaseResource, postSemaphore, ipcVars, semVars, OpenedInv
<1>4. ASSUME NEW p \in Procs, sigHandler(p) \/ Kill(p)
      PROVE  OpenedInv'
  BY <1>4 DEF sigHandler, Kill, releaseResource, postSemaphore, semVars, OpenedInv
<1> QED BY <1>1, <1>2, <1>3, <1>4 DEF Next, Terminating

\* With creation and initialisation of a semaphore apart, and any number of
\* runs in between, a run uses only one that was or will be initialised: in
\* the System V build where nobody cleans and no parent is killed, in the
\* POSIX build always.
THEOREM GotSemaphore ==
  ASSUME Posix \/ ("clean" \notin Modes /\ "parent" \notin KillTo)
  PROVE  Spec => []GotIsInitialised
<1>1. CASE Posix
  <2>1. Init => OpenedInv
    BY DEF Init, IpcInit, OpenedInv
  <2>2. Spec => [](TypeInv /\ OpenedInv)
    BY <1>1, <2>1, TypeInit, TypeNext, OpenedNext, PTL DEF Spec
  <2>3. OpenedInv => GotIsInitialised
    BY DEF OpenedInv, GotIsInitialised
  <2> QED BY <2>2, <2>3, PTL
<1>2. CASE "clean" \notin Modes /\ "parent" \notin KillTo
  <2>1. Spec => [](TypeInv /\ GotInv)
    BY <1>2, TypeInit, TypeNext, GotInit, GotNext, PTL DEF Spec
  <2>2. GotInv => GotIsInitialised
    BY DEF GotInv, GotIsInitialised
  <2> QED BY <2>1, <2>2, PTL
<1> QED BY <1>1, <1>2

-----------------------------------------------------------------------------
(* Prompts come back.  Liveness is beyond the prover, but not what it rests*)
(* on: a bound on the steps that a parent has left.                        *)

\* The longest way from a label to the end, a cycle of the polling loop apart.
LabelsAhead ==
  [idle |-> 13, semget |-> 12, semget2 |-> 11, setval |-> 11, shmget |-> 10,
   trywait |-> 9, setflag |-> 8, fork |-> 7, poll |-> 6, attach |-> 5, copy |-> 4,
   detach |-> 3, release |-> 2, clearflag |-> 1, rmshm |-> 2, rmsem |-> 1,
   nocache |-> 1, done |-> 0, killed |-> 0, crashed |-> 0]

StepsLeft(r) == LabelsAhead[pc[Parent(r)]] + WaitTime - polls[r]

LEMMA StepsLeftType == TypeInv => \A r \in Runs : StepsLeft(r) \in 0 .. 13 + WaitTime
<1> SUFFICES ASSUME TypeInv, NEW r \in Runs PROVE StepsLeft(r) \in 0 .. 13 + WaitTime
  OBVIOUS
<1>1. pc[Parent(r)] \in ParentLabels /\ polls[r] \in 0 .. WaitTime /\ WaitTime \in Nat
  BY GitPs1Assumption DEF TypeInv, TypeOK, PcTypeOK
<1>2. LabelsAhead[pc[Parent(r)]] \in 0 .. 13
  BY <1>1 DEF ParentLabels, Guarded, Ended, LabelsAhead
<1> HIDE DEF LabelsAhead
<1> QED BY <1>1, <1>2 DEF StepsLeft

\* A step to a label that is nearer to the end.
LEMMA Nearer ==
  ASSUME TypeInv, NEW r \in Runs, NEW from \in ParentLabels, NEW to \in ParentLabels,
         pc[Parent(r)] = from, Goto(Parent(r), to), LabelsAhead[to] < LabelsAhead[from],
         UNCHANGED polls
  PROVE  StepsLeft(r)' < StepsLeft(r)
<1>1. pc'[Parent(r)] = to
  BY ProcFacts DEF Goto, TypeInv, TypeOK, PcTypeOK
<1>2. polls[r] \in Nat /\ WaitTime \in Nat
  BY GitPs1Assumption DEF TypeInv, TypeOK
<1>3. LabelsAhead[from] \in Nat /\ LabelsAhead[to] \in Nat
  BY DEF ParentLabels, Guarded, Ended, LabelsAhead
<1> HIDE DEF LabelsAhead
<1> QED BY <1>1, <1>2, <1>3 DEF StepsLeft

LEMMA ParentAdvances ==
  ASSUME TypeInv, NEW r \in Runs, ParentStep(r)
  PROVE  StepsLeft(r)' < StepsLeft(r)
<1> DEFINE p == Parent(r)
           Down(from, to) == pc[p] = from /\ Goto(p, to) /\ UNCHANGED polls
<1>1. ASSUME NEW from \in ParentLabels, NEW to \in ParentLabels, Down(from, to),
             LabelsAhead[to] < LabelsAhead[from]
      PROVE  StepsLeft(r)' < StepsLeft(r)
  BY <1>1, Nearer
<1>2. CASE PollAlive(r)
  <2>1. pc' = pc /\ polls[r] \in Nat /\ polls'[r] = polls[r] + 1 /\ WaitTime \in Nat
    BY <1>2, GitPs1Assumption DEF PollAlive, TypeInv, TypeOK
  <2>2. LabelsAhead[pc[p]] \in Nat
    BY <1>2 DEF PollAlive, LabelsAhead
  <2> HIDE DEF LabelsAhead
  <2> QED BY <2>1, <2>2 DEF StepsLeft
<1>3. CASE Fork(r)
  <2>1. pc[p] = "fork" /\ pc'[p] = "poll" /\ UNCHANGED polls
    BY <1>3, ProcFacts DEF Fork, TypeInv, TypeOK, PcTypeOK
  <2>2. polls[r] \in Nat /\ WaitTime \in Nat
    BY GitPs1Assumption DEF TypeInv, TypeOK
  <2> QED BY <2>1, <2>2 DEF StepsLeft, LabelsAhead
<1> HIDE DEF Down
<1>4. CASE ParentStep(r) /\ ~PollAlive(r) /\ ~Fork(r)
  <2>1. \E from, to \in ParentLabels : Down(from, to) /\ LabelsAhead[to] < LabelsAhead[from]
    <3>1. CASE Start(r)
      BY <3>1 DEF Start, Down, FirstLabel, ParentLabels, Guarded, Ended, LabelsAhead
    <3>2. CASE NotARepository(r)
      BY <3>2 DEF NotARepository, Down, ParentLabels, Guarded, Ended, LabelsAhead
    <3>3. CASE NoCache(r) \/ CleanShm(r) \/ CleanSem(r)
      BY <3>3 DEF NoCache, CleanShm, CleanSem, Down, ParentLabels, Guarded, Ended, LabelsAhead
    <3>4. CASE SemCreate(r) \/ SemExists(r) \/ SemSet(r) \/ SemSetFails(r)
      BY <3>4 DEF SemCreate, SemExists, SemSet, SemSetFails, Down, ParentLabels, Guarded, Ended, LabelsAhead
    <3>5. CASE SemGet(r)
      BY <3>5 DEF SemGet, Down, ParentLabels, Guarded, Ended, LabelsAhead
    <3>6. CASE IpcError(r)
      BY <3>6 DEF IpcError, Down, ParentLabels, Guarded, Ended, LabelsAhead
    <3>7. CASE ShmGet(r)
      BY <3>7 DEF ShmGet, Down, ParentLabels, Guarded, Ended, LabelsAhead
    <3>8. CASE TryWait(r)
      BY <3>8 DEF TryWait, Down, ParentLabels, Guarded, Ended, LabelsAhead
    <3>9. CASE SetFlag(r) \/ ForkFails(r)
      BY <3>9 DEF SetFlag, ForkFails, Down, ParentLabels, Guarded, Ended, LabelsAhead
    <3>10. CASE PollExited(r) \/ PollKilled(r) \/ PollFails(r) \/ PollTimeout(r)
      BY <3>10 DEF PollExited, PollKilled, PollFails, PollTimeout, Down, ParentLabels, Guarded, Ended, LabelsAhead
    <3>11. CASE NoName(r)
      BY <3>11 DEF NoName, AfterAccess, Down, ParentLabels, Guarded, Ended, LabelsAhead
    <3>12. CASE CopyOut(r)
      BY <3>12 DEF CopyOut, Down, ParentLabels, Guarded, Ended, LabelsAhead
    <3>13. CASE Attach(p) \/ CopyFaults(p)
      BY <3>13 DEF Attach, CopyFaults, Down, ParentLabels, Guarded, Ended, LabelsAhead
    <3>14. CASE Detach(p)
      BY <3>14 DEF Detach, AfterAccess, Down, ParentLabels, Guarded, Ended, LabelsAhead
    <3>15. CASE Release(p)
      <4>1. pc[p] = "release" /\ Goto(p, "clearflag") /\ UNCHANGED polls
        BY <3>15 DEF Release
      <4> QED BY <4>1 DEF Down, ParentLabels, Guarded, Ended, LabelsAhead
    <3>16. CASE ClearFlag(p)
      BY <3>16 DEF ClearFlag, Down, ParentLabels, Guarded, Ended, LabelsAhead
    <3> QED
      BY <1>4, <3>1, <3>2, <3>3, <3>4, <3>5, <3>6, <3>7, <3>8, <3>9, <3>10, <3>11, <3>12, <3>13,
         <3>14, <3>15, <3>16 DEF ParentStep, ProcStep
  <2> QED BY <1>1, <2>1
<1> QED BY <1>2, <1>3, <1>4

\* No other step gives a parent more to do.
LEMMA OthersLeave ==
  ASSUME TypeInv, [Next]_vars, NEW r \in Runs, ~ParentStep(r)
  PROVE  StepsLeft(r)' <= StepsLeft(r)
<1> DEFINE same == pc'[Parent(r)] = pc[Parent(r)] /\ polls'[r] = polls[r]
<1>1. LabelsAhead[pc[Parent(r)]] \in Nat /\ polls[r] \in Nat /\ WaitTime \in Nat
  <2>1. pc[Parent(r)] \in ParentLabels
    BY DEF TypeInv, TypeOK, PcTypeOK
  <2> QED BY <2>1, GitPs1Assumption DEF TypeInv, TypeOK, ParentLabels, Guarded, Ended, LabelsAhead
<1>2. same => StepsLeft(r)' <= StepsLeft(r)
  <2> HIDE DEF LabelsAhead
  <2> QED BY <1>1 DEF StepsLeft
<1> HIDE DEF same
<1>3. ASSUME NEW s \in Runs, s # r, ParentStep(s) PROVE same
  <2>1. Parent(r) # Parent(s) /\ Parent(r) # Child(s) /\ Parent(r) \in Procs
    BY <1>3, ProcFacts
  <2>2. polls'[r] = polls[r]
    BY <1>3 DEF ParentStep, ProcStep, Start, NotARepository, NoCache, CleanShm, CleanSem, SemCreate,
       SemExists, SemSet, SemSetFails, SemGet, IpcError, ShmGet, TryWait, SetFlag, Fork, ForkFails,
       PollAlive, PollExited, PollKilled, PollFails, PollTimeout, NoName, CopyOut, Attach, CopyFaults,
       Detach, Release, ClearFlag, TypeInv, TypeOK
  <2>3. pc'[Parent(r)] = pc[Parent(r)]
    BY <1>3, <2>1 DEF ParentStep, ProcStep, Start, NotARepository, NoCache, CleanShm, CleanSem, SemCreate,
       SemExists, SemSet, SemSetFails, SemGet, IpcError, ShmGet, TryWait, SetFlag, Fork, ForkFails,
       PollAlive, PollExited, PollKilled, PollFails, PollTimeout, NoName, CopyOut, Attach, CopyFaults,
       Detach, Release, ClearFlag, Goto, TypeInv, TypeOK, PcTypeOK
  <2> QED BY <2>2, <2>3 DEF same
<1>4. ASSUME NEW s \in Runs, ChildStep(s) PROVE same
  <2>1. Parent(r) # Child(s) /\ Parent(r) \in Procs
    BY ProcFacts
  <2> QED
    BY <1>4, <2>1 DEF same, ChildStep, ProcStep, ChildStart, ChildStat, ChildStatFails, CopyIn, Attach,
       CopyFaults, Detach, Release, ClearFlag, Goto, TypeInv, TypeOK, PcTypeOK
<1>5. ASSUME NEW q \in Procs, sigHandler(q) \/ Kill(q) PROVE StepsLeft(r)' <= StepsLeft(r)
  <2>1. polls' = polls /\ \E to \in {"done", "killed"} : Goto(q, to)
    BY <1>5 DEF sigHandler, Kill
  <2>2. CASE q # Parent(r)
    <3>1. same
      BY <2>1, <2>2, ProcFacts DEF same, Goto, TypeInv, TypeOK, PcTypeOK
    <3> QED BY <1>2, <3>1
  <2>3. CASE q = Parent(r)
    <3>1. pc'[Parent(r)] \in {"done", "killed"}
      BY <2>1, <2>3, ProcFacts DEF Goto, TypeInv, TypeOK, PcTypeOK
    <3>2. LabelsAhead[pc'[Parent(r)]] = 0
      BY <3>1 DEF LabelsAhead
    <3> HIDE DEF LabelsAhead
    <3> QED BY <1>1, <2>1, <3>2 DEF StepsLeft
  <2> QED BY <2>2, <2>3
<1>6. CASE UNCHANGED vars
  BY <1>2, <1>6 DEF vars, same
<1> QED
  BY <1>2, <1>3, <1>4, <1>5, <1>6 DEF Next, Terminating

\* The parent of a run makes at most 13 + WaitTime steps: each of its steps
\* leaves it fewer of them, and no step of another process, no signal and no
\* clean gives it more. It can neither poll nor retry for ever.
THEOREM PromptIsBounded ==
  Spec => /\ [](\A r \in Runs : StepsLeft(r) \in 0 .. 13 + WaitTime)
          /\ [][\A r \in Runs : /\ ParentStep(r) => StepsLeft(r)' < StepsLeft(r)
                                /\ StepsLeft(r)' <= StepsLeft(r)]_vars
<1>1. Spec => []TypeInv
  BY TypeInit, TypeNext, PTL DEF Spec
<1>0. TypeInv' => (\A r \in Runs : StepsLeft(r) \in 0 .. 13 + WaitTime)'
  BY StepsLeftType, PTL
<1>2. ASSUME TypeInv, [Next]_vars, TypeInv'
      PROVE  [\A r \in Runs : /\ ParentStep(r) => StepsLeft(r)' < StepsLeft(r)
                              /\ StepsLeft(r)' <= StepsLeft(r)]_vars
  <2>1. ASSUME NEW r \in Runs
        PROVE  /\ ParentStep(r) => StepsLeft(r)' < StepsLeft(r)
               /\ StepsLeft(r)' <= StepsLeft(r)
    <3>1. StepsLeft(r) \in Int /\ StepsLeft(r)' \in Int
      <4>1. WaitTime \in Nat
        BY GitPs1Assumption
      <4>2. StepsLeft(r) \in 0 .. 13 + WaitTime
        BY <1>2, StepsLeftType
      <4>3. (StepsLeft(r) \in 0 .. 13 + WaitTime)'
        BY <1>0, <1>2
      <4> QED BY <4>1, <4>2, <4>3
    <3>2. ParentStep(r) => StepsLeft(r)' < StepsLeft(r)
      BY <1>2, ParentAdvances
    <3>3. ~ParentStep(r) => StepsLeft(r)' <= StepsLeft(r)
      BY <1>2, OthersLeave
    <3> QED BY <3>1, <3>2, <3>3
  <2> QED BY <2>1
<1> QED
  BY <1>1, <1>2, StepsLeftType, PTL DEF Spec
=============================================================================
