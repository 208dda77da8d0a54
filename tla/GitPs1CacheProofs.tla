------------------------- MODULE GitPs1CacheProofs -------------------------
(***************************************************************************)
(* A parent whose child was in time shows a status stored meanwhile, for   *)
(* every number of runs and both IPC builds, whoever cleans; and where     *)
(* nobody cleans the steps of GitPs1 are steps of PromptCache.             *)
(***************************************************************************)
EXTENDS GitPs1Proofs, GitPs1Cache

\* The labels of a parent that has not yet copied a status out.
Unanswered == ParentLabels \ ({"detach", "release", "clearflag"} \cup Ended)

\* The labels of a parent that has not come past its fork().
BeforeFork == Early \cup {"setflag", "fork"}

\* A process has no segment attached but that of its run, and only while it
\* accesses it; a parent has nothing to show before it has copied, and a run
\* has no child before its fork().
ViewInv ==
  /\ \A p \in Procs : addr[p] # None =>
       pc[p] \in {"copy", "detach"} /\ addr[p] \in {BadAddr, shm[RunOf(p)]}
  /\ \A r \in Runs : pc[Parent(r)] \in Unanswered => buf[Parent(r)] = None
  /\ \A r \in Runs : pc[Parent(r)] \in BeforeFork => pc[Child(r)] = "none"

LEMMA ViewInit == Init => ViewInv
BY ProcFacts DEF Init, IpcInit, ViewInv

\* A step that moves process p.
LEMMA ViewMove ==
  ASSUME ViewInv, NEW p \in Procs, UNCHANGED shm,
         \A q \in Procs \ {p} : pc'[q] = pc[q] /\ addr'[q] = addr[q] /\ buf'[q] = buf[q],
         addr'[p] # None =>
           pc'[p] \in {"copy", "detach"} /\ addr'[p] \in {BadAddr, shm[RunOf(p)]},
         pc[p] = "none" => pc'[p] = "none",
         p[2] = "parent" /\ pc'[p] \in Unanswered => pc[p] \in Unanswered /\ buf'[p] = buf[p],
         p[2] = "parent" /\ pc'[p] \in BeforeFork => pc[p] \in BeforeFork
  PROVE  ViewInv'
<1>1. ASSUME NEW r \in Runs, pc'[Parent(r)] \in Unanswered
      PROVE  buf'[Parent(r)] = None
  BY <1>1, ProcFacts DEF ViewInv
<1>2. ASSUME NEW r \in Runs, pc'[Parent(r)] \in BeforeFork
      PROVE  pc'[Child(r)] = "none"
  BY <1>2, ProcFacts DEF ViewInv
<1>3. ASSUME NEW q \in Procs, addr'[q] # None
      PROVE  pc'[q] \in {"copy", "detach"} /\ addr'[q] \in {BadAddr, shm'[RunOf(q)]}
  BY <1>3 DEF ViewInv
<1> QED BY <1>1, <1>2, <1>3 DEF ViewInv

LEMMA ViewParent ==
  ASSUME TypeInv, ViewInv, NEW r \in Runs, ParentStep(r), ~ProcStep(Parent(r))
  PROVE  ViewInv'
<1> USE DEF TypeInv, TypeOK
<1> DEFINE p == Parent(r)
<1>a. p \in Procs /\ Child(r) \in Procs /\ p # Child(r) /\ RunOf(p) = r
  BY ProcFacts
<1>b. pc[p] \notin {"copy", "detach"} => addr[p] = None
  BY <1>a DEF ViewInv
<1>1. CASE EarlyStep(r)
  <2>1. /\ pc[p] \in Early /\ pc'[p] \in Early \cup {"done", "attach"}
        /\ \A q \in Procs \ {p} : pc'[q] = pc[q]
    BY <1>1, EarlyMoves
  <2>2. addr[p] = None /\ addr[Child(r)] = None
    BY <1>a, <2>1 DEF ViewInv, Early, BeforeFork
  <2>3. /\ UNCHANGED addr /\ \A q \in Procs \ {p} : buf'[q] = buf[q]
        /\ buf'[p] = buf[p] \/ pc'[p] = "done"
    BY <1>1, <1>a DEF EarlyStep, Start, NotARepository, NoCache, CleanShm, CleanSem, SemCreate, SemExists,
       SemSet, SemSetFails, SemGet, IpcError, ShmGet, getOrCreateSharedMemory, deleteSharedMemory,
       Goto, PcTypeOK, ipcVars, shmVars
  <2>4. pc[p] \in Unanswered /\ pc[p] \in BeforeFork /\ pc[p] # "none"
    BY <2>1, <1>a DEF Unanswered, BeforeFork, ParentLabels, Early, Guarded, Ended
  <2>5. CASE ShmGet(r)
    <3>1. \A q \in Runs \ {r} : shm'[q] = shm[q]
      BY <2>5 DEF ShmGet
    <3>2. \A q \in Procs : RunOf(q) = r => q \in {p, Child(r)}
      BY ProcFacts
    <3>3. ASSUME NEW q \in Procs, addr'[q] # None
          PROVE  pc'[q] \in {"copy", "detach"} /\ addr'[q] \in {BadAddr, shm'[RunOf(q)]}
      <4>1. RunOf(q) \in Runs \ {r} /\ q # p
        BY <2>2, <2>3, <3>2, <3>3, ProcFacts
      <4> QED BY <2>1, <2>3, <3>1, <3>3, <4>1 DEF ViewInv
    <3>4. ASSUME NEW q \in Runs
          PROVE  /\ pc'[Parent(q)] \in Unanswered => buf'[Parent(q)] = None
                 /\ pc'[Parent(q)] \in BeforeFork => pc'[Child(q)] = "none"
      <4>1. CASE q = r
        BY <1>a, <2>1, <2>3, <2>4, <4>1 DEF ViewInv, Unanswered, Ended
      <4>2. CASE q # r
        BY <2>1, <2>3, <4>2, ProcFacts DEF ViewInv
      <4> QED BY <4>1, <4>2
    <3> QED BY <3>3, <3>4 DEF ViewInv
  <2>6. CASE ~ShmGet(r)
    <3>1. UNCHANGED shm
      BY <1>1, <2>6 DEF EarlyStep, Start, NotARepository, NoCache, CleanShm, CleanSem, SemCreate, SemExists,
         SemSet, SemSetFails, SemGet, IpcError
    <3> QED BY <1>a, <2>1, <2>2, <2>3, <2>4, <3>1, ViewMove DEF Unanswered, Ended
  <2> QED BY <2>5, <2>6
<1>2. CASE Fork(r)
  <2>1. /\ pc[p] = "fork" /\ pc'[p] = "poll" /\ pc'[Child(r)] = "start"
        /\ \A q \in Procs \ {p, Child(r)} : pc'[q] = pc[q]
        /\ UNCHANGED <<addr, shm, buf>>
    BY <1>2, <1>a DEF Fork, PcTypeOK, ipcVars
  <2>2. addr[p] = None /\ addr[Child(r)] = None
    BY <1>a, <2>1 DEF ViewInv, BeforeFork
  <2>3. ASSUME NEW q \in Procs, addr'[q] # None
        PROVE  pc'[q] \in {"copy", "detach"} /\ addr'[q] \in {BadAddr, shm'[RunOf(q)]}
    BY <2>1, <2>2, <2>3 DEF ViewInv
  <2>4. \A q \in Runs : pc'[Parent(q)] \in Unanswered => buf'[Parent(q)] = None
    BY <2>1, ProcFacts DEF ViewInv, Unanswered, ParentLabels, Guarded, Ended
  <2>5. \A q \in Runs : pc'[Parent(q)] \in BeforeFork => pc'[Child(q)] = "none"
    BY <2>1, ProcFacts DEF ViewInv, BeforeFork, Early
  <2> QED BY <2>3, <2>4, <2>5 DEF ViewInv
<1>3. CASE TryWait(r) \/ SetFlag(r) \/ ForkFails(r) \/ PollAlive(r) \/ PollExited(r) \/ PollKilled(r)
           \/ PollFails(r) \/ PollTimeout(r) \/ NoName(r)
  <2>1. /\ pc[p] \in {"trywait", "setflag", "fork", "poll", "attach"}
        /\ pc'[p] \in {"setflag", "fork", "poll", "attach", "release", "done"}
        /\ pc'[p] \in {"setflag", "fork"} => pc[p] \in {"trywait", "setflag"}
        /\ \A q \in Procs \ {p} : pc'[q] = pc[q]
    BY <1>3, <1>a DEF TryWait, SetFlag, ForkFails, PollAlive, PollExited, PollKilled, PollFails, PollTimeout,
                      NoName, AfterAccess, Goto, PcTypeOK
  <2>2. UNCHANGED <<addr, shm, buf>>
    BY <1>3 DEF TryWait, SetFlag, ForkFails, PollAlive, PollExited, PollKilled, PollFails, PollTimeout,
                NoName, ipcVars, shmVars
  <2>3. pc[p] \in Unanswered
    BY <2>1 DEF Unanswered, ParentLabels, Guarded, Ended
  <2>4. pc'[p] \in BeforeFork => pc[p] \in BeforeFork
    BY <2>1 DEF BeforeFork, Early
  <2> QED BY <1>a, <1>b, <2>1, <2>2, <2>3, <2>4, ViewMove
<1>4. CASE CopyOut(r)
  <2>1. /\ pc[p] = "copy" /\ pc'[p] = "detach" /\ UNCHANGED <<addr, shm>>
        /\ \A q \in Procs \ {p} : pc'[q] = pc[q] /\ buf'[q] = buf[q]
    BY <1>4, <1>a DEF CopyOut, Goto, PcTypeOK, ipcVars
  <2>2. addr[p] \in {None, BadAddr, shm[r]}
    BY <1>a DEF ViewInv
  <2> QED BY <1>a, <2>1, <2>2, ViewMove DEF Unanswered, BeforeFork, Early
<1> QED BY <1>1, <1>2, <1>3, <1>4 DEF ParentStep, EarlyStep

LEMMA ViewProc ==
  ASSUME TypeInv, ViewInv, NEW p \in Procs, ProcStep(p) \/ sigHandler(p) \/ Kill(p)
  PROVE  ViewInv'
<1> USE DEF TypeInv, TypeOK, IpcTypeOK
<1>a. pc[p] \notin {"copy", "detach"} => addr[p] = None
  BY DEF ViewInv
<1>1. /\ pc[p] # "none" /\ \A q \in Procs \ {p} : pc'[q] = pc[q]
      /\ pc'[p] \in {"copy", "crashed", "release", "done", "clearflag", "killed"}
      /\ pc'[p] = "copy" => pc[p] = "attach"
  BY DEF ProcStep, Attach, CopyFaults, Detach, Release, ClearFlag, sigHandler, Kill, Live, AfterAccess,
         Goto, PcTypeOK
<1>2. /\ UNCHANGED <<shm, buf>> /\ \A q \in Procs \ {p} : addr'[q] = addr[q]
  BY DEF ProcStep, Attach, CopyFaults, Detach, Release, ClearFlag, sigHandler, Kill,
         attachSharedMemory, dettachSharedMemory, ipcVars, shmVars
<1>3. addr'[p] # None => pc'[p] = "copy" /\ addr'[p] \in {BadAddr, shm[RunOf(p)]}
  <2>1. CASE Attach(p)
    BY <2>1 DEF Attach, attachSharedMemory, Goto, PcTypeOK
  <2>2. CASE CopyFaults(p) \/ Detach(p) \/ sigHandler(p) \/ Kill(p)
    BY <2>2 DEF CopyFaults, Detach, sigHandler, Kill, dettachSharedMemory
  <2>3. CASE Release(p) \/ ClearFlag(p)
    BY <1>a, <2>3 DEF Release, ClearFlag, ipcVars, shmVars
  <2> QED BY <2>1, <2>2, <2>3 DEF ProcStep
<1>4. /\ pc'[p] \notin BeforeFork
      /\ pc'[p] \in Unanswered => pc[p] \in Unanswered
  BY <1>1 DEF BeforeFork, Early, Unanswered, ParentLabels, Guarded, Ended
<1> QED BY <1>1, <1>2, <1>3, <1>4, ViewMove

LEMMA ViewNext ==
  ASSUME TypeInv, ViewInv, [Next]_vars
  PROVE  ViewInv'
<1>1. CASE UNCHANGED vars
  BY <1>1 DEF vars, ipcVars, ViewInv
<1>2. ASSUME NEW r \in Runs, ChildStart(r) \/ ChildStat(r) \/ ChildStatFails(r) \/ CopyIn(r)
      PROVE  ViewInv'
  <2> DEFINE p == Child(r)
  <2>a. p \in Procs /\ p[2] = "child" /\ RunOf(p) = r /\ addr[p] \in {None, BadAddr, shm[r]}
    BY ProcFacts DEF ViewInv
  <2>1. /\ pc[p] # "none"
        /\ CopyIn(r) => pc'[p] = "detach"
        /\ CopyIn(r) \/ pc[p] \notin {"copy", "detach"}
        /\ \A q \in Procs \ {p} : pc'[q] = pc[q] /\ buf'[q] = buf[q]
        /\ UNCHANGED <<shm, addr>>
    BY <1>2, <2>a DEF ChildStart, ChildStat, ChildStatFails, CopyIn, Goto, TypeInv, TypeOK, PcTypeOK, ipcVars
  <2>2. addr[p] # None => CopyIn(r)
    BY <2>a, <2>1 DEF ViewInv
  <2> QED BY <2>a, <2>1, <2>2, ViewMove
<1> QED
  BY <1>1, <1>2, ViewParent, ViewProc, ProcFacts DEF Next, ChildStep, Terminating

-----------------------------------------------------------------------------
(* A parent whose child was in time shows what was stored meanwhile.       *)

\* The labels of a parent that does not wait for its child any more.
Waited == ParentLabels \ (BeforeFork \cup {"poll"})

\* The labels of a child that has stored its status, if it has one.
Stored == {"detach", "release", "clearflag", "done"}

\* A child has a status only when it has computed one. While nobody is
\* disturbed, a child that is about to end has stored its status, so that the
\* segment of its run holds something stored since the run started it; and a
\* parent that does not wait has seen its child end or polled to the limit.
RefreshInv ==
  /\ \A r \in Runs : pc[Child(r)] \in {"none", "start", "stat"} => buf[Child(r)] = None
  /\ faults = 0 => \A r \in Runs :
       /\ pc[Child(r)] \in Stored /\ buf[Child(r)] # None => shmVal[shm[r]] \in fresh[r]
       /\ pc[Parent(r)] \in Waited /\ polls[r] < WaitTime => pc[Child(r)] \in {"none"} \cup Ended
  /\ PromptShowsRefresh

LEMMA RefreshInit == Init => RefreshInv
BY ProcFacts DEF Init, RefreshInv, PromptShowsRefresh, Waited, BeforeFork, Early, Stored, Ended

\* What a step of a parent does to segments, children, and other parents.
LEMMA RefreshParentMoves ==
  ASSUME TypeInv, ViewInv, NEW r \in Runs, ParentStep(r), ~Fork(r)
  PROVE  /\ \A q \in Runs : pc'[Child(q)] = pc[Child(q)] /\ buf'[Child(q)] = buf[Child(q)]
         /\ \A q \in Runs \ {r} : /\ pc'[Parent(q)] = pc[Parent(q)] /\ buf'[Parent(q)] = buf[Parent(q)]
                                  /\ polls'[q] = polls[q]
         /\ UNCHANGED <<faults, fresh, shmVal>> /\ polls'[r] \in {polls[r], polls[r] + 1}
         /\ \A q \in Runs : shm'[q] = shm[q] \/ pc[Child(q)] = "none"
         /\ pc'[Parent(r)] \in Waited =>
              \/ pc[Parent(r)] \in Waited
              \/ pc[Child(r)] \in {"none"} \cup Ended
              \/ polls'[r] = WaitTime
<1> USE DEF TypeInv, TypeOK
<1> DEFINE p == Parent(r)
<1>a. p \in Procs /\ \A q \in Runs : Child(q) \in Procs \ {p} /\ (q # r => Parent(q) \in Procs \ {p})
  BY ProcFacts
<1>1. CASE EarlyStep(r)
  <2>1. pc[p] \in Early /\ \A q \in Procs \ {p} : pc'[q] = pc[q]
    BY <1>1, EarlyMoves
  <2>2. /\ UNCHANGED <<faults, polls, fresh, shmVal>> /\ \A q \in Procs \ {p} : buf'[q] = buf[q]
        /\ \A q \in Runs \ {r} : shm'[q] = shm[q]
    BY <1>1 DEF EarlyStep, Start, NotARepository, NoCache, CleanShm, CleanSem, SemCreate, SemExists,
                SemSet, SemSetFails, SemGet, IpcError, ShmGet, getOrCreateSharedMemory, deleteSharedMemory,
                ipcVars, shmVars
  <2>3. pc[Child(r)] = "none"
    BY <2>1 DEF ViewInv, BeforeFork
  <2> QED BY <1>a, <2>1, <2>2, <2>3
<1>2. CASE TryWait(r) \/ SetFlag(r) \/ ForkFails(r)
  <2>1. /\ pc[p] \in {"trywait", "setflag", "fork"} /\ \A q \in Procs \ {p} : pc'[q] = pc[q]
        /\ UNCHANGED <<faults, polls, buf, fresh, shmVal, shm>>
    BY <1>2, <1>a DEF TryWait, SetFlag, ForkFails, Goto, PcTypeOK, ipcVars, shmVars
  <2>2. pc[Child(r)] = "none"
    BY <2>1 DEF ViewInv, BeforeFork, Early
  <2> QED BY <1>a, <2>1, <2>2
<1>3. CASE PollAlive(r)
  <2>1. /\ pc' = pc /\ polls' = [polls EXCEPT ![r] = @ + 1]
        /\ UNCHANGED <<faults, buf, fresh, shmVal, shm>>
    BY <1>3 DEF PollAlive, ipcVars
  <2>2. pc[p] \notin Waited
    BY <1>3 DEF PollAlive, Waited
  <2> QED BY <2>1, <2>2
<1>4. CASE PollExited(r) \/ PollKilled(r) \/ PollFails(r) \/ PollTimeout(r)
  <2>1. /\ \A q \in Procs \ {p} : pc'[q] = pc[q]
        /\ pc[Child(r)] \in Ended \/ polls[r] = WaitTime
        /\ UNCHANGED <<faults, polls, buf, fresh, shmVal, shm>>
    BY <1>4, <1>a DEF PollExited, PollKilled, PollFails, PollTimeout, Goto, PcTypeOK, Ended, ipcVars
  <2> QED BY <1>a, <2>1
<1>5. CASE NoName(r) \/ CopyOut(r) \/ ProcStep(p)
  <2>1. /\ pc[p] \in {"attach", "copy", "detach", "release", "clearflag"}
        /\ \A q \in Procs \ {p} : pc'[q] = pc[q]
    BY <1>5, <1>a DEF NoName, CopyOut, ProcStep, Attach, CopyFaults, Detach, Release, ClearFlag,
                      Goto, PcTypeOK
  <2>2. UNCHANGED <<faults, polls, fresh, shmVal, shm>> /\ \A q \in Procs \ {p} : buf'[q] = buf[q]
    BY <1>5 DEF NoName, CopyOut, ProcStep, Attach, CopyFaults, Detach, Release, ClearFlag,
                attachSharedMemory, dettachSharedMemory, ipcVars, shmVars
  <2>3. pc[p] \in Waited
    BY <2>1 DEF Waited, BeforeFork, ParentLabels, Early, Guarded, Ended
  <2> QED BY <1>a, <2>1, <2>2, <2>3
<1> QED BY <1>1, <1>2, <1>3, <1>4, <1>5 DEF ParentStep, EarlyStep

LEMMA RefreshParent ==
  ASSUME TypeInv, ViewInv, RefreshInv, NEW r \in Runs, ParentStep(r)
  PROVE  RefreshInv'
<1> USE DEF TypeInv, TypeOK
<1>1. CASE Fork(r)
  <2>1. /\ pc'[Parent(r)] = "poll" /\ pc'[Child(r)] = "start" /\ pc[Child(r)] = "none"
        /\ \A q \in Runs \ {r} : pc'[Parent(q)] = pc[Parent(q)] /\ pc'[Child(q)] = pc[Child(q)]
        /\ UNCHANGED <<buf, faults, polls, fresh, shmVal, shm>>
    BY <1>1, ProcFacts DEF Fork, PcTypeOK, ipcVars, shmVars, ViewInv, BeforeFork
  <2>2. PromptShowsRefresh'
    BY <2>1 DEF RefreshInv, PromptShowsRefresh
  <2>3. \A q \in Runs : pc'[Child(q)] \in {"none", "start", "stat"} => buf'[Child(q)] = None
    BY <2>1 DEF RefreshInv
  <2>4. ASSUME faults' = 0, NEW q \in Runs, pc'[Child(q)] \in Stored, buf'[Child(q)] # None
        PROVE  shmVal'[shm'[q]] \in fresh'[q]
    BY <2>1, <2>4 DEF RefreshInv, Stored
  <2>5. ASSUME faults' = 0, NEW q \in Runs, pc'[Parent(q)] \in Waited, polls'[q] < WaitTime
        PROVE  pc'[Child(q)] \in {"none"} \cup Ended
    BY <2>1, <2>5 DEF RefreshInv, Waited
  <2> QED BY <2>2, <2>3, <2>4, <2>5 DEF RefreshInv
<1>2. CASE ~Fork(r)
  <2>1. ASSUME NEW q \in Runs, polls'[q] < WaitTime
        PROVE  polls[q] < WaitTime
    <3>1. polls[q] \in Nat /\ polls'[q] \in {polls[q], polls[q] + 1}
      BY <1>2, RefreshParentMoves
    <3> QED BY <2>1, <3>1, GitPs1Assumption
  <2>2. \A q \in Runs : pc'[Child(q)] \in {"none", "start", "stat"} => buf'[Child(q)] = None
    BY <1>2, RefreshParentMoves DEF RefreshInv
  <2>3. ASSUME faults' = 0, NEW q \in Runs, pc'[Child(q)] \in Stored, buf'[Child(q)] # None
        PROVE  shmVal'[shm'[q]] \in fresh'[q]
    BY <1>2, <2>3, RefreshParentMoves DEF RefreshInv, Stored
  <2>4. ASSUME faults' = 0, NEW q \in Runs, pc'[Parent(q)] \in Waited, polls'[q] < WaitTime
        PROVE  pc'[Child(q)] \in {"none"} \cup Ended
    <3>1. polls[q] < WaitTime /\ polls'[q] # WaitTime
      BY <2>1, <2>4, GitPs1Assumption
    <3> QED BY <1>2, <2>4, <3>1, RefreshParentMoves DEF RefreshInv
  <2>5. ASSUME NEW q \in Runs, pc'[Child(q)] = "done", buf'[Child(q)] # None, polls'[q] < WaitTime, faults' = 0
        PROVE  buf'[Parent(q)] \in fresh'[q] \cup {None}
    <3>1. /\ pc[Child(q)] = "done" /\ buf[Child(q)] # None /\ polls[q] < WaitTime /\ faults = 0
          /\ fresh'[q] = fresh[q]
      BY <1>2, <2>1, <2>5, RefreshParentMoves
    <3>2. buf[Parent(q)] \in fresh[q] \cup {None} /\ shmVal[shm[q]] \in fresh[q]
      BY <3>1 DEF RefreshInv, PromptShowsRefresh, Stored
    <3>3. CASE buf'[Parent(q)] = buf[Parent(q)]
      BY <3>1, <3>2, <3>3
    <3>4. ~NoCache(q)
      BY <3>1 DEF NoCache, ViewInv, BeforeFork, Early
    <3>5. CASE CopyOut(q)
      <4>1. buf'[Parent(q)] = shmVal[addr[Parent(q)]] /\ addr[Parent(q)] = shm[q]
        BY <3>5, ProcFacts DEF CopyOut, DataInv, ViewInv
      <4> QED BY <3>1, <3>2, <4>1
    <3>6. buf'[Parent(q)] = buf[Parent(q)] \/ (q = r /\ (NoCache(q) \/ CopyOut(q)))
      <4>1. CASE q # r
        BY <1>2, <4>1, RefreshParentMoves
      <4>2. CASE q = r
        BY <4>2 DEF ParentStep, ProcStep, Start, NotARepository, CleanShm, CleanSem, SemCreate, SemExists,
             SemSet, SemSetFails, SemGet, IpcError, ShmGet, TryWait, SetFlag, Fork, ForkFails, PollAlive,
             PollExited, PollKilled, PollFails, PollTimeout, NoName, Attach, CopyFaults, Detach, Release,
             ClearFlag
      <4> QED BY <4>1, <4>2
    <3> QED BY <3>3, <3>4, <3>5, <3>6
  <2>6. PromptShowsRefresh'
    BY <2>5 DEF PromptShowsRefresh
  <2> QED BY <2>2, <2>3, <2>4, <2>6 DEF RefreshInv
<1> QED BY <1>1, <1>2

\* A store is fresh for every run that has started its child.
LEMMA RefreshStore ==
  ASSUME TypeInv, ViewInv, NEW r \in Runs, CopyIn(r)
  PROVE  /\ UNCHANGED shm /\ \A q \in Runs : fresh[q] \subseteq fresh'[q]
         /\ shmVal'[shm[r]] \in fresh'[r]
         /\ \A q \in Runs :
              pc[Child(q)] # "none" /\ shmVal[shm[q]] \in fresh[q] => shmVal'[shm[q]] \in fresh'[q]
<1> DEFINE v == buf[Child(r)]
<1>1. addr[Child(r)] = shm[r] /\ shm[r] \in Runs
  BY ProcFacts DEF CopyIn, TypeInv, DataInv, ViewInv
<1>2. /\ shmVal' = [shmVal EXCEPT ![shm[r]] = v] /\ shmVal \in [Runs -> Statuses \cup {Blank}]
      /\ UNCHANGED shm /\ pc[Child(r)] = "copy"
      /\ \A q \in Runs : fresh'[q] = IF pc[Child(q)] = "none" THEN fresh[q] ELSE fresh[q] \cup {v}
  BY <1>1 DEF CopyIn, TypeInv, TypeOK, IpcTypeOK
<1>3. ASSUME NEW q \in Runs, pc[Child(q)] # "none", shmVal[shm[q]] \in fresh[q]
      PROVE  shmVal'[shm[q]] \in fresh'[q]
  <2>1. shm[q] \in Runs
    BY <1>3 DEF TypeInv, DataInv
  <2> QED BY <1>2, <1>3, <2>1
<1> QED BY <1>1, <1>2, <1>3

LEMMA RefreshChild ==
  ASSUME TypeInv, ViewInv, RefreshInv, NEW r \in Runs, ChildStep(r)
  PROVE  RefreshInv'
<1> USE DEF TypeInv, TypeOK
<1> DEFINE p == Child(r)
<1>a. p \in Procs /\ \A q \in Runs : Parent(q) \in Procs \ {p} /\ (q # r => Child(q) \in Procs \ {p})
  BY ProcFacts
<1>1. /\ \A q \in Procs \ {p} : pc'[q] = pc[q] /\ buf'[q] = buf[q]
      /\ UNCHANGED <<faults, polls>>
      /\ pc[p] \notin {"none"} \cup Ended /\ pc'[p] # "none"
  BY <1>a DEF ChildStep, ProcStep, ChildStart, ChildStat, ChildStatFails, CopyIn, Attach, CopyFaults,
              Detach, Release, ClearFlag, AfterAccess, Goto, PcTypeOK, Ended
<1>2. pc'[p] \in {"none", "start", "stat"} => buf'[p] = None
  BY <1>1, <1>a DEF ChildStep, ProcStep, ChildStart, ChildStat, ChildStatFails, CopyIn, Attach, CopyFaults,
              Detach, Release, ClearFlag, AfterAccess, Goto, PcTypeOK, RefreshInv
<1>3. CopyIn(r) \/ UNCHANGED <<shmVal, shm, fresh>>
  BY DEF ChildStep, ProcStep, ChildStart, ChildStat, ChildStatFails, Attach, CopyFaults, Detach, Release,
         ClearFlag, attachSharedMemory, dettachSharedMemory, ipcVars, shmVars
<1>4. ASSUME faults = 0, pc'[p] \in Stored, buf'[p] # None
      PROVE  shmVal'[shm'[r]] \in fresh'[r]
  <2>1. CASE CopyIn(r)
    BY <2>1, RefreshStore
  <2>2. CASE ChildStart(r) \/ ChildStat(r) \/ ChildStatFails(r) \/ Attach(p) \/ CopyFaults(p)
    <3>1. CASE ChildStatFails(r)
      BY <1>4, <3>1, <1>a DEF ChildStatFails, RefreshInv
    <3>2. CASE ~ChildStatFails(r)
      BY <1>4, <2>2, <3>2, <1>a DEF ChildStart, ChildStat, Attach, CopyFaults, Goto, PcTypeOK, Stored
    <3> QED BY <3>1, <3>2
  <2>3. CASE (Detach(p) \/ Release(p) \/ ClearFlag(p)) /\ ~CopyIn(r)
    <3>1. pc[p] \in Stored /\ buf' = buf
      BY <2>3 DEF Detach, Release, ClearFlag, Stored
    <3> QED BY <1>3, <1>4, <2>3, <3>1 DEF RefreshInv
  <2> QED BY <2>1, <2>2, <2>3 DEF ChildStep, ProcStep
<1>5. ~(faults = 0 /\ pc[Parent(r)] \in Waited /\ polls[r] < WaitTime)
  BY <1>1 DEF RefreshInv
<1>6. faults = 0 /\ polls[r] < WaitTime => buf[Parent(r)] = None
  <2>1. pc[Parent(r)] \notin Waited => pc[Parent(r)] \in Unanswered
    BY DEF PcTypeOK, Waited, Unanswered, BeforeFork, Early, Ended, ParentLabels, Guarded
  <2> QED BY <1>5, <2>1 DEF ViewInv
<1>7. ASSUME faults = 0, NEW q \in Runs, pc'[Child(q)] \in Stored, buf'[Child(q)] # None
      PROVE  shmVal'[shm'[q]] \in fresh'[q]
  <2>1. CASE q = r
    BY <1>4, <1>7, <2>1
  <2>2. CASE q # r
    <3>1. pc[Child(q)] \in Stored /\ buf[Child(q)] # None
      BY <1>1, <1>a, <1>7, <2>2
    <3>2. shmVal[shm[q]] \in fresh[q] /\ pc[Child(q)] # "none"
      BY <1>7, <3>1 DEF RefreshInv, Stored
    <3> QED BY <1>3, <3>2, RefreshStore
  <2> QED BY <2>1, <2>2
<1>8. \A q \in Runs : fresh[q] \subseteq fresh'[q]
  BY <1>3, RefreshStore
<1>9. /\ \A q \in Runs \ {r} : pc'[Child(q)] = pc[Child(q)] /\ buf'[Child(q)] = buf[Child(q)]
      /\ \A q \in Runs : pc'[Parent(q)] = pc[Parent(q)] /\ buf'[Parent(q)] = buf[Parent(q)]
  BY <1>1, <1>a
<1>10. PromptShowsRefresh'
  BY <1>1, <1>6, <1>8, <1>9 DEF RefreshInv, PromptShowsRefresh
<1>11. \A q \in Runs : pc'[Child(q)] \in {"none", "start", "stat"} => buf'[Child(q)] = None
  BY <1>2, <1>9 DEF RefreshInv
<1>12. ASSUME faults = 0, NEW q \in Runs, pc'[Parent(q)] \in Waited, polls'[q] < WaitTime
       PROVE  pc'[Child(q)] \in {"none"} \cup Ended
  BY <1>1, <1>5, <1>9, <1>12 DEF RefreshInv
<1> QED BY <1>1, <1>7, <1>10, <1>11, <1>12 DEF RefreshInv

LEMMA RefreshNext ==
  ASSUME TypeInv, ViewInv, RefreshInv, [Next]_vars
  PROVE  RefreshInv'
<1>1. CASE UNCHANGED vars
  BY <1>1 DEF vars, ipcVars, RefreshInv, PromptShowsRefresh
<1>2. ASSUME NEW p \in Procs, sigHandler(p) \/ Kill(p)
      PROVE  RefreshInv'
  <2>1. /\ pc[p] \notin {"none"} /\ pc'[p] \in {"done", "killed"} /\ \A q \in Procs \ {p} : pc'[q] = pc[q]
        /\ buf' = buf /\ faults' = faults + 1
    BY <1>2 DEF sigHandler, Kill, Live, Goto, TypeInv, TypeOK, PcTypeOK
  <2>2. faults' # 0
    BY <2>1, GitPs1Assumption DEF TypeInv, TypeOK
  <2> QED BY <2>1, <2>2, ProcFacts DEF RefreshInv, PromptShowsRefresh
<1> QED BY <1>1, <1>2, RefreshParent, RefreshChild DEF Next, Terminating

\* Undisturbed, a prompt whose child ended in time with a status shows one
\* that was stored after the run had started the child, whatever the other
\* runs do: not the blank of a new segment and not an older status.
THEOREM RefreshIsShown == Spec => []PromptShowsRefresh
<1>1. Spec => [](TypeInv /\ ViewInv /\ RefreshInv)
  BY TypeInit, TypeNext, ViewInit, ViewNext, RefreshInit, RefreshNext, PTL DEF Spec
<1>2. RefreshInv => PromptShowsRefresh
  BY DEF RefreshInv
<1> QED BY <1>1, <1>2, PTL

-----------------------------------------------------------------------------
(* Where nobody cleans there is one cache.                                 *)

\* Every segment but that of the key is unused.
CacheInv == \A m \in Runs : m # shmKey => shmVal[m] = Blank

AllInv == TypeInv /\ SegInv /\ ViewInv /\ CacheInv

\* A step as PromptCache sees it.
CacheStep == Cache!Next \/ UNCHANGED Cache!vars

\* What a process has attached is the segment of the key.
LEMMA OneAddress ==
  ASSUME "clean" \notin Modes, AllInv, NEW p \in Procs, pc[p] = "copy", addr[p] # BadAddr
  PROVE  addr[p] = shmKey /\ shmKey \in Runs
<1>1. shm[RunOf(p)] \in Runs
  BY ProcFacts DEF AllInv, TypeInv, DataInv, Guarded
<1>2. shm[RunOf(p)] = shmKey
  BY <1>1, ProcFacts, IpcAssumption DEF AllInv, SegInv, OneSegment
<1> QED BY <1>1, <1>2 DEF AllInv, TypeInv, DataInv, ViewInv

LEMMA CacheInit == Init => CacheInv /\ Cache!Init
<1> SUFFICES ASSUME Init PROVE CacheInv /\ Cache!Init
  OBVIOUS
<1>1. CacheInv
  BY DEF Init, IpcInit, CacheInv
<1>2. \A r \in Runs : pc[Parent(r)] = "idle" /\ buf[Parent(r)] = None
  BY ProcFacts DEF Init
<1> QED BY <1>1, <1>2 DEF Init, IpcInit, Cache!Init, cachedStatus, runState, answerOf, Ended

\* What a step does to the segment of the key and to what a parent shows.
Untouched == UNCHANGED <<shmKey, shmVal>> /\ \A r \in Runs : buf'[Parent(r)] = buf[Parent(r)]

\* A step that touches neither, and that moves at most one parent, keeps the
\* invariant and ends the run or is invisible.
LEMMA QuietMove ==
  ASSUME AllInv, Untouched, NEW r \in Runs,
         \A q \in Runs \ {r} : pc'[Parent(q)] = pc[Parent(q)],
         pc'[Parent(r)] # pc[Parent(r)] => pc[Parent(r)] \notin Ended
  PROVE  CacheInv' /\ CacheStep
<1>1. CacheInv'
  BY DEF AllInv, CacheInv, Untouched
<1>2. cachedStatus' = cachedStatus /\ answerOf' = answerOf
  BY DEF Untouched, cachedStatus, answerOf
<1>3. CASE pc'[Parent(r)] \in Ended /\ pc[Parent(r)] \notin Ended
  <2>1. \A q \in Runs \ {r} : (pc'[Parent(q)] \in Ended) = (pc[Parent(q)] \in Ended)
    OBVIOUS
  <2>2. runState' = [runState EXCEPT ![r] = "ended"] /\ runState[r] = "asked"
    BY <1>3, <2>1 DEF runState
  <2> QED BY <1>1, <1>2, <2>2 DEF CacheStep, Cache!Next, Cache!Serve, Cache!End
<1>4. CASE ~(pc'[Parent(r)] \in Ended /\ pc[Parent(r)] \notin Ended)
  <2>1. runState' = runState
    BY <1>4 DEF runState
  <2> QED BY <1>1, <1>2, <2>1 DEF CacheStep, Cache!vars
<1> QED BY <1>3, <1>4

LEMMA CacheParent ==
  ASSUME "clean" \notin Modes, AllInv, NEW r \in Runs, ParentStep(r), ~ProcStep(Parent(r))
  PROVE  CacheInv' /\ CacheStep
<1> USE DEF AllInv, TypeInv, TypeOK
<1> DEFINE p == Parent(r)
<1>a. p \in Procs /\ \A q \in Runs \ {r} : Parent(q) \in Procs \ {p}
  BY ProcFacts
<1>1. CASE NoCache(r)
  <2>1. PICK v \in Statuses \cup {None} : buf' = [buf EXCEPT ![p] = v]
    BY <1>1 DEF NoCache
  <2>2. /\ pc[p] = "nocache" /\ pc'[p] = "done" /\ \A q \in Procs \ {p} : pc'[q] = pc[q]
        /\ UNCHANGED <<shmKey, shmVal, addr>>
    BY <1>1, <1>a DEF NoCache, Goto, PcTypeOK, ipcVars
  <2>3. buf[p] = None
    BY <1>a, <2>2 DEF ViewInv, Unanswered, ParentLabels, Guarded, Ended
  <2>4. CacheInv'
    BY <2>2 DEF CacheInv
  <2>5. /\ cachedStatus' = cachedStatus
        /\ runState[r] = "asked" /\ runState' = [runState EXCEPT ![r] = "ended"]
        /\ answerOf[r] = None /\ answerOf' = [answerOf EXCEPT ![r] = v]
    <3>1. cachedStatus' = cachedStatus
      BY <2>2 DEF cachedStatus
    <3>2. runState[r] = "asked" /\ runState' = [runState EXCEPT ![r] = "ended"]
      BY <1>a, <2>2 DEF runState, Ended
    <3>3. buf'[p] = v /\ \A q \in Runs \ {r} : buf'[Parent(q)] = buf[Parent(q)]
      BY <1>a, <2>1
    <3>4. answerOf[r] = None /\ answerOf' = [answerOf EXCEPT ![r] = v]
      BY <2>3, <3>3 DEF answerOf
    <3> QED BY <3>1, <3>2, <3>4
  <2>6. CASE v \in Statuses
    BY <2>4, <2>5, <2>6 DEF CacheStep, Cache!Next, Cache!Serve, Cache!AnswerUncached
  <2>7. CASE v = None
    <3>1. answerOf' = answerOf
      BY <2>5, <2>7 DEF answerOf
    <3> QED BY <2>4, <2>5, <3>1 DEF CacheStep, Cache!Next, Cache!Serve, Cache!End
  <2> QED BY <2>6, <2>7
<1>2. CASE CleanShm(r) \/ CleanSem(r)
  BY <1>2 DEF CleanShm, CleanSem, SegInv, OneSegment
<1>3. CASE ShmGet(r)
  <2>1. /\ pc[p] = "shmget" /\ pc'[p] \in {"attach", "trywait"}
        /\ \A q \in Procs \ {p} : pc'[q] = pc[q]
        /\ UNCHANGED <<buf, shmVal, addr>>
        /\ shmKey' = IF shmKey = None THEN r ELSE shmKey
    BY <1>3, <1>a DEF ShmGet, getOrCreateSharedMemory, Goto, PcTypeOK
  <2>2. CacheInv'
    BY <2>1, IpcAssumption DEF CacheInv
  <2>3. cachedStatus' = cachedStatus
    BY <2>1, IpcAssumption DEF cachedStatus, CacheInv
  <2>4. runState' = runState /\ answerOf' = answerOf
    BY <1>a, <2>1 DEF runState, answerOf, Ended
  <2> QED BY <2>2, <2>3, <2>4 DEF CacheStep, Cache!vars
<1>4. CASE CopyOut(r)
  <2>1. /\ pc[p] = "copy" /\ pc'[p] = "detach" /\ \A q \in Procs \ {p} : pc'[q] = pc[q]
        /\ UNCHANGED <<shmKey, shmVal, addr>>
    BY <1>4, <1>a DEF CopyOut, Goto, PcTypeOK, ipcVars
  <2>2. addr[p] = shmKey /\ shmKey # None
    BY <1>4, <1>a, <2>1, OneAddress, IpcAssumption DEF CopyOut
  <2>3. buf[p] = None
    BY <1>a, <2>1 DEF ViewInv, Unanswered, ParentLabels, Guarded, Ended
  <2>4. buf' = [buf EXCEPT ![p] = shmVal[shmKey]]
    BY <1>4, <2>2 DEF CopyOut
  <2>5. CacheInv'
    BY <2>1 DEF CacheInv
  <2>6. /\ cachedStatus' = cachedStatus /\ cachedStatus = shmVal[shmKey]
        /\ runState' = runState /\ runState[r] = "asked"
        /\ answerOf[r] = None /\ answerOf' = [answerOf EXCEPT ![r] = shmVal[shmKey]]
    BY <1>a, <2>1, <2>2, <2>3, <2>4 DEF cachedStatus, runState, answerOf, Ended
  <2> QED BY <2>5, <2>6 DEF CacheStep, Cache!Next, Cache!Serve, Cache!Answer
<1>5. CASE Start(r) \/ NotARepository(r) \/ SemCreate(r) \/ SemExists(r) \/ SemSet(r)
           \/ SemSetFails(r) \/ SemGet(r) \/ IpcError(r) \/ TryWait(r) \/ SetFlag(r)
  <2>1. /\ \A q \in Procs \ {p} : pc'[q] = pc[q]
        /\ pc[p] \in Unanswered
        /\ UNCHANGED <<shmKey, shmVal, addr, buf>>
    BY <1>5, <1>a DEF Start, NotARepository, SemCreate, SemExists, SemSet, SemSetFails, SemGet, IpcError,
           TryWait, SetFlag, Goto, PcTypeOK, Unanswered, ParentLabels, Guarded, Ended, ipcVars, shmVars
  <2> QED BY <1>a, <2>1, QuietMove DEF Untouched, Unanswered
<1>6. CASE Fork(r) \/ ForkFails(r) \/ PollAlive(r) \/ PollExited(r) \/ PollKilled(r) \/ PollFails(r)
           \/ PollTimeout(r) \/ NoName(r)
  <2>1. /\ \A q \in Runs \ {r} : pc'[Parent(q)] = pc[Parent(q)]
        /\ pc[p] \in Unanswered
        /\ UNCHANGED <<shmKey, shmVal, addr, buf>>
    BY <1>6, ProcFacts DEF Fork, ForkFails, PollAlive, PollExited, PollKilled, PollFails, PollTimeout,
           NoName, Goto, PcTypeOK, Unanswered, ParentLabels, Guarded, Ended, ipcVars
  <2> QED BY <2>1, QuietMove DEF Untouched, Unanswered
<1> QED
  BY <1>1, <1>2, <1>3, <1>4, <1>5, <1>6 DEF ParentStep

LEMMA CacheProc ==
  ASSUME AllInv, NEW p \in Procs, ProcStep(p) \/ sigHandler(p) \/ Kill(p)
  PROVE  CacheInv' /\ CacheStep
<1> USE DEF AllInv, TypeInv, TypeOK
<1> DEFINE r == RunOf(p)
<1>a. r \in Runs /\ (p = Parent(r) \/ p = Child(r))
  BY ProcFacts
<1>1. /\ \A q \in Procs \ {p} : pc'[q] = pc[q]
      /\ pc[p] \notin Ended
      /\ pc'[p] \in {"copy", "crashed", "release", "done", "clearflag", "killed"}
      /\ pc'[p] = "copy" => pc[p] = "attach"
  BY DEF ProcStep, Attach, CopyFaults, Detach, Release, ClearFlag, sigHandler, Kill, Live, AfterAccess,
         Goto, PcTypeOK, Ended
<1>2. UNCHANGED <<shmKey, shmVal, buf>>
  BY DEF ProcStep, Attach, CopyFaults, Detach, Release, ClearFlag, sigHandler, Kill,
         attachSharedMemory, dettachSharedMemory, ipcVars, shmVars
<1>3. \A q \in Runs \ {r} : pc'[Parent(q)] = pc[Parent(q)]
  BY <1>1, <1>a, ProcFacts
<1>4. pc'[Parent(r)] # pc[Parent(r)] => pc[Parent(r)] \notin Ended
  BY <1>1, <1>a, ProcFacts
<1> QED BY <1>a, <1>2, <1>3, <1>4, QuietMove DEF Untouched

LEMMA CacheChild ==
  ASSUME "clean" \notin Modes, AllInv, NEW r \in Runs, ChildStart(r) \/ ChildStat(r) \/ ChildStatFails(r) \/ CopyIn(r)
  PROVE  CacheInv' /\ CacheStep
<1> USE DEF AllInv, TypeInv, TypeOK
<1> DEFINE p == Child(r)
<1>a. p \in Procs /\ \A q \in Runs : Parent(q) \in Procs \ {p}
  BY ProcFacts
<1>1. \A q \in Procs \ {p} : pc'[q] = pc[q] /\ buf'[q] = buf[q]
  BY DEF ChildStart, ChildStat, ChildStatFails, CopyIn, Goto, PcTypeOK
<1>2. CASE ChildStart(r) \/ ChildStat(r) \/ ChildStatFails(r)
  <2>1. UNCHANGED <<shmKey, shmVal, addr>>
    BY <1>2 DEF ChildStart, ChildStat, ChildStatFails, ipcVars
  <2> QED BY <1>a, <1>1, <2>1, QuietMove DEF Untouched
<1>3. CASE CopyIn(r)
  <2>1. addr[p] = shmKey /\ shmKey \in Runs
    BY <1>3, <1>a, OneAddress DEF CopyIn
  <2>2. buf[p] \in Statuses
    BY <1>3 DEF CopyIn, DataInv
  <2>3. shmVal' = [shmVal EXCEPT ![shmKey] = buf[p]] /\ UNCHANGED <<shmKey, addr>>
    BY <1>3, <2>1 DEF CopyIn
  <2>4. CacheInv'
    BY <2>1, <2>3 DEF CacheInv, IpcTypeOK
  <2>5. cachedStatus' \in Statuses /\ runState' = runState /\ answerOf' = answerOf
    BY <1>a, <1>1, <2>1, <2>2, <2>3, IpcAssumption DEF cachedStatus, runState, answerOf, IpcTypeOK
  <2> QED BY <2>4, <2>5 DEF CacheStep, Cache!Next, Cache!Store
<1> QED BY <1>2, <1>3

LEMMA CacheNext ==
  ASSUME "clean" \notin Modes, AllInv, [Next]_vars
  PROVE  CacheInv' /\ CacheStep
<1>1. CASE UNCHANGED vars
  BY <1>1 DEF vars, ipcVars, AllInv, CacheInv, CacheStep, Cache!vars, cachedStatus, runState, answerOf
<1> QED
  BY <1>1, CacheParent, CacheProc, CacheChild, ProcFacts DEF Next, ChildStep, Terminating

\* Every behaviour of the processes is, seen through the segment of the key,
\* a behaviour of one cache that answers each run at most once with the
\* status it holds at that moment.
THEOREM CacheImplemented ==
  ASSUME "clean" \notin Modes
  PROVE  Spec => Cache!Safety
<1>1. Init => AllInv /\ Cache!Init
  BY TypeInit, SegInit, ViewInit, CacheInit DEF AllInv
<1>2. AllInv /\ [Next]_vars => AllInv' /\ CacheStep
  BY SegmentsKept, TypeNext, SegNext, ViewNext, CacheNext DEF AllInv
<1>3. CacheStep => [Cache!Next]_(Cache!vars)
  BY DEF CacheStep
<1> QED BY <1>1, <1>2, <1>3, PTL DEF Spec, Cache!Safety

\* What a caller may rely on. The cache never becomes blank again once it holds
\* a status; a run that has an answer keeps it, and it is the status that was
\* cached at that moment or, of a run without the cache, which ends with it, a
\* computed one; and a run that has ended gets no answer any more.
AnswerRules ==
  /\ cachedStatus # Blank => cachedStatus' # Blank
  /\ \A r \in Runs :
       /\ answerOf[r] # None => answerOf'[r] = answerOf[r]
       /\ answerOf'[r] # answerOf[r] =>
            /\ runState[r] = "asked"
            /\ \/ answerOf'[r] = cachedStatus
               \/ answerOf'[r] \in Statuses /\ runState'[r] = "ended"

\* The processes keep these rules, signals and kills included; that follows
\* from the abstract cache alone.
THEOREM AnswersAreFinal ==
  ASSUME "clean" \notin Modes
  PROVE  Spec => [][AnswerRules]_(Cache!vars)
<1>1. [Cache!Next]_(Cache!vars) => [AnswerRules]_(Cache!vars)
  <2> SUFFICES ASSUME Cache!Next PROVE AnswerRules
    OBVIOUS
  <2>1. answerOf = [r \in Runs |-> buf[Parent(r)]] /\ runState = [r \in Runs |-> runState[r]]
    BY DEF answerOf, runState
  <2> DEFINE a == answerOf
             s == runState
             c == cachedStatus
  <2>t. DOMAIN a = Runs /\ DOMAIN s = Runs
    BY <2>1
  <2>d. AnswerRules <=> /\ c # Blank => c' # Blank
                        /\ \A r \in Runs :
                             /\ a[r] # None => a'[r] = a[r]
                             /\ a'[r] # a[r] => /\ s[r] = "asked"
                                                /\ a'[r] = c \/ (a'[r] \in Statuses /\ s'[r] = "ended")
    BY DEF AnswerRules
  <2>2. CASE Cache!Store
    <3>1. c' \in Statuses /\ a' = a
      BY <2>2 DEF Cache!Store
    <3> HIDE DEF a, s, c
    <3> QED BY <2>d, <3>1, IpcAssumption
  <2>3. ASSUME NEW q \in Runs, Cache!Answer(q) PROVE AnswerRules
    <3>1. s[q] = "asked" /\ a[q] = None /\ a' = [a EXCEPT ![q] = c] /\ c' = c
      BY <2>3 DEF Cache!Answer
    <3> HIDE DEF a, s, c
    <3> QED BY <2>d, <2>t, <3>1
  <2>4. ASSUME NEW q \in Runs, Cache!AnswerUncached(q) PROVE AnswerRules
    <3>1. PICK v \in Statuses : a' = [a EXCEPT ![q] = v]
      BY <2>4 DEF Cache!AnswerUncached
    <3>2. s[q] = "asked" /\ a[q] = None /\ s' = [s EXCEPT ![q] = "ended"] /\ c' = c
      BY <2>4 DEF Cache!AnswerUncached
    <3> HIDE DEF a, s, c
    <3> QED BY <2>d, <2>t, <3>1, <3>2
  <2>5. ASSUME NEW q \in Runs, Cache!End(q) PROVE AnswerRules
    <3>1. a' = a /\ c' = c
      BY <2>5 DEF Cache!End
    <3> HIDE DEF a, s, c
    <3> QED BY <2>d, <3>1
  <2> QED BY <2>2, <2>3, <2>4, <2>5 DEF Cache!Next, Cache!Serve
<1>2. Spec => Cache!Safety
  BY CacheImplemented
<1> QED BY <1>1, <1>2, PTL DEF Cache!Safety

-----------------------------------------------------------------------------
=============================================================================
