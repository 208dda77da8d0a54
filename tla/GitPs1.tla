------------------------------- MODULE GitPs1 -------------------------------
(***************************************************************************)
(* The processes of git-ps1 (native/git-ps1/main.c).  Every prompt starts  *)
(* a run; a run is a parent process and, when it wins the semaphore of its *)
(* repository, a child that computes the status string and stores it in    *)
(* shared memory, while the parent polls for it for a short time and then  *)
(* prints what shared memory holds.  A step of a process is the code from  *)
(* one access of what processes share (semaphore, segment, child status,   *)
(* or a variable that the signal handler reads) to the next.               *)
(***************************************************************************)
EXTENDS Ipc, FiniteSets

CONSTANTS
  Modes,      \* how a run may be invoked
  WaitTime,   \* how often the parent polls before it gives up on its child
  SignalTo,   \* the roles to which SIGINT, SIGHUP or SIGABRT may be sent
  KillTo,     \* the roles that may be killed by a signal without a handler
  MaxFaults   \* a bound: signals and kills in one behaviour

ASSUME GitPs1Assumption ==
  /\ Modes \subseteq {"refresh", "readonly", "clean", "nocache"}
  /\ WaitTime \in Nat /\ MaxFaults \in Nat
  /\ SignalTo \subseteq Roles /\ KillTo \subseteq Roles

VARIABLES
  mode,     \* mode[r]: the command line of run r
  pc,       \* pc[p]: where process p is
  sem,      \* sem[r]: g_semKey, the semaphore run r uses
  shm,      \* shm[r]: g_shmId, the segment run r uses
  flag,     \* flag[p]: g_shouldSemPost in process p
  target,   \* target[p]: g_targetPid in process p, None for 0
  polls,    \* polls[r]: how often the parent found its child alive
  buf,      \* buf[p]: statBuf, what a child stores and what a parent prints
  won,      \* history: the runs whose tryWaitSemaphre() took a permit
  posted,   \* history: the runs that called postSemaphore()
  fresh,    \* history: fresh[r]: what was stored since run r started its child
  faults    \* the signals and kills so far

vars == <<ipcVars, mode, pc, sem, shm, flag, target, polls, buf, won, posted, fresh, faults>>

\* The labels of a parent from the installation of the handlers on.
Guarded == {"trywait", "setflag", "fork", "poll", "attach", "copy", "detach",
            "release", "clearflag"}
Ended == {"done", "killed", "crashed"}
ParentLabels == {"idle", "semget", "semget2", "setval", "shmget", "nocache",
                 "rmshm", "rmsem"} \cup Guarded \cup Ended
ChildLabels == {"none", "start", "stat", "attach", "copy", "detach", "release",
                "clearflag"} \cup Ended

PcTypeOK ==
  /\ pc \in [Procs -> ParentLabels \cup ChildLabels]
  /\ \A r \in Runs : pc[Parent(r)] \in ParentLabels /\ pc[Child(r)] \in ChildLabels

TypeOK ==
  /\ IpcTypeOK
  /\ PcTypeOK
  /\ mode \in [Runs -> Modes]
  /\ sem \in [Runs -> Runs \cup {None}]
  /\ shm \in [Runs -> Runs \cup {None}]
  /\ flag \in [Procs -> BOOLEAN]
  /\ target \in [Procs -> Procs \cup {None}]
  /\ polls \in [Runs -> 0 .. WaitTime]
  /\ buf \in [Procs -> Statuses \cup {Blank, None}]
  /\ won \subseteq Runs
  /\ posted \subseteq Runs
  /\ fresh \in [Runs -> SUBSET Statuses]
  /\ faults \in 0 .. MaxFaults

Init ==
  /\ IpcInit
  /\ mode \in [Runs -> Modes]
  /\ pc = [p \in Procs |-> IF p[2] = "parent" THEN "idle" ELSE "none"]
  /\ sem = [r \in Runs |-> None]
  /\ shm = [r \in Runs |-> None]
  /\ flag = [p \in Procs |-> FALSE]
  /\ target = [p \in Procs |-> None]
  /\ polls = [r \in Runs |-> 0]
  /\ buf = [p \in Procs |-> None]
  /\ won = {}
  /\ posted = {}
  /\ fresh = [r \in Runs |-> {}]
  /\ faults = 0

Goto(p, label) == pc' = [pc EXCEPT ![p] = label]

-----------------------------------------------------------------------------
(* main() up to the IPC objects.                                           *)

FirstLabel(m) ==
  IF m = "nocache" THEN "nocache" ELSE IF m = "clean" THEN "rmshm" ELSE "semget"

Start(r) ==
  /\ pc[Parent(r)] = "idle"
  /\ Goto(Parent(r), FirstLabel(mode[r]))
  /\ UNCHANGED <<ipcVars, mode, sem, shm, flag, target, polls, buf, won, posted, fresh, faults>>

\* chdir(), gitInitialize(), gitGetConfigPath() or createIpcKey() fails.
NotARepository(r) ==
  /\ pc[Parent(r)] = "idle"
  /\ Goto(Parent(r), "done")
  /\ UNCHANGED <<ipcVars, mode, sem, shm, flag, target, polls, buf, won, posted, fresh, faults>>

NoCache(r) ==
  /\ pc[Parent(r)] = "nocache"
  /\ \E v \in Statuses \cup {None} : buf' = [buf EXCEPT ![Parent(r)] = v]
  /\ Goto(Parent(r), "done")
  /\ UNCHANGED <<ipcVars, mode, sem, shm, flag, target, polls, won, posted, fresh, faults>>

CleanShm(r) ==
  /\ pc[Parent(r)] = "rmshm"
  /\ deleteSharedMemory
  /\ Goto(Parent(r), "rmsem")
  /\ UNCHANGED <<semVars, mode, sem, shm, flag, target, polls, buf, won, posted, fresh, faults>>

CleanSem(r) ==
  /\ pc[Parent(r)] = "rmsem"
  /\ deleteSemaphore
  /\ Goto(Parent(r), "done")
  /\ UNCHANGED <<shmVars, mode, sem, shm, flag, target, polls, buf, won, posted, fresh, faults>>

\* Mutant: semctl(SETVAL) is forgotten.
SemCreate_NoSetval(r) ==
  /\ ~Posix
  /\ pc[Parent(r)] = "semget"
  /\ semKey = None
  /\ NewSemaphore(r, 0)
  /\ sem' = [sem EXCEPT ![r] = r]
  /\ Goto(Parent(r), "shmget")
  /\ UNCHANGED <<inited, shmVars, mode, shm, flag, target, polls, buf, won, posted, fresh, faults>>

\* The System V getOrCreateSemaphre() is three system calls: an exclusive
\* semget(), then semctl(SETVAL) if it created, a plain semget() if not.
SemCreate(r) ==
  /\ ~Posix
  /\ pc[Parent(r)] = "semget"
  /\ semKey = None
  /\ NewSemaphore(r, 0)
  /\ Goto(Parent(r), "setval")
  /\ UNCHANGED <<inited, shmVars, mode, sem, shm, flag, target, polls, buf, won, posted, fresh, faults>>

SemExists(r) ==
  /\ ~Posix
  /\ pc[Parent(r)] = "semget"
  /\ semKey # None
  /\ Goto(Parent(r), "semget2")
  /\ UNCHANGED <<ipcVars, mode, sem, shm, flag, target, polls, buf, won, posted, fresh, faults>>

SemSet(r) ==
  /\ pc[Parent(r)] = "setval"
  /\ SemUsable(r)
  /\ SetSemaphore(r)
  /\ sem' = [sem EXCEPT ![r] = r]
  /\ Goto(Parent(r), "shmget")
  /\ UNCHANGED <<shmVars, mode, shm, flag, target, polls, buf, won, posted, fresh, faults>>

SemSetFails(r) ==
  /\ pc[Parent(r)] = "setval"
  /\ ~SemUsable(r)
  /\ Goto(Parent(r), "done")
  /\ UNCHANGED <<ipcVars, mode, sem, shm, flag, target, polls, buf, won, posted, fresh, faults>>

\* The plain semget(), and the whole of the POSIX function.
SemGet(r) ==
  /\ pc[Parent(r)] = IF Posix THEN "semget" ELSE "semget2"
  /\ OpenSemaphore(r)
  /\ sem' = [sem EXCEPT ![r] = semKey']
  /\ Goto(Parent(r), "shmget")
  /\ UNCHANGED <<shmVars, mode, shm, flag, target, polls, buf, won, posted, fresh, faults>>

\* A limit or a permission of the system makes an IPC call fail.
IpcError(r) ==
  /\ pc[Parent(r)] \in {"semget", "semget2", "shmget"}
  /\ Goto(Parent(r), "done")
  /\ UNCHANGED <<ipcVars, mode, sem, shm, flag, target, polls, buf, won, posted, fresh, faults>>

ShmGet(r) ==
  /\ pc[Parent(r)] = "shmget"
  /\ getOrCreateSharedMemory(r)
  /\ shm' = [shm EXCEPT ![r] = shmKey']
  /\ Goto(Parent(r), IF mode[r] = "readonly" THEN "attach" ELSE "trywait")
  /\ UNCHANGED <<semVars, mode, sem, flag, target, polls, buf, won, posted, fresh, faults>>

-----------------------------------------------------------------------------
(* The semaphore, fork() and the polling loop of the parent.               *)

TryWait(r) ==
  /\ pc[Parent(r)] = "trywait"
  /\ DecrementSemaphore(sem[r])
  /\ won' = IF CanDecrement(sem[r]) THEN won \cup {r} ELSE won
  /\ Goto(Parent(r), IF tryWaitSemaphre(sem[r]) THEN "setflag" ELSE "attach")
  /\ UNCHANGED <<shmVars, mode, sem, shm, flag, target, polls, buf, posted, fresh, faults>>

SetFlag(r) ==
  /\ pc[Parent(r)] = "setflag"
  /\ flag' = [flag EXCEPT ![Parent(r)] = TRUE]
  /\ Goto(Parent(r), "fork")
  /\ UNCHANGED <<ipcVars, mode, sem, shm, target, polls, buf, won, posted, fresh, faults>>

\* The child inherits the variables of its parent.
Fork(r) ==
  /\ pc[Parent(r)] = "fork"
  /\ pc' = [pc EXCEPT ![Parent(r)] = "poll", ![Child(r)] = "start"]
  /\ flag' = [flag EXCEPT ![Child(r)] = flag[Parent(r)]]
  /\ target' = [target EXCEPT ![Child(r)] = target[Parent(r)]]
  /\ UNCHANGED <<ipcVars, mode, sem, shm, polls, buf, won, posted, fresh, faults>>

\* Mutant: main() returns when fork() fails.
ForkFails_Returns(r) ==
  /\ pc[Parent(r)] = "fork"
  /\ Goto(Parent(r), "done")
  /\ UNCHANGED <<ipcVars, mode, sem, shm, flag, target, polls, buf, won, posted, fresh, faults>>

ForkFails(r) ==
  /\ pc[Parent(r)] = "fork"
  /\ Goto(Parent(r), "release")
  /\ UNCHANGED <<ipcVars, mode, sem, shm, flag, target, polls, buf, won, posted, fresh, faults>>

\* Mutants: the loop ends at the first child it finds alive, and the loop
\* does not count.
PollAlive_Breaks(r) ==
  /\ pc[Parent(r)] = "poll"
  /\ polls[r] < WaitTime
  /\ pc[Child(r)] \notin Ended
  /\ Goto(Parent(r), "attach")
  /\ UNCHANGED <<ipcVars, mode, sem, shm, flag, target, polls, buf, won, posted, fresh, faults>>

PollAlive_NoCount(r) ==
  /\ pc[Parent(r)] = "poll"
  /\ polls[r] < WaitTime
  /\ pc[Child(r)] \notin Ended
  /\ UNCHANGED vars

\* waitpid() returns 0: sleep and count one more cycle.
PollAlive(r) ==
  /\ pc[Parent(r)] = "poll"
  /\ polls[r] < WaitTime
  /\ pc[Child(r)] \notin Ended
  /\ polls' = [polls EXCEPT ![r] = @ + 1]
  /\ UNCHANGED <<ipcVars, mode, pc, sem, shm, flag, target, buf, won, posted, fresh, faults>>

PollExited(r) ==
  /\ pc[Parent(r)] = "poll"
  /\ polls[r] < WaitTime
  /\ pc[Child(r)] = "done"
  /\ Goto(Parent(r), "attach")
  /\ UNCHANGED <<ipcVars, mode, sem, shm, flag, target, polls, buf, won, posted, fresh, faults>>

\* !WIFEXITED(status): return from onLockAquired() without a prompt.
PollKilled(r) ==
  /\ pc[Parent(r)] = "poll"
  /\ polls[r] < WaitTime
  /\ pc[Child(r)] \in {"killed", "crashed"}
  /\ Goto(Parent(r), "release")
  /\ UNCHANGED <<ipcVars, mode, sem, shm, flag, target, polls, buf, won, posted, fresh, faults>>

\* waitpid() fails with ECHILD: the caller of git-ps1 ignored SIGCHLD, and
\* the child is gone.
PollFails(r) ==
  /\ pc[Parent(r)] = "poll"
  /\ polls[r] < WaitTime
  /\ pc[Child(r)] \in Ended
  /\ Goto(Parent(r), "release")
  /\ UNCHANGED <<ipcVars, mode, sem, shm, flag, target, polls, buf, won, posted, fresh, faults>>

PollTimeout(r) ==
  /\ pc[Parent(r)] = "poll"
  /\ polls[r] = WaitTime
  /\ Goto(Parent(r), "attach")
  /\ UNCHANGED <<ipcVars, mode, sem, shm, flag, target, polls, buf, won, posted, fresh, faults>>

-----------------------------------------------------------------------------
(* The child of onLockAquired().                                           *)

ChildStart(r) ==
  /\ pc[Child(r)] = "start"
  /\ target' = [target EXCEPT ![Child(r)] = Child(r)]
  /\ Goto(Child(r), "stat")
  /\ UNCHANGED <<ipcVars, mode, sem, shm, flag, polls, buf, won, posted, fresh, faults>>

ChildStat(r) ==
  /\ pc[Child(r)] = "stat"
  /\ \E v \in Statuses : buf' = [buf EXCEPT ![Child(r)] = v]
  /\ Goto(Child(r), "attach")
  /\ UNCHANGED <<ipcVars, mode, sem, shm, flag, target, polls, won, posted, fresh, faults>>

ChildStatFails(r) ==
  /\ pc[Child(r)] = "stat"
  /\ Goto(Child(r), "release")
  /\ UNCHANGED <<ipcVars, mode, sem, shm, flag, target, polls, buf, won, posted, fresh, faults>>

-----------------------------------------------------------------------------
(* What both processes run: an access of shared memory (a child writes, a  *)
(* parent reads) and the end of main().                                    *)

\* Mutant: main() posts for a run that found the lock taken as well.
AfterAccess_Posts(p) == "release"

\* Where main() is when onLockAquired() or printPs1() has returned.
AfterAccess(p) == IF flag[p] THEN "release" ELSE "done"

\* printPs1() finds no name to print and returns before it reads.
NoName(r) ==
  /\ pc[Parent(r)] = "attach"
  /\ Goto(Parent(r), AfterAccess(Parent(r)))
  /\ UNCHANGED <<ipcVars, mode, sem, shm, flag, target, polls, buf, won, posted, fresh, faults>>

\* Mutant: the identifier of the semaphore is passed for the segment's.
Attach_WrongId(p) ==
  /\ pc[p] = "attach"
  /\ attachSharedMemory(p, sem[RunOf(p)])
  /\ Goto(p, "copy")
  /\ UNCHANGED <<semVars, mode, sem, shm, flag, target, polls, buf, won, posted, fresh, faults>>

Attach(p) ==
  /\ pc[p] = "attach"
  /\ attachSharedMemory(p, shm[RunOf(p)])
  /\ Goto(p, "copy")
  /\ UNCHANGED <<semVars, mode, sem, shm, flag, target, polls, buf, won, posted, fresh, faults>>

CopyIn(r) ==
  /\ pc[Child(r)] = "copy"
  /\ addr[Child(r)] # BadAddr
  /\ shmVal' = [shmVal EXCEPT ![addr[Child(r)]] = buf[Child(r)]]
  /\ fresh' = [q \in Runs |->
                IF pc[Child(q)] = "none" THEN fresh[q] ELSE fresh[q] \cup {buf[Child(r)]}]
  /\ Goto(Child(r), "detach")
  /\ UNCHANGED <<semVars, shmKey, addr, refused, mode, sem, shm, flag, target, polls, buf, won, posted, faults>>

CopyOut(r) ==
  /\ pc[Parent(r)] = "copy"
  /\ addr[Parent(r)] # BadAddr
  /\ buf' = [buf EXCEPT ![Parent(r)] = shmVal[addr[Parent(r)]]]
  /\ Goto(Parent(r), "detach")
  /\ UNCHANGED <<ipcVars, mode, sem, shm, flag, target, polls, won, posted, fresh, faults>>

\* The test for NULL lets (void *)-1 through to memcpy(): SIGSEGV.
CopyFaults(p) ==
  /\ pc[p] = "copy"
  /\ addr[p] = BadAddr
  /\ dettachSharedMemory(p)
  /\ Goto(p, "crashed")
  /\ UNCHANGED <<semVars, mode, sem, shm, flag, target, polls, buf, won, posted, fresh, faults>>

\* Mutant: the segment is removed when it is detached.
Detach_Removes(p) ==
  /\ pc[p] = "detach"
  /\ addr' = [addr EXCEPT ![p] = None]
  /\ shmKey' = None
  /\ Goto(p, AfterAccess(p))
  /\ UNCHANGED <<semVars, shmVal, refused, mode, sem, shm, flag, target, polls, buf, won, posted, fresh, faults>>

Detach(p) ==
  /\ pc[p] = "detach"
  /\ dettachSharedMemory(p)
  /\ Goto(p, AfterAccess(p))
  /\ UNCHANGED <<semVars, mode, sem, shm, flag, target, polls, buf, won, posted, fresh, faults>>

\* releaseResource(shouldSemPost): only a process that g_targetPid excludes
\* posts nothing.
releaseResource(p, shouldSemPost) ==
  IF shouldSemPost /\ target[p] \in {None, p}
    THEN postSemaphore(sem[RunOf(p)]) /\ posted' = posted \cup {RunOf(p)}
    ELSE UNCHANGED <<semVars, posted>>

Release(p) ==
  /\ pc[p] = "release"
  /\ releaseResource(p, TRUE)
  /\ Goto(p, "clearflag")
  /\ UNCHANGED <<shmVars, mode, sem, shm, flag, target, polls, buf, won, fresh, faults>>

ClearFlag(p) ==
  /\ pc[p] = "clearflag"
  /\ flag' = [flag EXCEPT ![p] = FALSE]
  /\ Goto(p, "done")
  /\ UNCHANGED <<ipcVars, mode, sem, shm, target, polls, buf, won, posted, fresh, faults>>

-----------------------------------------------------------------------------
(* Signals.                                                                *)

Live(p) == pc[p] \notin Ended \cup {"idle", "none"}

\* A refreshing run installs sigHandler() before tryWaitSemaphre().
Handles(p) ==
  /\ mode[RunOf(p)] = "refresh"
  /\ p[2] = "child" \/ pc[p] \in Guarded

\* Mutant: the handler does not post.
sigHandler_NoPost(p) ==
  /\ p[2] \in SignalTo
  /\ faults < MaxFaults
  /\ Live(p) /\ Handles(p)
  /\ releaseResource(p, FALSE)
  /\ dettachSharedMemory(p)
  /\ Goto(p, "done")
  /\ faults' = faults + 1
  /\ UNCHANGED <<mode, sem, shm, flag, target, polls, buf, won, fresh>>

sigHandler(p) ==
  /\ p[2] \in SignalTo
  /\ faults < MaxFaults
  /\ Live(p) /\ Handles(p)
  /\ releaseResource(p, flag[p])
  /\ dettachSharedMemory(p)
  /\ Goto(p, "done")
  /\ faults' = faults + 1
  /\ UNCHANGED <<mode, sem, shm, flag, target, polls, buf, won, fresh>>

Kill(p) ==
  /\ p[2] \in KillTo
  /\ faults < MaxFaults
  /\ Live(p)
  /\ dettachSharedMemory(p)
  /\ Goto(p, "killed")
  /\ faults' = faults + 1
  /\ UNCHANGED <<semVars, mode, sem, shm, flag, target, polls, buf, won, posted, fresh>>

-----------------------------------------------------------------------------
ProcStep(p) ==
  \/ Attach(p) \/ CopyFaults(p) \/ Detach(p)
  \/ Release(p) \/ ClearFlag(p)

ParentStep(r) ==
  \/ Start(r) \/ NotARepository(r) \/ NoCache(r)
  \/ CleanShm(r) \/ CleanSem(r)
  \/ SemCreate(r) \/ SemExists(r) \/ SemSet(r) \/ SemSetFails(r) \/ SemGet(r)
  \/ IpcError(r) \/ ShmGet(r)
  \/ TryWait(r) \/ SetFlag(r) \/ Fork(r) \/ ForkFails(r)
  \/ PollAlive(r) \/ PollExited(r) \/ PollKilled(r) \/ PollFails(r) \/ PollTimeout(r)
  \/ NoName(r) \/ CopyOut(r) \/ ProcStep(Parent(r))

ChildStep(r) ==
  \/ ChildStart(r) \/ ChildStat(r) \/ ChildStatFails(r)
  \/ CopyIn(r) \/ ProcStep(Child(r))

\* Every process has ended, or was never started.
Terminating ==
  /\ \A p \in Procs : pc[p] \in Ended \cup {"none"}
  /\ UNCHANGED vars

Next ==
  \/ \E r \in Runs : ParentStep(r) \/ ChildStep(r)
  \/ \E p \in Procs : sigHandler(p) \/ Kill(p)
  \/ Terminating

Spec == Init /\ [][Next]_vars

\* The parent of run r asks git: gitInitialize() and gitGetConfigPath() at
\* the start, getGitStatString() and getDisplayName() without the cache,
\* getDisplayName() in printPs1() before it attaches the segment.
InGit(r) == pc[Parent(r)] \in {"idle", "nocache", "attach"}

\* The scheduler runs every parent.  Nothing is assumed of what git does:
\* it may take forever, for a parent and for a child.
FairSpec == Spec /\ \A r \in Runs : WF_vars(~InGit(r) /\ ParentStep(r))

-----------------------------------------------------------------------------
(* Safety.                                                                 *)

\* Run r has the permit it took and code before it that gives it back: it is
\* about to set g_shouldSemPost, or has set it and has not come to its post.
Holding(r) ==
  /\ r \in won \ posted
  /\ \/ pc[Parent(r)] = "setflag"
     \/ flag[Parent(r)] /\ pc[Parent(r)] \in {"fork", "poll", "attach", "copy", "detach", "release"}

\* Run r took a permit and ended without giving it back: its parent was
\* killed or crashed, or ended while g_shouldSemPost was not set.
Lost(r) ==
  /\ r \in won \ posted
  /\ pc[Parent(r)] \in {"killed", "crashed"} \/ (pc[Parent(r)] = "done" /\ ~flag[Parent(r)])

\* A semaphore that was initialised, still exists and has no permit left.
Empty(s) == s \in inited /\ SemUsable(s) /\ semVal[s] = 0

\* When the lock of the System V build cannot be taken, some run has the
\* permit and will give it back, or lost it in one of the few ways Lost names:
\* no other schedule of runs, children, signals and cleans leaves the
\* repository locked.  (In the POSIX build the winner never gives it back, see
\* OnlyWinnersFlag.)
LockAccounted ==
  \A s \in Runs : Empty(s) => \E r \in Runs : sem[r] = s /\ (Holding(r) \/ Lost(r))

\* Only children are signalled, killed or refused memory, and nobody cleans,
\* in a System V build: nothing removes the objects or disturbs a parent.
ParentsUndisturbed ==
  /\ ~Posix /\ "clean" \notin Modes
  /\ SignalTo \cup KillTo \cup Limited \subseteq {"child"}

\* Where only children fail, an empty lock is always held by a parent that
\* will give it back, whatever happens to the children.
NeverWedged ==
  \A s \in Runs : Empty(s) => \E r \in Runs : sem[r] = s /\ Holding(r)

\* releaseResource() and the signal handler post only for a run that took a
\* permit: a run which found the lock taken never gives away a permit.
OnlyWinnersPost == posted \subseteq won

\* A run gives back at most one permit more than it took, although parent
\* and child both run the end of main().
DriftAtMostOnePerRun ==
  \A s \in Runs : semVal[s] <= 1 + Cardinality({r \in posted : sem[r] = s})

\* A run uses a semaphore only when somebody gave it its first value, or is
\* about to: getOrCreateSemaphre() "creates/initializes or gets" it.
GotIsInitialised ==
  \A r \in Runs : sem[r] # None =>
    sem[r] \in inited \/ pc[Parent(sem[r])] = "setval"

\* No process dies of an access to shared memory.
NoCrash == \A p \in Procs : pc[p] # "crashed"

\* A process dies of an access to shared memory only when the system refused
\* it the memory or, in the System V build, the segment of its run has lost
\* the key, which only a clean takes away.
CrashHasCause ==
  \A p \in Procs : pc[p] = "crashed" =>
    p \in refused \/ (~Posix /\ shm[RunOf(p)] # shmKey)

\* A process dies of an access to shared memory only when the system refused
\* it the memory.
CrashOnlyRefused == \A p \in Procs : pc[p] = "crashed" => p \in refused

\* A parent whose own child ended in time, with a status and undisturbed,
\* shows a status that was stored after the run had started that child: never
\* the blank of a new segment, never what was cached before.
PromptShowsRefresh ==
  \A r \in Runs :
    /\ pc[Child(r)] = "done" /\ buf[Child(r)] # None /\ polls[r] < WaitTime
    /\ faults = 0
    => buf[Parent(r)] \in fresh[r] \cup {None}

\* At most one child refreshes at a time: what the lock is for.
Refreshing(r) == pc[Child(r)] \in {"start", "stat", "attach", "copy", "detach"}
OneRefresher ==
  \A r1, r2 \in Runs : Refreshing(r1) /\ Refreshing(r2) => r1 = r2

\* tryWaitSemaphre() returns true to exactly the runs that took a permit, so
\* that only they set g_shouldSemPost.
OnlyWinnersFlag == \A r \in Runs : flag[Parent(r)] => r \in won

(* Liveness.                                                               *)

\* The prompt comes back, even when the child never does: every parent ends,
\* unless a git command of its own keeps it for ever.
PromptReturns == \A r \in Runs : <>(pc[Parent(r)] \in Ended) \/ <>[]InGit(r)

\* An empty lock is filled again, even when the child of its holder hangs, if
\* no parent hangs in getDisplayName(), which printPs1() calls before it.
LockComesBack ==
  (\A r \in Runs : []<>(pc[Parent(r)] # "attach"))
    => ((semKey # None /\ semVal[semKey] = 0) ~> (semKey # None /\ semVal[semKey] > 0))

=============================================================================
