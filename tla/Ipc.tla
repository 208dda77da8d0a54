-------------------------------- MODULE Ipc --------------------------------
(***************************************************************************)
(* The inter-process objects of git-ps1 (native/git-ps1/ipc.c): one        *)
(* semaphore and one shared memory segment per IPC key, as the kernel and  *)
(* the functions of ipc.c keep them.  The module models one key, that is,  *)
(* one repository; it offers the functions of ipc.c as action fragments,   *)
(* which module GitPs1 composes into the steps of its processes.           *)
(*                                                                         *)
(* A run creates at most one semaphore and one segment, so an object is    *)
(* identified by the run that created it: identifiers are never reused,    *)
(* as System V identifiers (which carry a sequence number) are not.        *)
(***************************************************************************)
EXTENDS Naturals

CONSTANTS
  Runs,      \* the invocations of git-ps1 for one repository
  None,      \* no object, no process, no value
  BadAddr,   \* the address (void *)-1 of a failed attach
  Blank,     \* the zero-filled contents of a new segment
  Statuses,  \* the status strings getGitStatString() can produce
  Posix,     \* TRUE when built with USE_POSIX_IPC, FALSE for System V
  SemMax,    \* the greatest value of a semaphore (SEMVMX, SEM_VALUE_MAX)
  Limited    \* the roles to which a limit may refuse an attach (ENOMEM, EMFILE)

ASSUME IpcAssumption ==
  /\ None \notin Runs /\ BadAddr \notin Runs /\ BadAddr # None
  /\ Blank \notin Statuses /\ None \notin Statuses /\ Blank # None
  /\ Posix \in BOOLEAN
  /\ SemMax \in Nat \ {0}

Roles == {"parent", "child"}
Procs == Runs \X Roles

ASSUME LimitAssumption == Limited \subseteq Roles

Parent(r) == <<r, "parent">>
Child(r) == <<r, "child">>
RunOf(p) == p[1]

VARIABLES
  semKey,    \* the semaphore the key names, or None
  semVal,    \* semVal[s]: the value of semaphore s
  inited,    \* history: the semaphores that were given their first value, 1
  shmKey,    \* the segment the key names, or None
  shmVal,    \* shmVal[m]: the contents of segment m
  addr,      \* addr[p]: the segment process p has attached, BadAddr or None
  refused    \* history: the processes whose attach met a limit of the system

semVars == <<semKey, semVal, inited>>
shmVars == <<shmKey, shmVal, addr, refused>>
ipcVars == <<semKey, semVal, inited, shmKey, shmVal, addr, refused>>

IpcTypeOK ==
  /\ semKey \in Runs \cup {None}
  /\ semVal \in [Runs -> 0 .. SemMax]
  /\ inited \subseteq Runs
  /\ shmKey \in Runs \cup {None}
  /\ shmVal \in [Runs -> Statuses \cup {Blank}]
  /\ addr \in [Procs -> Runs \cup {BadAddr, None}]
  /\ refused \subseteq Procs

IpcInit ==
  /\ semKey = None
  /\ semVal = [s \in Runs |-> 0]
  /\ inited = {}
  /\ shmKey = None
  /\ shmVal = [m \in Runs |-> Blank]
  /\ addr = [p \in Procs |-> None]
  /\ refused = {}

-----------------------------------------------------------------------------
(* Semaphores.  A System V identifier dies with IPC_RMID; a POSIX handle   *)
(* outlives the name it was opened by.                                     *)

SemUsable(s) == Posix \/ semKey = s

\* A new semaphore of run r gets the key, with value v.
NewSemaphore(r, v) ==
  /\ semKey' = r
  /\ semVal' = [semVal EXCEPT ![r] = v]

\* Mutant: sem_open() without the initial value 1.
OpenSemaphore_Zero(r) ==
  IF semKey # None
    THEN UNCHANGED semVars
    ELSE NewSemaphore(r, 0) /\ UNCHANGED inited

\* semget() without IPC_EXCL, or sem_open(O_CREAT, 0666, 1): the semaphore
\* the key names, else a new one.  Only sem_open() gives it its value 1.
OpenSemaphore(r) ==
  IF semKey # None
    THEN UNCHANGED semVars
    ELSE /\ NewSemaphore(r, IF Posix THEN 1 ELSE 0)
         /\ inited' = IF Posix THEN inited \cup {r} ELSE inited

\* semctl(SETVAL, 1) of a semaphore that still exists.
SetSemaphore(s) ==
  /\ semVal' = [semVal EXCEPT ![s] = 1]
  /\ inited' = inited \cup {s}
  /\ UNCHANGED semKey

\* sem_unlink(), or semctl(IPC_RMID); nothing when there is no semaphore.
deleteSemaphore ==
  /\ semKey' = None
  /\ UNCHANGED <<semVal, inited>>

\* Whether semop(-1, IPC_NOWAIT) or sem_trywait() on s succeeds now.
CanDecrement(s) == SemUsable(s) /\ semVal[s] > 0

\* What tryWaitSemaphre() returns.  The System V build compares the result
\* of semop() with 0; the POSIX build returns the result of sem_trywait(),
\* 0 or -1, converted to bool.
tryWaitSemaphre(s) == IF Posix THEN ~CanDecrement(s) ELSE CanDecrement(s)

\* The effect of tryWaitSemaphre() on the semaphore.
DecrementSemaphore(s) ==
  /\ semVal' = IF CanDecrement(s) THEN [semVal EXCEPT ![s] = @ - 1] ELSE semVal
  /\ UNCHANGED <<semKey, inited>>

\* Mutants: a post without a limit, and a post of two permits.
postSemaphore_NoLimit(s) ==
  /\ semVal' = IF SemUsable(s) THEN [semVal EXCEPT ![s] = @ + 1] ELSE semVal
  /\ UNCHANGED <<semKey, inited>>

postSemaphore_Two(s) ==
  /\ semVal' = IF SemUsable(s) /\ semVal[s] + 2 <= SemMax
                 THEN [semVal EXCEPT ![s] = @ + 2] ELSE semVal
  /\ UNCHANGED <<semKey, inited>>

\* semop(+1) or sem_post(): fails on a removed semaphore (EIDRM, EINVAL) and
\* on one at its greatest value (ERANGE, EOVERFLOW).
postSemaphore(s) ==
  /\ semVal' = IF SemUsable(s) /\ semVal[s] < SemMax
                 THEN [semVal EXCEPT ![s] = @ + 1] ELSE semVal
  /\ UNCHANGED <<semKey, inited>>

-----------------------------------------------------------------------------
(* Shared memory.  A System V segment marked by IPC_RMID loses its key at  *)
(* once and is destroyed when nobody has it attached (until then Linux     *)
(* still lets its identifier be attached); a POSIX descriptor keeps it.    *)

ShmAlive(m) == Posix \/ shmKey = m \/ \E p \in Procs : addr[p] = m

\* Mutant: shmget(IPC_PRIVATE), a segment of its own for every run.
getOrCreateSharedMemory_Private(r) ==
  /\ shmKey' = r
  /\ UNCHANGED <<shmVal, addr, refused>>

\* shmget(IPC_CREAT), or shm_open(O_CREAT) and ftruncate(): the segment the
\* key names, else a new one, zero-filled.
getOrCreateSharedMemory(r) ==
  /\ shmKey' = IF shmKey = None THEN r ELSE shmKey
  /\ UNCHANGED <<shmVal, addr, refused>>

deleteSharedMemory ==
  /\ shmKey' = None
  /\ UNCHANGED <<shmVal, addr, refused>>

\* Mutant: the name is looked up again to map the segment.
attachSharedMemory_ByName(p, m) ==
  /\ addr' = [addr EXCEPT ![p] = IF shmKey = m THEN m ELSE BadAddr]
  /\ UNCHANGED <<shmKey, shmVal, refused>>

\* shmat() or mmap(): fails with (void *)-1, which is never NULL, for a
\* segment that is gone and, whatever the segment, at a limit of the system.
attachSharedMemory(p, m) ==
  /\ \/ /\ addr' = [addr EXCEPT ![p] = IF ShmAlive(m) THEN m ELSE BadAddr]
        /\ UNCHANGED refused
     \/ /\ p[2] \in Limited
        /\ addr' = [addr EXCEPT ![p] = BadAddr]
        /\ refused' = refused \cup {p}
  /\ UNCHANGED <<shmKey, shmVal>>

\* shmdt() or munmap(); the exit or the death of a process does the same.
dettachSharedMemory(p) ==
  /\ addr' = [addr EXCEPT ![p] = None]
  /\ UNCHANGED <<shmKey, shmVal, refused>>

=============================================================================
