------------------------------ MODULE GitStat ------------------------------
(***************************************************************************)
(* getGitStatString() (native/git-ps1/main.c) and the checks it calls      *)
(* (gitop.c), with libgit2 or git commands, while git changes the          *)
(* repository. With USE_MULTI_THREAD three threads, one per check, write   *)
(* into local variables of their creator, which must not return before     *)
(* them; without it the caller makes one check after the other.            *)
(***************************************************************************)
EXTENDS Repository

CONSTANTS
  ErrnoBefore,  \* the values errno may have before pthread_create() fails
  Uninit,       \* a local variable nobody has assigned
  Builds        \* the builds: TRUE is the one with libgit2

ASSUME GitStatAssumption ==
  /\ ErrnoBefore \subseteq Nat /\ ErrnoBefore # {}
  /\ Uninit \notin BOOLEAN \cup Trees \cup {"yes", "no", "error"}
  /\ Builds \subseteq BOOLEAN

\* The threads th1, th2 and th3, in the order of their creation, and the
\* checks they make: gitCheckChanged(), gitCheckStaged(), gitCheckUntracked().
Threads == 1 .. 3

Outcomes == {"yes", "no", "error"}

VARIABLES
  libgit2,  \* the build
  loaded,   \* libgit2's copy of the index, read once for all checks, or Uninit
  read,     \* read[t]: what check t has read so far, or Uninit
  outcome,  \* outcome[t]: what check t found, or Uninit
  mpc,      \* where getGitStatString() is
  next,     \* the thread to create or to join next
  local,    \* local[t]: isChanged, isStaged and isUntracked
  tpc,      \* tpc[t]: where thread t is
  buf,      \* the marks in the caller's buffer, or Uninit
  ret       \* the value returned, or Uninit

checks == <<libgit2, loaded, read, outcome>>
vars == <<repository, checks, mpc, next, local, tpc, buf, ret>>

TypeOK ==
  /\ RepositoryTypeOK
  /\ libgit2 \in Builds
  /\ loaded \in Trees \cup {Uninit}
  /\ read \in [Threads -> Trees \cup {Uninit}]
  /\ outcome \in [Threads -> Outcomes \cup {Uninit}]
  /\ mpc \in {"create", "unwind", "join", "call", "called", "build", "returned"}
  /\ next \in 0 .. 3
  /\ local \in [Threads -> BOOLEAN \cup {Uninit}]
  /\ tpc \in [Threads -> {"none", "check", "compare", "store", "ended"}]
  /\ buf = Uninit \/ buf \subseteq Threads
  /\ ret \in ErrnoBefore \cup {0, Uninit}

Init ==
  /\ RepositoryInit
  /\ libgit2 \in Builds
  /\ loaded = Uninit
  /\ read = [t \in Threads |-> Uninit]
  /\ outcome = [t \in Threads |-> Uninit]
  /\ mpc \in {"create", "call"}
  /\ next = 1
  /\ local = [t \in Threads |-> Uninit]
  /\ tpc = [t \in Threads |-> "none"]
  /\ buf = Uninit
  /\ ret = Uninit

\* Mutant: the loop over the threads runs once too often.
Create_Fourth ==
  /\ mpc = "create"
  /\ tpc' = [tpc EXCEPT ![next] = "check"]
  /\ IF next = 4 THEN mpc' = "join" /\ next' = 3
                 ELSE mpc' = "create" /\ next' = next + 1
  /\ UNCHANGED <<repository, checks, local, buf, ret>>

Create ==
  /\ mpc = "create"
  /\ tpc' = [tpc EXCEPT ![next] = "check"]
  /\ IF next = 3 THEN mpc' = "join" /\ next' = 3
                 ELSE mpc' = "create" /\ next' = next + 1
  /\ UNCHANGED <<repository, checks, local, buf, ret>>

\* Mutant: no thread is joined.
CreateFails_NoJoin ==
  /\ mpc = "create"
  /\ mpc' = "unwind"
  /\ next' = 0
  /\ UNCHANGED <<repository, checks, local, tpc, buf, ret>>

\* pthread_create() returns its error and leaves errno as it is; the threads
\* created before are joined, the last one first.
CreateFails ==
  /\ mpc = "create"
  /\ mpc' = "unwind"
  /\ next' = next - 1
  /\ UNCHANGED <<repository, checks, local, tpc, buf, ret>>

JoinOne ==
  /\ mpc = "unwind" /\ next > 0
  /\ tpc[next] = "ended"
  /\ next' = next - 1
  /\ UNCHANGED <<repository, checks, mpc, local, tpc, buf, ret>>

\* errno is what earlier calls have left.
ReturnErrno ==
  /\ mpc = "unwind" /\ next = 0
  /\ ret' \in ErrnoBefore
  /\ mpc' = "returned"
  /\ UNCHANGED <<repository, checks, next, local, tpc, buf>>

\* Mutant: only th3 is joined.
Join_LastOnly ==
  /\ mpc = "join"
  /\ tpc[next] = "ended"
  /\ mpc' = "build"
  /\ next' = next - 1
  /\ UNCHANGED <<repository, checks, local, tpc, buf, ret>>

Join ==
  /\ mpc = "join"
  /\ tpc[next] = "ended"
  /\ IF next = 1 THEN mpc' = "build" ELSE mpc' = "join"
  /\ next' = next - 1
  /\ UNCHANGED <<repository, checks, local, tpc, buf, ret>>

\* The marks are '*' for thread 1, '+' for thread 2 and '%' for thread 3.
\* What an unassigned variable would contribute is left open.
Build ==
  /\ mpc = "build"
  /\ \E garbage \in BOOLEAN :
       buf' = {t \in Threads : IF local[t] = Uninit THEN garbage ELSE local[t]}
  /\ ret' = 0
  /\ mpc' = "returned"
  /\ UNCHANGED <<repository, checks, next, local, tpc>>

\* The build without threads calls the checks in turn.
Call ==
  /\ mpc = "call"
  /\ tpc' = [tpc EXCEPT ![next] = "check"]
  /\ mpc' = "called"
  /\ UNCHANGED <<repository, checks, next, local, buf, ret>>

CallReturns ==
  /\ mpc = "called" /\ tpc[next] = "ended"
  /\ IF next = 3 THEN mpc' = "build" /\ next' = 0
                 ELSE mpc' = "call" /\ next' = next + 1
  /\ UNCHANGED <<repository, checks, local, tpc, buf, ret>>

\* Mutant: every check of the libgit2 build reads the index anew.
Index_Fresh == index

\* git_repository_index() reads the index when it is called first. A git
\* command is a process of its own that reads it anew.
Index == IF libgit2 /\ loaded # Uninit THEN loaded ELSE index

\* Check t does not succeed, before or after it has loaded the index. The
\* libgit2 build cannot tell what is staged without a commit at HEAD.
CheckFails(t) ==
  /\ tpc[t] = "check"
  /\ tpc' = [tpc EXCEPT ![t] = "store"]
  /\ outcome' = [outcome EXCEPT ![t] = "error"]
  /\ loaded' \in IF libgit2 THEN {loaded, Index} ELSE {loaded}
  /\ UNCHANGED <<repository, libgit2, read, mpc, next, local, buf, ret>>

\* The first thing check t reads: gitCheckStaged() of the libgit2 build looks
\* up HEAD, all others read the index.
Check(t) ==
  /\ tpc[t] = "check"
  /\ tpc' = [tpc EXCEPT ![t] = "compare"]
  /\ IF libgit2 /\ t = 2
       THEN head # Unborn /\ read' = [read EXCEPT ![t] = head] /\ loaded' = loaded
       ELSE /\ read' = [read EXCEPT ![t] = Index]
            /\ loaded' = IF libgit2 THEN Index ELSE loaded
  /\ UNCHANGED <<repository, libgit2, outcome, mpc, next, local, buf, ret>>

\* Mutant: gitCheckStaged() compares the index with the work tree.
Finds_StagedAsChanged(t) ==
  \E f \in Files : Differs(IF t = 2 THEN 1 ELSE t, f, head, Index, work)

\* Mutant: the callback lets the last delta decide.
Finds_EveryFile(t) == \A f \in Files : Differs(t, f, head, Index, work)

\* The search for untracked files passes over directories that cannot be
\* opened, scanDir() also over what it cannot stat(), and both report success.
Overlooks(t, f) ==
  t = 3 /\ (f \in layout.unreadable \/ (libgit2 /\ f \in layout.dangling))

\* What check t finds when it compares what it has read with the rest.
Finds(t) ==
  \E f \in Files :
    /\ ~Overlooks(t, f)
    /\ IF libgit2 /\ t = 2 THEN Differs(2, f, read[2], Index, work)
                          ELSE Differs(t, f, head, read[t], work)

\* scanDir() enters any directory, so that it may also find a file which git
\* does not look for: stat() follows a tracked link, a submodule is scanned.
Strays(t) == libgit2 /\ t = 3 /\ layout.foreign

\* git_diff_foreach(), scanDir() or the command has an answer.
Compare(t) ==
  /\ tpc[t] = "compare"
  /\ tpc' = [tpc EXCEPT ![t] = "store"]
  /\ \E stray \in {FALSE, Strays(t)} :
       outcome' = [outcome EXCEPT ![t] = IF Finds(t) \/ stray THEN "yes" ELSE "no"]
  /\ loaded' = IF libgit2 THEN Index ELSE loaded
  /\ read' = [read EXCEPT ![t] = Uninit]
  /\ UNCHANGED <<repository, libgit2, mpc, next, local, buf, ret>>

\* A failed check gives no mark, but the command build takes any exit status
\* except 0 for changed and for staged files.
Marked(t) == outcome[t] = "yes" \/ (outcome[t] = "error" /\ t # 3 /\ ~libgit2)

\* The result is stored through the thread's argument.
Store(t) ==
  /\ tpc[t] = "store"
  /\ local' = [local EXCEPT ![t] = Marked(t)]
  /\ tpc' = [tpc EXCEPT ![t] = "ended"]
  /\ UNCHANGED <<repository, checks, mpc, next, buf, ret>>

Caller ==
  Create \/ CreateFails \/ JoinOne \/ ReturnErrno \/ Join \/ Call \/ CallReturns \/ Build
Thread(t) == CheckFails(t) \/ Check(t) \/ Compare(t) \/ Store(t)

\* Git or an editor changes the repository while a check is at work; a change
\* between two checks is one before the first step of the second.
Git ==
  /\ mpc # "unwind"
  /\ \E t \in Threads : tpc[t] \in {"check", "compare"}
  /\ Move
  /\ UNCHANGED <<checks, mpc, next, local, tpc, buf, ret>>

Terminating ==
  /\ mpc = "returned"
  /\ \A t \in Threads : tpc[t] \in {"none", "ended"}
  /\ UNCHANGED vars

Next == Caller \/ (\E t \in Threads : Thread(t)) \/ Git \/ Terminating

Spec == Init /\ [][Next]_vars

-----------------------------------------------------------------------------
\* When the function has returned, no thread is left that could still write
\* into the stack frame it had, on the error paths as well.
NoThreadOutlivesFrame ==
  mpc = "returned" => \A t \in Threads : tpc[t] \in {"none", "ended"}

\* The marks written are those of the checks, however the threads ran.
AgreesWithChecks == buf # Uninit => buf = {t \in Threads : Marked(t)}

Succeeded(t) == outcome[t] \in {"yes", "no"}

\* A mark that a check gave was true of some file at some time of the run, but
\* for a '%' that scanDir() may bring from behind a link or out of a submodule.
\* The index and the work tree are read at different times: '*' and '%' say
\* only that some file differed from the index in one of the two ways.
MarkWasTrue ==
  buf # Uninit => \A t \in buf :
    Succeeded(t) => Strays(t) \/ \E m \in seen : m[1] = 2 <=> t = 2

\* A file that nobody touched during the run gets its marks, unless it is one
\* that the search for untracked files overlooks.
SettledFilesShown ==
  buf # Uninit => \A t \in Threads, f \in Files :
    /\ Succeeded(t) /\ Differs(t, f, head, index, work) /\ ~Overlooks(t, f)
    /\ \A c \in {"head", "index", "work"} : <<c, f>> \notin touched
    => t \in buf

\* The libgit2 build never shows a clean repository while a file differs from
\* HEAD all the time, whatever git add and git reset do to the index during
\* the run: a change that leaves one mark appears under another. That needs
\* all three checks to see the file.
DirtyShown ==
  buf # Uninit /\ libgit2 /\ (\A t \in Threads : Succeeded(t)) =>
    \A f \in Files :
      /\ work[f] # TreeOf(head)[f] /\ ~Overlooks(3, f)
      /\ <<"head", f>> \notin touched /\ <<"work", f>> \notin touched
      => buf # {}

=============================================================================
