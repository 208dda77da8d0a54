# Specifications of shell-config

TLA+ specifications of the programs in this repository, with TLC runs and
TLAPS proofs. The repository holds one real program, `native/git-ps1` (C), which
prints the git part of a shell prompt, and a set of shell start-up files,
functions and an installer around it. The specifications start with git-ps1,
because that is where processes, signals, shared memory, threads and a changing
repository meet.

## Inventory

### git-ps1

A shell runs git-ps1 once for every prompt (`.zshrc:38`). Computing the marks
"changed, staged, untracked" may take long, so a run does not wait for it: the
last known marks live in a shared memory segment of the repository, one run at a
time (a semaphore of the repository) forks a child that computes new ones, and
every run prints what the segment holds after a short wait.

| Component | State | Operations | Talks to |
|---|---|---|---|
| Processes (`main.c`) | `g_targetPid`, `g_semKey`, `g_shmId`, `g_shouldSemPost`, where each parent and child is | `main`, `onLockAquired`, `onLockNotAquired`, `writeSharedMemory`, `readSharedMemory`, `sigHandler`, `releaseResource` | kernel (fork, waitpid, signals), IPC objects, status, name |
| IPC objects (`ipc.c`) | what the key names, semaphore value, segment contents, attachments | get or create, delete, try-wait, post, attach, detach; System V and POSIX builds | all runs of one repository share them |
| Status string (`main.c`) | bytes of the buffer and of the segment | `getGitStatString`, the two `memcpy`, four printers | the checks, the segment |
| Status checks in threads (`main.c`) | three local variables, three threads | `getGitStatString` with and without `USE_MULTI_THREAD` | the checks |
| Display name (`main.c`, `gitop.c`) | HEAD, branches, tags (git's) | `getDisplayName` and the branch, tag, hash functions; libgit2 and command builds | git in other processes |
| Untracked scan (`gitop.c`) | recursion of `scanDir`, index, work tree | `gitCheckUntracked`, `scanDir`, `isTracked` | programs that change files, git that changes the index |
| Changed and staged checks (`gitop.c`) | libgit2's copy of the index | `gitCheckChanged`, `gitCheckStaged` | libgit2 or git commands, the repository they read |
| IPC key (`ipc.c`, `gitop.c`, `sha256.c`) | none | `gitGetConfigPath`, `createIpcKey`, `sha256str` | file system, work trees that are moved |
| Command line (`main.c`) | `CmdParam` | `parseArguments`, `tryParseInt` | decides the mode of a run |
| Logging (`logging.c`) | none | `printLastError` | standard error |

What makes them correct:

- *Lock*: who takes a permit gives it back, whatever dies or is signalled; one
  refresher at a time; nobody posts without having won; the semaphore is
  initialised before it is used.
- *Cache*: a prompt shows what was cached when it looked; if its own child was in
  time, what was stored since that child was started; an access of the segment
  crashes only for a known cause.
- *Prompt*: it comes back also when the child hangs; it leaves no colour behind.
- *Checks*: no thread outlives the stack frame it writes to; the marks are those
  the checks gave; a mark was true of some file; a file nobody touches is not
  missed; a dirty work tree is not shown clean. (What `scanDir` passes over or finds
  behind links is excepted.)
- *Key*: a work tree nobody touches shows its own status and keeps its cache;
  memory that no clean reaches was left by a tree that was moved or reconfigured.
- *Command line*: the parameters are what the options say as a whole; the first
  option that must end the program does.
- *Name*: what is shown was HEAD's, in the colour of its kind.
- *Scan*: found exactly when git sees an untracked file; all directories are
  closed; it ends.

Hard behaviours: interleaving of any number of runs and children at one
semaphore, signals between any two steps, killed children, failing `fork`,
`waitpid` and IPC calls, a clean under running prompts, unsynchronised `memcpy`,
references and files that change between two reads.

### Shell files

- `.common_rc.sh`: `kompress`, `kompress-one`, `dekompress` (archives by name
  suffix, temporary files, traps, exit statuses of pipelines) and small wrappers.
- `install.sh`: option loop and three modes (append, copy, symbolic) over a list
  of files, under `set -e`.
- Start-up files: variables, aliases, prompt strings, key bindings. No state.

## Plan

In the order of importance for a user of the prompt, all done:

1. `Ipc`, `GitPs1`: the protocol of runs, children and signals.
2. `PromptCache`, `GitPs1Cache`: what it promises, as a refinement.
3. `StatusBytes`: what GitPs1 takes as one step.
4. `DisplayName`, `ScanDir`: what a run reads from a changing repository.
5. `Repository`, `GitStat`: the checks, their threads and the repository together.
6. `CommandLine`, `IpcKeys`, `Startup`: from a command line to the memory of a key.
7. Proofs of every safety invariant the runs check, and of bounds on the steps of
   what must end (see Proofs).

Left for whoever goes on: liveness of three and more runs, which TLC does not
reach in reasonable time, and the parts under *Not modelled*.

## Modules

`GitPs1` extends `Ipc` and composes its functions into steps of processes.
`GitPs1Cache` extends `GitPs1` and instantiates `PromptCache` with a refinement
mapping. `GitStat` extends `Repository`, and `Startup` extends `CommandLine` and
`IpcKeys`: those are components without a specification of their own.
`StatusBytes`, `GitStat`, `DisplayName` and `ScanDir` each refine what GitPs1 does
in one step (`CopyIn` and `CopyOut`, `ChildStat`, `NoName`, the untracked check of
`ChildStat`, and the printing that follows `CopyOut`), and `Startup` leads to where
GitPs1 begins. `MC...` modules hold the
instances for TLC, `...Proofs` modules the theorems. Operators whose name ends in
an underscore and a word (`ForkFails_Returns`) are mutants: plausible bugs that a
property must notice, used by no specification.

**Ipc.** One IPC key. An object is named by the run that created it, because
identifiers are not reused within a behaviour (System V identifiers carry a
sequence number). A semaphore identifier dies with `IPC_RMID`; a POSIX handle
survives the unlink; a System V segment without key lives while it is attached,
and Linux lets its identifier be attached until then. `inited` is a history
variable.

**GitPs1.** A step is the code from one access of something shared (semaphore,
segment, child status, a variable the signal handler reads) to the next, so that a
signal can arrive exactly where it matters: `TryWait`, `SetFlag`, `Release` and
`ClearFlag` are steps of their own because `sigHandler` reads `g_shouldSemPost`.
The System V `getOrCreateSemaphre` is three system calls and three actions. The
child inherits the variables of its parent and runs to the end of `main`, as the
code does. `polls` counts iterations of the polling loop; `PollAlive`,
`PollExited`, `PollKilled`, `PollFails` and `PollTimeout` are its outcomes.
`won`, `posted`, `fresh` and `faults` are histories; `fresh[r]` is what was stored
since run r started its child. Dying detaches, as exit does. An attach fails when
the segment is gone, and at a limit of the system (`Limited`, `refused`); either way
the code goes on with the address -1. The POSIX
build's inverted `tryWaitSemaphre` is modelled as it is: its winner neither marks
itself nor posts, so `Holding` and `LockAccounted` are about the System V build.
`NoName` abstracts `DisplayName`, `ChildStat` the checks.

**PromptCache / GitPs1Cache.** The abstract cache has one cell; a run is answered
at most once, from the cell or (without cache) with a status of its own, and a run
that is served ends. The mapping takes the segment the key names as the cell and the
parent's buffer as the answer. It holds where nobody cleans: a clean replaces the
segment under the runs that hold the old one.

**StatusBytes.** The two `memcpy`, byte by byte in any order, because C gives the
order no meaning between processes. The segment's other 28 bytes are never written
and left out. How many refreshers run at once is a constant: 1 is what the lock is
for, 2 what `sysv_overlap` shows and what the run has. Printers are
sequences of terminal attributes, each of which is set or cleared, and text.

**Repository.** Versions of files in the commit at HEAD, the index and the work
tree; `Move` changes HEAD, or one file of the index or the work tree, which is what
commits, checkouts, resets, `git add` and editors consist of. `Differs` is git's
meaning of the three marks. A layout says where `scanDir` and git differ: which
files are dangling links, which are in directories that cannot be opened, and
whether a tracked link or a submodule leads out of the work tree. `seen` and
`touched` are histories.

**GitStat.** Every check reads twice, as `git diff` does: first the index (HEAD in
`gitCheckStaged` of the libgit2 build), then what it compares it with; git may come
between. libgit2 reads the index once per process and all checks share that copy
(`loaded`), a git command reads it anew. `CheckFails` is any failure of a check: no
mark with libgit2, but a mark for "changed" and "staged" with commands, whose exit
status is compared with 0. An unborn HEAD makes the libgit2 `gitCheckStaged` fail.
The untracked check is one comparison, which stands for the walk that
`ScanDir` models: `Overlooks` is what the walk passes over while it reports success
(`git ls-files`, too, passes over unreadable directories), `Strays` where it may
find what git does not look for. `pthread_create` may fail at each thread; the unwinding joins are
steps; an unassigned variable contributes an arbitrary mark. `Call` and
`CallReturns` are the function without threads.

**DisplayName.** One action per read of HEAD or the references; `MoveHead`,
`MoveBranch` and `MoveTag` are git in another terminal. Names are model values,
which tag of several is first is left open. Which build runs is
chosen at the start. `atHead` and `tagged` are histories.

**ScanDir.** The recursion is a stack of frames; `readdir` may return an entry
that is created after `opendir` or miss it, which the order of reads covers. A
path is the directory and whether a link or submodule was passed. `Above` is the
least set that is closed under `Place`, which is what the proofs use. A link points
at the work tree itself, the worst case; the kernel refuses a path with more than
`MaxLinks` links (40 on Linux, 2 in the runs). `Untracked` is git's definition.
`.git` is left out: libgit2 ignores it. The index may hold files that the work tree
has not, and `git reset` or a checkout may put them there during the scan
(`restored`): the loaded index does not have them when they appear. `LoadFails` and
`OpenRootFails` are the failures before the walk: the first is one of the check, the
second looks like an empty tree. `untracked`, `restored`, `plain` and `denied`
are histories.

**CommandLine.** Options as `getopt_long` delivers them, with the code's quirk that
`-n` is not in the string of short options. Numbers are character codes:
`skipSpace`, `strtol` and the two range checks are functions of them. The reference
is written after the usage text and the comments at the cases of `parseArguments`,
not after the option tables: `Documented` is which options there are, `Means` what a
command line says as a whole and not from left to right, `Denotes` which number a
text denotes, by repeated division. `Disputed` are the short options on which
comments and code disagree (`-n`, and three control characters); of the two
default wait times that are written down `Means` takes the one of the code. `INT_MAX` and
`LONG_MAX` are any numbers of which the first is not the greater one.

**IpcKeys.** Where work trees are, and which file their key is taken from: a System
V key is some bits of the file's number, a POSIX key the hash of its path. `Hash` is
injective. Trees are moved, removed and created, and `ReplaceConfig` is what every
`git config` does. A linked work tree has a file `.git`, and its key is that file's.
`gitGetConfigPath` looks with `stat` what `.git` is, and takes it for a file where
that fails; a key of the directory `.git` itself (`ftokDir`) follows when a tree is
there again by then. Its clashes with keys of files are left out: they are those
between files. A link may give two trees one file.

**Startup.** `main` from the options to the memory of the key: `-C`, opening the
repository, the `stat` of `.git`, `--no-cache`, the key, a clean, an attach, the
child's store and the prompt. Where the tree is gone by then, a child stores a blank
status (libgit2) or the marks of git commands that fail (`Gone`). Runs of all trees
follow one another, but a child may outlive its parent, and trees change between any two steps. With libgit2 the repository is the one
that was opened by its path, with commands the one in the working directory:
`Subject`. Whether a run gets the lock is left open, because GitPs1 has that part.

## Runs

Run `x` is `x.cfg` with the component's module `MCGitPs1`, `MCStatusBytes`, `MCGitStat`,
`MCStartup`, `MCDisplayName` or `MCScanDir`, which defines the sets the constants take
and the symmetry.

Bounds: two runs are enough for every pairwise race at the semaphore, for a
double post to admit a second refresher and for a clean under a prompt. One poll
(`WaitTime = 1`) gives every order of child, poll and timeout. `SemMax = 2` is one
permit more than the lock should have, so that the semaphore's limit is reached;
`sysv_cache` has 4, which its permits never reach.
`MaxFaults` bounds signals and kills; two cover a parent and a child, or two
parents. Statuses are interchangeable to GitPs1: one and the blank tell a stale
answer from a new one. Two refreshers in `bytes` are as many as two runs can
have. `Limited` says which processes may be refused memory: any in the runs with
faults, children in `sysv_cache`, none in the violation runs, which have their own
cause. Three moves in `name` are one for each gap between the reads of the longest
path. Three entries in `scan` give a directory with and without content beside
another entry; two changes can hit the index and the tree.

In `status` two files let a mark be true of one file only, and two changes are what
`git add` beside an edit, or a checkout cut in half, needs; one work tree is plain,
the other has a dangling link, an unreadable directory and a way out of it. The numbers of
`startup` (`INT_MAX` 12, `LONG_MAX` 99) have two digits, so that a text can be
inside both limits, between them and beyond both. Two trees, one of them linked, two
paths and three files of which two look the same to `ftok` give every way to share
a key; two changes move a tree away and another one into its place, and three runs
fill, disturb and use again. Changes before the first run or during the options
are left out, because they lead to states other initial states have.

Runs, branches, tags, commits, paths, refreshers and readers are symmetric, and
symmetry is used in invariant runs only. Every bound is of the runs: the theorems
hold without them.

| Run | Shows | Properties |
|---|---|---|
| `sysv_faults` | signals, kills, refused memory and cleans anywhere: every missing permit is accounted for, only winners post, a crash needs a refusal or a clean; undisturbed, a prompt whose child was in time shows what was stored since that child was started | `TypeOK`, `LockAccounted`, `OnlyWinnersPost`, `CrashHasCause`, `PromptShowsRefresh` |
| `posix_faults` | the same in the POSIX build: a semaphore has its value from the start, and no clean can crash | `GotIsInitialised`, `CrashOnlyRefused` |
| `sysv_cache` | the default build without disturbed parents: lock never stuck, semaphore initialised, at most one permit too many per run, no crash unless memory is refused; the refinement of PromptCache with its liveness; a prompt returns and an empty lock is filled, though children hang or are killed, as far as the parents' own git calls end | `NeverWedged`, `GotIsInitialised`, `CrashOnlyRefused`, `DriftAtMostOnePerRun`, `ImplementsPromptCache`, `PromptReturns`, `LockComesBack` |
| `bytes` | torn copies still end and confuse only red and magenta; settled memory has the colour of the last status; prompts restore the terminal | `TypeOK`, `StatusEnds`, `TornOnlyRedMagenta`, `SettledIsLast`, `PromptRestoresTerminal` |
| `status` | all schedules and failures of the checks, in threads and in turn, in both builds, while git changes the repository: marks are those of the checks, were true, miss no settled file, and never call a dirty tree clean with libgit2, but for what the untracked check overlooks or finds behind links | `TypeOK`, `NoThreadOutlivesFrame`, `AgreesWithChecks`, `MarkWasTrue`, `SettledFilesShown`, `DirtyShown` |
| `startup` | all four builds from the command line to the memory: options and numbers mean what is written; a settled tree shows only itself and keeps its cache; orphaned memory had an owner | `TypeOK`, `OptionsAsWritten`, `SettledShowsItself`, `SettledKeepsCache`, `OrphansWereMoved` |
| `name` | the name in both builds while references move | `TypeOK`, `TypeTellsKind`, `NameWasAtHead`, `SettledIsExpected` |
| `scan` | all trees of three entries in two levels, loops included, while files and index change, restored files included: directories closed, git's answer, an end | `TypeOK`, `DirectoriesClosed`, `FoundWasUntracked`, `SettledIsUntracked`, `ScanReturns` |

Disagreements between the code and what its comments say (`violation` runs):

| Run | What happens | Property |
|---|---|---|
| `sysv_overlap` | parent and child both post (`main.c:215`, `769`), so two children refresh at once | `OneRefresher` |
| `posix_trywait` | `sem_trywait()` returns 0 on success, `tryWaitSemaphre` returns it as bool (`ipc.c:152`) | `OnlyWinnersFlag` |
| `sysv_attach` | `shmat` fails with -1, the test is for NULL (`main.c:498`, `522`) | `NoCrash` |
| `scan_foreign` | files behind a tracked link or in a submodule look untracked (`gitop.c:532`) | `FoundIsUntracked` |

Met while modelling and visible in the models, without a run of their own:

- A clean between the two `semget` calls, with a third run, leaves a semaphore of
  value 0 that nobody initialises (`ipc.c:98`); `GotIsInitialised` is therefore
  checked where nobody cleans.
- A prompt that copies while a refresher stores can show a colour of no status
  (`main.c:526`); `TornOnlyRedMagenta` says which.
- `pthread_create` does not set `errno`, whose value is returned (`main.c:829`).
- The command build shows a branch in the colour of a tag when a checkout comes
  between its two questions for the branch (`gitop.c:280`); `TypeTellsKind` is
  therefore stated of the libgit2 build.
- The libgit2 build has no name for a branch without commits (`gitop.c:192`), the
  command build does; `Expected` says so.
- The command build shows a failed `git diff` as a mark (`gitop.c:371`);
  `MarkWasTrue` therefore speaks of checks that succeeded.
- Each git command reads the index anew, so that `git add` between two checks can
  hide a file from all three (`gitop.c:371`); `DirtyShown` is therefore stated of
  the libgit2 build. That build in turn shows nothing staged before the first
  commit (`gitop.c:394`), because the check fails.
- `.git/config` is replaced by every `git config` and takes the System V key with
  it: semaphore and segment stay behind for good (`ipc.c:64`). `OrphansWereMoved`
  says that the other ways to lose them begin with a moved or removed tree.
- A tree that goes away between its discovery and the `stat` of `.git`
  (`gitop.c:161`) leaves the path of `.git` as that of the configuration: the POSIX
  build makes semaphore and memory under a key that no tree has
  (`OrphansWereMoved` names these keys, `DotGitKeys`).
- An attach that is refused memory (`ENOMEM`, `EMFILE`) crashes as in `sysv_attach`,
  in the POSIX build too (`ipc.c:258`); `CrashOnlyRefused` and `CrashHasCause` name
  the refusal as a cause.
- The winner of the POSIX lock never gives it back, because of the inverted result
  (`posix_trywait`): the losers set the flag and post. That is why the lock
  properties are stated of the System V build.
- The case label comment `main.c:259` says `-n, --no-cache`, but the string of short
  options (`main.c:248`) has no `n` and the program ends; the short options it has
  for `--no-color`, `--zsh` and `--tmux` are control characters nobody writes about.
  The usage text (`main.c:315`) says "Default 1000" where `kDefaultWaitTime` is 200
  (`main.c:120`). `OptionsAsWritten` leaves the first two open (`Disputed`) and takes
  200 for the third.
- An untracked dangling link is skipped (`gitop.c:528`), and a directory that cannot
  be opened is taken for an empty one (`gitop.c:502`), while the check reports
  success; `SettledIsUntracked` is therefore stated of trees without links and
  of scans that could open every directory, and `Overlooks` excepts such files from
  `SettledFilesShown` and `DirtyShown`.
- A file that `git reset` and a checkout restore during a scan is reported as
  untracked, which it never was, because the index was loaded before
  (`gitop.c:446`); `FoundWasUntracked` names it (`restored`).

## Fairness

`FairSpec` of GitPs1 has weak fairness for the steps of every parent, which is what a
scheduler gives a process, except where the parent is in git: `InGit` names the
labels with `gitInitialize` and `gitGetConfigPath` ("idle"), the whole
`getGitStatString` of a run without the cache ("nocache"), and `getDisplayName` of
`printPs1` ("attach"). These run git commands and wait for them, which may take
forever, so nothing is assumed there; all other calls of a parent return at once
(`WNOHANG`, `IPC_NOWAIT`) or sleep for one polling cycle. Nothing is assumed of a
child, whose git calls may hang, and of signals. `PromptReturns` and the liveness of
`ImplementsPromptCache` except a parent that stays in git for ever, and
`LockComesBack` assumes that none stays in `getDisplayName`, because the holder of
the lock calls it before it posts: a git command that hangs there keeps the lock.
ScanDir assumes that the scanning process is scheduled, and that the calls of the
file system return. GitStat has no fairness: that it cannot go on for ever is
`StatIsBounded`, and whether it ends is up to git.

## Proofs

All theorems hold for every value of the constants that satisfies the named
assumptions (`IpcAssumption`, `LimitAssumption`, `GitPs1Assumption`,
`StatusBytesAssumption`,
`RepositoryAssumption`, `GitStatAssumption`, `DisplayNameAssumption`,
`ScanDirAssumption`, `CommandLineAssumption`, `IpcKeysAssumption`,
`StartupAssumption`): any number of runs, trees, files and changes. Restrictions
of a theorem, such as "nobody cleans", are its ASSUME. `StartupAssumption` says of
the command lines that an option has the argument `getopt_long` gives it, a text or
none.

- `GitPs1Proofs`:
  - `TypeOK` is not inductive alone: `CopyIn` stores at `addr` what `buf` holds, so
    the invariant `DataInv` says which labels have an address and a status. One lemma
    per group of actions (`TypeCorrect`).
  - `LockAccounted` is not inductive. `LockInv` adds that a
    parent before `tryWaitSemaphre` has neither taken nor posted a permit and has no
    child, that a semaphore is initialised only by its creator, and that a parent
    has no target; with it a step either fills the semaphore or keeps the run that
    accounts for its emptiness (`LockNeverForgotten`, System V, all faults).
  - `WinInv` says which labels and flags only a winner can have (`WinnersPost`,
    System V). `SegInv` says that without a clean every run uses the segment of the
    key, and that an address is bad only where memory was refused (`CrashIsRefusal`,
    also of the POSIX build, where a segment is found whether it has the key or
    not). `HoldInv` says that a winner which has not posted is on
    its way to do so with `g_shouldSemPost` set (`LockNeverWedged`, where only
    children are disturbed).
  - `DriftBounded` needs a count. A run takes one permit and gives back at most
    two, one by the parent and one by the child. `Balance` says that the
    value of a semaphore, the runs that took a permit of it and those that posted and
    may post once more are together at most one and twice the runs that posted; each
    action keeps the inequality. For a finite set of runs, System V, no
    signals (a handler that exits after `Release` would post a third time).
  - `CrashExplained`: a process that holds a bad address, or died of one, was refused
    memory, or has a System V segment that is not the key's; and a segment never comes
    back to the key. Only a clean takes it away. No restriction.
  - `GotSemaphore`: with System V, every semaphore a run has is the key's, and the key's
    semaphore is initialised or its creator is at `setval`; only a clean or the
    creator's death could break that. With POSIX a semaphore has its value when it
    gets its name (`OpenedInv`), and there is no restriction.
  - `PromptIsBounded`: `StepsLeft`, the longest way from a parent's label to its end
    with the polls it has left, is at most 13 + `WaitTime`, each step of the parent
    lowers it, and no other process, signal, kill or clean raises it. No restriction.
- `GitPs1CacheProofs`: `CacheImplemented`, initial states map to initial states and
  every step to a cache step or a stutter. Its invariant says that every attached
  address is the key's segment, unused segments are blank, and a parent has no
  answer before it copied one. Only the safety part is proved. `AnswersAreFinal` is what callers may
  rely on, from the abstract cache alone: an answer is what was cached when it was
  given, never changes, and the cache is never blank again. `RefreshIsShown`: the child
  has stored into the segment its run uses, every store since then is in `fresh`, so
  that this segment holds a member of `fresh` from then on, and a parent that saw its
  child end copies after it. No restriction: cleans do not matter, because parent and
  child use one segment.
- `StatusBytesProofs`: `StatusAlwaysEnds` from "what a refresher copies is a status
  string, which has NUL in its fourth byte if it has one"; `TornColours` from "every
  first byte is the first byte of a computed status", as only red and magenta depend
  on a second one; `SettledColour` from "while the last status has no rival, the
  bytes its refresher has copied are in the segment". `TerminalRestored` is a fact
  about the four printers: whatever the status, each attribute one of them sets is
  cleared after it.
- `GitStatProofs`: `FrameSafe` and `ThreadsAgree`, from an invariant that counts
  the created and the joined threads by `next` and ties what is stored to the check's
  outcome. `MarksWereTrue`, `SettledMarksShown` and `DirtyNeverClean` add what a
  check has read: parts nobody touched are what they were, and what was read of the
  others was so at some time. They hold for every layout, because they except what
  `Overlooks` and `Strays` name. `StatIsBounded`: the caller and its threads have at most
  16 steps, each of them takes one of what is left, and `pthread_join` is called only
  with threads that were created.
- `DisplayNameProofs`: for `NamesOnlyHead`, the histories contain the present and the
  peeled commit is in the history; `gitGetCurrentBranchName` is asked again in the command build
  only, which is why `ColourTellsKind` is for libgit2. `SettledName` adds what an
  undisturbed run knows at each of its reads.
- `ScanDirProofs`: the open directories are the stack's (`ScanClosesDirectories`).
  `FoundIsReal`: calls are for directories no rule ignores, and what came into the
  index after it was loaded had been untracked, or is one that was `restored`.
  `AnswerIsGits`: as long as the scan
  goes on, the stack has an unread entry above (or equal to) each untracked file.
  Work trees have any depth: `Above` is a least closed set, so that no induction is
  needed. `RecursionIsBounded` and `ScanIsBounded` are for finite work trees with any
  links, also to directories above them, in which files are created all the time.
  `Level` counts the links of a path and the directories above the one it ends in;
  that it grows from call to call bounds the recursion, because no entry is above
  itself (`Acyclic`). A step of the scan takes something from what is left on one
  level and leaves the levels above it alone: an order on finitely many levels with
  finitely many entries, without infinite descent.
- `StartupProofs`: a key and a path in a run's variables, and the tree whose status is
  in memory, are or were of a tree that had that key (`named`); a settled tree shares
  its key with nobody, which gives `SettledIsItself` and `SettledIsKept`; keys get
  memory only from trees that had them, or that were away when `.git` was looked at
  (`OrphansHadTrees`).
  `OptionsMeanWhatIsWritten`: `OptionsInv` says that the parameters are what the
  options read so far say, the last of each kind counting, and that none of them has
  to end the program; that the code's option tables agree with the written reference on
  every option that is not disputed is a lemma of its own (`RecognisedIsDocumented`).
- `CommandLineProofs`: what `strtol` and the range checks compute, for texts of any
  length. What a recursive function computes is proved by induction on a set: a set
  of naturals without a smallest element is empty (`Smallest`, from the
  well-foundedness of `<`), so a set that has 0 and the successors of its elements
  has all of `0 .. n` (`Induction`). Reading digit by digit from the left with a
  limit at `LONG_MAX` and dividing from the right give the same number
  (`SpelledIsDenoted`, `DenotedIsSpelled`), a text has only one partition into space,
  sign and digits (`OnePartition`), and both checks together accept exactly the texts
  of numbers between `-INT_MAX - 1` and `INT_MAX` (`NumbersAsWritten`).

Out of the prover's reach and left to TLC: liveness under fairness (`PromptReturns`,
`LockComesBack`, `ScanReturns`, the fairness part of the refinement) and
anything with `ENABLED`. What of it is safety is proved: the bounds above say that a
prompt, the checks and the scan cannot go on for ever; that they are never stuck on
the way is what the runs show. No invariant is only model-checked.

## Not modelled

- Wording, lengths and formats of names, paths and messages, truncation at
  `PATH_MAX` and at the line buffer of the command build, memory leaks of error paths,
  the italic variant of a control sequence. SHA-256 is an injective function.
- What a signal does to libgit2's data, which the handler frees under running
  threads (`main.c:766`): undefined, and the process exits next.
- The shell functions for archives and the installer: sequences of external
  programs without shared state or concurrent steps of their own. Their
  hazards are in `PROJECT.json`; they are in the exit statuses and options of those
  programs, and a model would repeat the script beside a model of `tar`.
- Logging, build files, documentation generation and start-up files have no state
  worth a model.
