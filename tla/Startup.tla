------------------------------ MODULE Startup ------------------------------
(***************************************************************************)
(* main() of git-ps1 (native/git-ps1/main.c) from its command line to the  *)
(* memory it uses, for runs in several work trees: the options, chdir(),   *)
(* the path of the configuration, the key, and what a clean, a read and a  *)
(* refresh do with the semaphore and the segment of that key, which are    *)
(* created and deleted together. Runs follow one another; those of one     *)
(* tree that overlap are the subject of GitPs1.                            *)
(***************************************************************************)
EXTENDS CommandLine, IpcKeys

CONSTANTS
  Argvs,    \* Argvs[n]: the command lines of run n
  Plain,    \* a directory that is not in a work tree
  Blank,    \* the zero-filled contents of a new segment, a status without marks
  Gone,     \* the marks of git commands that fail
  MaxRuns   \* bound on the runs

Options == [dashes : 1 .. 2, name : STRING, arg : Paths \cup {Plain, NoArg} \cup Seq(Nat)]

ASSUME StartupAssumption ==
  /\ Blank \notin Trees /\ Blank # None
  /\ Gone \notin Trees /\ Gone # None
  /\ Plain \notin Paths /\ Plain # None
  /\ MaxRuns \in Nat
  /\ \A n \in 1 .. MaxRuns : \A line \in Argvs[n] :
       /\ line \in Seq(Options)
       /\ \A i \in 1 .. Len(line) : line[i].name = "wait" => line[i].arg \in {NoArg} \cup Seq(Nat)

ENOENT == 2

VARIABLES
  libgit2,  \* the build
  stage,    \* where main() is
  argv,     \* the command line
  optind,   \* the next option
  param,    \* CmdParam
  cwd,      \* the work tree of the working directory, or None
  path,     \* dotGitPath, then gitConfigPath, or None
  key,      \* ipcKey, or None
  child,    \* a child has still to store its status
  shown,    \* the tree whose status the prompt shows, Blank, Gone, or None
  exit,     \* the exit status
  runs,     \* how many runs there were
  memory,   \* memory[k]: the tree whose status key k keeps, Blank, Gone, or None
  cached    \* history: the trees refreshed and not cleaned since

main == <<libgit2, stage, argv, optind, param, cwd, path, key, child, shown, exit, runs>>
cache == <<memory, cached>>
vars == <<trees, main, cache>>

Stages == {"idle", "options", "usage", "chdir", "open", "stat", "nocache", "key", "clean",
           "attach", "show", "ended"}

TypeOK ==
  /\ TreesTypeOK
  /\ libgit2 \in BOOLEAN
  /\ stage \in Stages
  /\ cwd \in Trees \cup {None}
  /\ path \in (Paths \X Kinds) \cup {None}
  /\ key \in Keys \cup {None}
  /\ child \in BOOLEAN
  /\ shown \in Trees \cup {Blank, Gone, None}
  /\ exit \in 0 .. 255
  /\ runs \in 0 .. MaxRuns
  /\ memory \in [Keys -> Trees \cup {Blank, Gone, None}]
  /\ cached \subseteq Trees

Init ==
  /\ TreesInit
  /\ libgit2 \in BOOLEAN
  /\ stage = "idle" /\ argv = <<>> /\ optind = 1 /\ param = DefaultParam
  /\ cwd = None /\ path = None /\ key = None
  /\ child = FALSE /\ shown = None /\ exit = 0 /\ runs = 0
  /\ memory = [k \in Keys |-> None]
  /\ cached = {}

\* A shell starts git-ps1 somewhere.
Start ==
  /\ stage = "idle" /\ ~child /\ runs < MaxRuns
  /\ runs' = runs + 1
  /\ stage' = "options"
  /\ argv' \in Argvs[runs + 1]
  /\ cwd' \in {t \in Trees : Present(t)} \cup {None}
  /\ optind' = 1 /\ param' = DefaultParam
  /\ path' = None /\ key' = None /\ shown' = None /\ exit' = 0
  /\ UNCHANGED <<trees, cache, libgit2, child>>

NextOption == stage = "options" /\ optind <= Len(argv)

Option ==
  /\ NextOption /\ ~Stops(argv[optind])
  /\ optind' = optind + 1
  /\ param' = Apply(argv[optind], param)
  /\ UNCHANGED <<trees, cache, libgit2, stage, argv, cwd, path, key, child, shown, exit, runs>>

\* --help, --version, an unknown option or a number that is none.
Usage ==
  /\ NextOption /\ Stops(argv[optind])
  /\ stage' = "usage"
  /\ exit' = Exit(argv[optind])
  /\ UNCHANGED <<trees, cache, libgit2, argv, optind, param, cwd, path, key, child, shown, runs>>

EndOfOptions ==
  /\ stage = "options" /\ optind > Len(argv)
  /\ stage' = "chdir"
  /\ UNCHANGED <<trees, cache, libgit2, argv, optind, param, cwd, path, key, child, shown, exit, runs>>

\* The process ends with an exit status.
Ends(status) == stage' = "ended" /\ exit' = status

\* What a run had in its variables is gone, except in its child.
Leave ==
  /\ stage \in {"usage", "ended"} /\ stage' = "idle"
  /\ argv' = <<>> /\ optind' = 1 /\ param' = DefaultParam /\ shown' = None /\ exit' = 0
  /\ IF child THEN UNCHANGED <<cwd, path, key>> ELSE cwd' = None /\ path' = None /\ key' = None
  /\ UNCHANGED <<trees, cache, libgit2, child, runs>>

\* -C names a directory in which a tree is, or Plain, or nothing.
ChangeDir ==
  /\ stage = "chdir"
  /\ LET dir == param.workDir
     IN  \/ /\ dir = NoArg \/ dir = Plain \/ TreeAt(dir) # {}
            /\ stage' = "open"
            /\ cwd' = IF dir = NoArg THEN cwd
                      ELSE IF dir = Plain THEN None ELSE CHOOSE t \in TreeAt(dir) : TRUE
            /\ UNCHANGED exit
         \/ /\ dir # NoArg /\ dir # Plain /\ TreeAt(dir) = {}
            /\ Ends(ENOENT)
            /\ UNCHANGED cwd
  /\ argv' = <<>> /\ optind' = 1
  /\ UNCHANGED <<trees, cache, libgit2, param, path, key, child, shown, runs>>

InTree == cwd # None /\ Present(cwd)

\* gitInitialize(), and gitGetConfigPath() finds the top of the tree.
Open ==
  /\ stage = "open" /\ InTree
  /\ path' = dotGitPath(cwd)
  /\ stage' = "stat"
  /\ UNCHANGED <<trees, cache, libgit2, argv, optind, param, cwd, key, child, shown, exit, runs>>

\* It looks what .git is there.
StatDotGit ==
  /\ stage = "stat"
  /\ path' = gitGetConfigPath(path)
  /\ stage' = IF param.noCache THEN "nocache" ELSE "key"
  /\ UNCHANGED <<trees, cache, libgit2, argv, optind, param, cwd, key, child, shown, exit, runs>>

\* There is no tree: gitGetConfigPath() fails silently.
OpenFails ==
  /\ stage = "open" /\ ~InTree
  /\ \E status \in IF libgit2 THEN {0, 253} ELSE {0} : Ends(status)
  /\ UNCHANGED <<trees, cache, libgit2, argv, optind, param, cwd, path, key, child, shown, runs>>

\* The tree whose status git finds: libgit2 opened it by its path, a command
\* runs in the working directory. There may be none any more.
Subject == IF libgit2 THEN TreeAt(path[1]) ELSE {t \in {cwd} : Present(t)}

NoCache ==
  /\ stage = "nocache"
  /\ \/ Subject = {} /\ Ends(1) /\ UNCHANGED shown
     \/ \E t \in Subject : shown' = t /\ Ends(0)
  /\ UNCHANGED <<trees, cache, libgit2, argv, optind, param, cwd, path, key, child, runs>>

\* Mutant: the result -1 of ftok() is taken for a key.
CreateKey_Unchecked ==
  /\ stage = "key"
  /\ \E k \in createIpcKey(path) \cup {<<"ftok", -1>>} : key' = k
  /\ stage' = IF param.doReflesh THEN "clean" ELSE "attach"
  /\ UNCHANGED <<trees, cache, libgit2, argv, optind, param, cwd, path, child, shown, exit, runs>>

CreateKey ==
  /\ stage = "key"
  /\ \E k \in createIpcKey(path) : key' = k
  /\ stage' = IF param.doReflesh THEN "clean" ELSE "attach"
  /\ UNCHANGED <<trees, cache, libgit2, argv, optind, param, cwd, path, child, shown, exit, runs>>

CreateKeyFails ==
  /\ stage = "key" /\ createIpcKey(path) = {}
  /\ Ends(ENOENT)
  /\ UNCHANGED <<trees, cache, libgit2, argv, optind, param, cwd, path, key, child, shown, runs>>

\* Both deletions fail where nothing was created.
Clean ==
  /\ stage = "clean"
  /\ memory' = [memory EXCEPT ![key] = None]
  /\ cached' = cached \ {cwd}
  /\ Ends(IF memory[key] # None THEN 0 ELSE IF posix THEN 255 ELSE ENOENT)
  /\ UNCHANGED <<trees, libgit2, argv, optind, param, cwd, path, key, child, shown, runs>>

\* Mutant: the segment is truncated when it is opened.
Attach_Truncates ==
  /\ stage = "attach"
  /\ memory' = [memory EXCEPT ![key] = Blank]
  /\ child' \in IF param.doReadOnly THEN {FALSE} ELSE BOOLEAN
  /\ stage' = "show"
  /\ UNCHANGED <<trees, libgit2, argv, optind, param, cwd, path, key, shown, exit, runs, cached>>

\* getOrCreateSemaphre() and getOrCreateSharedMemory(); a run that is not to
\* read only starts a child, unless the lock is taken.
Attach ==
  /\ stage = "attach"
  /\ memory' = [memory EXCEPT ![key] = IF @ = None THEN Blank ELSE @]
  /\ child' \in IF param.doReadOnly THEN {FALSE} ELSE BOOLEAN
  /\ stage' = "show"
  /\ UNCHANGED <<trees, libgit2, argv, optind, param, cwd, path, key, shown, exit, runs, cached>>

\* The child stores its status, before or after the prompt is shown. When the
\* tree is gone libgit2 finds nothing that is changed, and the git commands
\* fail, which counts as changed and as staged.
Store ==
  /\ child /\ child' = FALSE
  /\ \/ /\ Subject = {}
        /\ memory' = [memory EXCEPT ![key] = IF libgit2 THEN Blank ELSE Gone]
        /\ UNCHANGED cached
     \/ \E t \in Subject :
          memory' = [memory EXCEPT ![key] = t] /\ cached' = cached \cup {t}
  /\ IF stage = "idle" THEN cwd' = None /\ path' = None /\ key' = None
                        ELSE UNCHANGED <<cwd, path, key>>
  /\ UNCHANGED <<trees, libgit2, stage, argv, optind, param, shown, exit, runs>>

\* printPs1() prints nothing where it finds no name; only a read-only run
\* returns its result.
Show ==
  /\ stage = "show"
  /\ IF Subject = {} THEN Ends(IF param.doReadOnly THEN 1 ELSE 0) /\ UNCHANGED shown
                     ELSE Ends(0) /\ shown' = memory[key]
  /\ UNCHANGED <<trees, cache, libgit2, argv, optind, param, cwd, path, key, child, runs>>

Run ==
  \/ Start \/ Option \/ Usage \/ EndOfOptions \/ Leave \/ ChangeDir
  \/ Open \/ StatDotGit \/ OpenFails \/ NoCache \/ CreateKey \/ CreateKeyFails
  \/ Clean \/ Attach \/ Store \/ Show

\* Git and users change the trees at any time. A change while the options are
\* parsed is one before the run, one after the prompt is one after the run, and
\* one before the first run is another initial state.
World ==
  /\ runs > 0 /\ stage \notin {"options", "usage", "ended"}
  /\ ChangeTree
  /\ UNCHANGED <<main, cache>>

Terminating == stage = "idle" /\ ~child /\ runs = MaxRuns /\ UNCHANGED vars

Next == Run \/ World \/ Terminating

Spec == Init /\ [][Next]_vars

-----------------------------------------------------------------------------
\* However the options are combined and ordered, the program ends at the first
\* that must end it, with a status that tells help from an error, and otherwise
\* goes on with what the command line says as a whole. Of a disputed option it
\* is left open whether it ends the program.
OptionsAsWritten ==
  /\ stage = "chdir" =>
       (\A i \in 1 .. Len(argv) : Disputed(argv[i]) \/ ~Ending(argv[i])) /\ Means(argv, param)
  /\ stage = "usage" =>
       /\ \A i \in 1 .. optind - 1 : Disputed(argv[i]) \/ ~Ending(argv[i])
       /\ ~Disputed(argv[optind]) =>
            /\ Ending(argv[optind])
            /\ exit = 0 <=> Documented(argv[optind]) /\ argv[optind].name \in {"help", "version"}

\* Nobody moved tree t or replaced its file, and no other tree had its key: a
\* file at the same path, or one that ftok() cannot tell from it.
Settled(t) ==
  /\ t \notin touched /\ Present(t) /\ KeyOf(t) # None
  /\ \A x \in named : x[1] # t => x[2] # KeyOf(t)

\* The memory of a settled tree never holds the status of another tree, and
\* its prompts never show one, whatever happens to the other trees.
SettledShowsItself ==
  \A t \in Trees : Settled(t) =>
    /\ memory[KeyOf(t)] \in {t, Blank, None}
    /\ stage = "ended" /\ cwd = t => shown \in {t, Blank, None}

\* What a settled tree has cached stays cached until it is cleaned there:
\* runs in other trees, their cleans included, leave it alone.
SettledKeepsCache ==
  \A t \in Trees : Settled(t) /\ t \in cached => memory[KeyOf(t)] = t

\* Memory that no clean can reach any more, because no tree has its key, was
\* left by a tree that was moved or removed, or whose file was replaced: under
\* a key it had, or under that of .git where it was, which a run takes when the
\* tree goes away after it was found.
OrphansWereMoved ==
  \A k \in Keys : memory[k] # None =>
    \/ \E t \in Trees : Present(t) /\ KeyOf(t) = k
    \/ \E x \in named : x[1] \in touched /\ (x[2] = k \/ k \in DotGitKeys(x[3]))

=============================================================================
