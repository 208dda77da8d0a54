------------------------------ MODULE IpcKeys ------------------------------
(***************************************************************************)
(* The IPC key of a work tree: gitGetConfigPath() (native/git-ps1/gitop.c) *)
(* and createIpcKey() (ipc.c) take it from the path of .git/config (of the *)
(* file .git in a linked work tree), or from the file at this path, while  *)
(* git and users move work trees and replace that file.                    *)
(***************************************************************************)
EXTENDS Naturals

CONSTANTS
  Trees,     \* work trees
  Linked,    \* those that have a file .git instead of a directory
  Paths,     \* directories where a work tree may be
  Files,     \* device and inode of files, as one number
  FtokRange, \* how many files ftok() can tell apart
  Hash,      \* SHA-256 of the paths
  None,
  MaxMoves   \* bound on the changes of work trees

\* The path of .git/config, and that of .git itself.
Kinds == {"config", "gitfile"}

ASSUME IpcKeysAssumption ==
  /\ Linked \subseteq Trees
  /\ Files \subseteq Nat /\ FtokRange \in Nat \ {0}
  /\ None \notin Trees /\ None \notin Paths /\ None \notin Files
  /\ \A x, y \in Paths \X Kinds : Hash[x] = Hash[y] => x = y
  /\ MaxMoves \in Nat

VARIABLES
  posix,    \* the build
  place,    \* place[t]: the directory of tree t, or None
  config,   \* config[t]: the file the key of t is taken from, or None
  moves,    \* how many changes there were
  touched,  \* history: the trees that were moved, or whose file was replaced
  named     \* history: the keys that trees had where they were, as triples of
            \* tree, key and directory

trees == <<posix, place, config, moves, touched, named>>

Kind(t) == IF t \in Linked THEN "gitfile" ELSE "config"
Present(t) == place[t] # None
TreeAt(p) == {t \in Trees : place[t] = p}

ftok(file) == <<"ftok", file % FtokRange>>
sha256str(path) == <<"git-ps1-", Hash[path]>>

\* ftok() of the directory .git in p. It is told from all files: the clashes
\* are those of files.
ftokDir(p) == <<"ftok of .git", p>>

Keys == {ftok(f) : f \in Files} \cup {ftokDir(p) : p \in Paths} \cup {sha256str(x) : x \in Paths \X Kinds}

\* What git says of the work tree t, when it is there.
dotGitPath(t) == <<place[t], "gitfile">>

\* stat() of .git. Where it fails, because the tree is gone, that is no directory.
isDirectory(dotGit) == \E t \in TreeAt(dotGit[1]) : Kind(t) = "config"

\* Mutant: /config is appended to the file .git as well.
gitGetConfigPath_NoStat(dotGit) == <<dotGit[1], "config">>

\* The path of the file, when .git is there, or is not there any more.
gitGetConfigPath(dotGit) == IF isDirectory(dotGit) THEN <<dotGit[1], "config">> ELSE dotGit

\* The file at a path, if there is one: stat() follows links.
FileAt(path) == {config[t] : t \in {u \in TreeAt(path[1]) : Kind(u) = path[2]}} \ {None}

\* Mutant: the key is taken from a path that was not filled in.
createIpcKey_Empty(path) ==
  IF posix THEN {CHOOSE k \in {sha256str(x) : x \in Paths \X Kinds} : TRUE}
           ELSE {CHOOSE k \in {ftok(f) : f \in Files} : TRUE}

\* The key made of a path, if there is one.
createIpcKey(path) ==
  IF posix THEN {sha256str(path)}
  ELSE {ftok(f) : f \in FileAt(path)}
       \cup IF path[2] = "gitfile" /\ isDirectory(path) THEN {ftokDir(path[1])} ELSE {}

\* The keys of .git in p, which are no tree's when .git is a directory.
DotGitKeys(p) == IF posix THEN {sha256str(<<p, "gitfile">>)} ELSE {ftokDir(p)}

\* The key a tree should have, or None: the System V one is that of its file.
KeyOf(t) ==
  IF posix THEN <<"git-ps1-", Hash[<<place[t], Kind(t)>>]>>
  ELSE IF config[t] = None THEN None ELSE <<"ftok", config[t] % FtokRange>>

TreesTypeOK ==
  /\ posix \in BOOLEAN
  /\ place \in [Trees -> Paths \cup {None}]
  /\ config \in [Trees -> Files \cup {None}]
  /\ moves \in 0 .. MaxMoves
  /\ touched \subseteq Trees
  /\ named \subseteq Trees \X (Keys \cup {None}) \X Paths

Names == {<<t, KeyOf(t), place[t]>> : t \in {u \in Trees : Present(u)}}

\* A link may give two trees one file.
TreesInit ==
  /\ posix \in BOOLEAN
  /\ place \in [Trees -> Paths \cup {None}]
  /\ \A t, u \in Trees : place[t] = place[u] /\ place[t] # None => t = u
  /\ config \in [Trees -> Files \cup {None}]
  /\ \A t \in Trees : config[t] = None => t \notin Linked \/ place[t] = None
  /\ \A t \in Trees : place[t] = None => config[t] = None
  /\ moves = 0
  /\ touched = {}
  /\ named = Names

Free(p) == TreeAt(p) = {}
Unused == Files \ {config[t] : t \in Trees}

\* git config renames a new file over the old one, or somebody removes it; a
\* linked work tree is none without its file.
ReplaceConfig(t) ==
  /\ Present(t)
  /\ \E f \in Unused \cup {None} :
       (f = None => t \notin Linked) /\ config' = [config EXCEPT ![t] = f]
  /\ UNCHANGED place

MoveTree(t) ==
  /\ Present(t)
  /\ \E p \in Paths : Free(p) /\ place' = [place EXCEPT ![t] = p]
  /\ UNCHANGED config

RemoveTree(t) ==
  /\ Present(t)
  /\ place' = [place EXCEPT ![t] = None]
  /\ config' = [config EXCEPT ![t] = None]

\* git clone, init or worktree add.
CreateTree(t) ==
  /\ ~Present(t)
  /\ \E p \in Paths : Free(p) /\ place' = [place EXCEPT ![t] = p]
  /\ \E f \in Unused : config' = [config EXCEPT ![t] = f]

ChangeTree ==
  /\ moves < MaxMoves /\ moves' = moves + 1
  /\ \E t \in Trees :
       /\ ReplaceConfig(t) \/ MoveTree(t) \/ RemoveTree(t) \/ CreateTree(t)
       /\ touched' = touched \cup {t}
  /\ UNCHANGED posix
  /\ named' = named \cup Names'
=============================================================================
