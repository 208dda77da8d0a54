------------------------------- MODULE ScanDir -------------------------------
(***************************************************************************)
(* gitCheckUntracked() of the libgit2 build (native/git-ps1/gitop.c): the  *)
(* recursive scanDir() looks for the first file of the work tree that is   *)
(* neither ignored nor in the index it loaded before, while programs       *)
(* create and remove files and git changes the index.  The stack of        *)
(* recursive calls is a variable; a path is the directory that is read and *)
(* whether a symbolic link or a submodule was passed on the way to it.     *)
(***************************************************************************)
EXTENDS Sequences, FiniteSets, Naturals

CONSTANTS
  Nodes,       \* the entries a work tree may have
  Root,        \* the work tree itself
  Place,       \* Place[n]: the directory n is in, or would be in
  Kinds,       \* what an entry may be
  MaxLinks,    \* a bound: links in one path, the kernel's limit (ELOOP)
  MaxChanges   \* a bound: changes of the work tree and the index in a scan

\* The entries above n, and n: those in every set of entries that has n and,
\* with an entry, the directory it is in.
Closed(S) == \A m \in S : Place[m] \in S \cup {Root}
Above == [n \in Nodes \cup {Root} |->
            {d \in Nodes : \A S \in SUBSET Nodes : Closed(S) /\ n \in S \cup {Root} => d \in S}]

\* The work tree is a tree: its root is above every entry.
ASSUME ScanDirAssumption ==
  /\ Root \notin Nodes
  /\ Place \in [Nodes -> Nodes \cup {Root}]
  /\ \A n \in Nodes : \E e \in Above[n] : Place[e] = Root
  /\ Kinds \subseteq {"absent", "file", "dir", "link", "dangling", "submodule"}
  /\ MaxLinks \in Nat /\ MaxChanges \in Nat

VARIABLES
  kind,       \* kind[n]: what entry n is now
  index,      \* the entries in the index of the repository
  loaded,     \* pIndex: the index when gitCheckUntracked() read it
  ignored,    \* the entries an ignore rule names
  pc,         \* "load", "scan", or "found", "none", "failed" for what it returns
  stack,      \* the scanDir() calls: the directory and its unread entries
  open,       \* how many directory streams are open
  denied,     \* history: an opendir() failed
  changes,    \* the changes so far
  untracked,  \* history: the entries that were untracked during the scan
  restored,   \* history: the entries put into the index since it was read that
              \* were no files of the work tree then
  plain       \* history: there were only files and directories during the scan

treeVars == <<kind, index, ignored, changes, untracked, restored, plain>>
vars == <<treeVars, loaded, pc, stack, open, denied>>

Directories == {"dir", "link", "submodule"}

\* The directory a path to n leads to: a link points at the work tree, the
\* worst directory for a recursive scan.
Home(n) == IF kind[n] = "link" THEN Root ELSE n

\* What git calls untracked: a file or symbolic link that is neither in the
\* index nor ignored, in directories of this work tree that are not ignored.
Untracked ==
  {n \in Nodes : /\ kind[n] \in {"file", "link", "dangling"} /\ n \notin index
                 /\ Above[n] \cap ignored = {}
                 /\ \A d \in Above[n] \ {n} : kind[d] = "dir"}

\* A tree in which every entry is in a directory, and an index that holds the
\* submodules and no entry inside another. It may hold what the work tree has
\* not, or has as something else.
WellFormed ==
  /\ \A n \in Nodes : kind[n] # "absent" /\ Place[n] # Root => kind[Place[n]] \in {"dir", "submodule"}
  /\ \A n \in Nodes : kind[n] = "submodule" => n \in index
  /\ \A n \in index : (Above[n] \ {n}) \cap index = {}

\* No symbolic links and no submodules.
Plain == \A n \in Nodes : kind[n] \in {"absent", "file", "dir"}

TypeOK ==
  /\ kind \in [Nodes -> Kinds]
  /\ index \subseteq Nodes /\ loaded \subseteq Nodes /\ ignored \subseteq Nodes
  /\ pc \in {"load", "scan", "found", "none", "failed"}
  /\ \A i \in DOMAIN stack :
       stack[i] \in [dir : Nodes \cup {Root}, foreign : BOOLEAN, links : 0 .. MaxLinks, todo : SUBSET Nodes]
  /\ open \in Nat
  /\ denied \in BOOLEAN
  /\ changes \in 0 .. MaxChanges
  /\ untracked \subseteq Nodes /\ restored \subseteq Nodes
  /\ plain \in BOOLEAN

Init ==
  /\ kind \in [Nodes -> Kinds]
  /\ index \in SUBSET Nodes
  /\ ignored \in SUBSET Nodes
  /\ WellFormed
  /\ loaded = {}
  /\ pc = "load"
  /\ stack = <<>>
  /\ open = 0
  /\ denied = FALSE
  /\ changes = 0
  /\ untracked = Untracked
  /\ restored = {}
  /\ plain = Plain

-----------------------------------------------------------------------------
(* The scan.                                                               *)

\* opendir(): the names readdir() may still return.  One that is created in
\* the meantime is returned or, as if it was read before that, is not.
Frame(d, foreign, links) ==
  [dir |-> d, foreign |-> foreign, links |-> links, todo |-> {n \in Nodes : Place[n] = d}]

Top == stack[Len(stack)]
Popped == SubSeq(stack, 1, Len(stack) - 1)
WithoutEntry(n) == [stack EXCEPT ![Len(stack)].todo = @ \ {n}]

\* gitCheckUntracked() loads the index and calls scanDir() for the work tree.
gitCheckUntracked ==
  /\ pc = "load"
  /\ loaded' = index
  /\ stack' = <<Frame(Root, FALSE, 0)>>
  /\ open' = 1
  /\ pc' = "scan"
  /\ UNCHANGED <<treeVars, denied>>

\* git_repository_index() or git_repository_workdir() fails: no answer.
LoadFails ==
  /\ pc = "load"
  /\ pc' = "failed"
  /\ UNCHANGED <<treeVars, loaded, stack, open, denied>>

\* The work tree itself cannot be opened: no untracked file, and no failure.
OpenRootFails ==
  /\ pc = "load"
  /\ loaded' = index
  /\ pc' = "none"
  /\ denied' = TRUE
  /\ UNCHANGED <<treeVars, stack, open>>

Scanning == pc = "scan" /\ stack # <<>>

\* An entry is skipped when a rule ignores it or stat() fails: it was removed,
\* it is a dangling link, or its path has too many links.
SkipEntry ==
  /\ Scanning
  /\ \E n \in Top.todo :
       /\ \/ n \in ignored
          \/ kind[n] \in {"absent", "dangling"}
          \/ kind[n] = "link" /\ Top.links = MaxLinks
       /\ stack' = WithoutEntry(n)
  /\ UNCHANGED <<treeVars, loaded, pc, open, denied>>

\* Mutant: the number of links in a path is not limited.
Enter_NoLimit ==
  /\ Scanning
  /\ \E n \in Top.todo \ ignored :
       /\ kind[n] \in Directories
       /\ stack' = Append(WithoutEntry(n),
                          Frame(Home(n), Top.foreign \/ kind[n] # "dir",
                                IF kind[n] = "link" THEN Top.links + 1 ELSE Top.links))
  /\ open' = open + 1
  /\ UNCHANGED <<treeVars, loaded, pc, denied>>

\* stat() says directory, of a link what it points at: call scanDir() for it.
Enter ==
  /\ Scanning
  /\ \E n \in Top.todo \ ignored :
       /\ kind[n] \in Directories
       /\ kind[n] = "link" => Top.links < MaxLinks
       /\ stack' = Append(WithoutEntry(n),
                          Frame(Home(n), Top.foreign \/ kind[n] # "dir",
                                IF kind[n] = "link" THEN Top.links + 1 ELSE Top.links))
  /\ open' = open + 1
  /\ UNCHANGED <<treeVars, loaded, pc, denied>>

\* opendir() of a directory fails: its scanDir() returns false.
EnterFails ==
  /\ Scanning
  /\ \E n \in Top.todo \ ignored :
       /\ kind[n] \in Directories
       /\ stack' = WithoutEntry(n)
  /\ denied' = TRUE
  /\ UNCHANGED <<treeVars, loaded, pc, open>>

\* The index names a file by its path in this work tree, without links.
isTracked(n) == n \in loaded /\ ~Top.foreign

\* Mutant: the loop continues without readdir().
PassFile_Again ==
  /\ Scanning
  /\ \E n \in Top.todo \ ignored : kind[n] = "file" /\ isTracked(n)
  /\ UNCHANGED vars

\* A tracked file.
PassFile ==
  /\ Scanning
  /\ \E n \in Top.todo \ ignored :
       /\ kind[n] = "file" /\ isTracked(n)
       /\ stack' = WithoutEntry(n)
  /\ UNCHANGED <<treeVars, loaded, pc, open, denied>>

\* Mutants: the file that is found ends the scan without closedir(), and the
\* file is not looked up in the index.
FindFile_NoClose ==
  /\ Scanning
  /\ \E n \in Top.todo \ ignored : kind[n] = "file" /\ ~isTracked(n)
  /\ pc' = "found"
  /\ stack' = Popped
  /\ UNCHANGED <<treeVars, loaded, open, denied>>

FindFile_Tracked ==
  /\ Scanning
  /\ \E n \in Top.todo \ ignored : kind[n] = "file"
  /\ pc' = "found"
  /\ stack' = Popped
  /\ open' = open - 1
  /\ UNCHANGED <<treeVars, loaded, denied>>

\* A file that is not in the index: close the directory and return true.
FindFile ==
  /\ Scanning
  /\ \E n \in Top.todo \ ignored : kind[n] = "file" /\ ~isTracked(n)
  /\ pc' = "found"
  /\ stack' = Popped
  /\ open' = open - 1
  /\ UNCHANGED <<treeVars, loaded, denied>>

\* The callers return true as well.
ReturnFound ==
  /\ pc = "found" /\ stack # <<>>
  /\ stack' = Popped
  /\ open' = open - 1
  /\ UNCHANGED <<treeVars, loaded, pc, denied>>

\* Mutant: the result of the recursive call is returned even when false.
EndOfDirectory_Returns ==
  /\ Scanning
  /\ Top.todo = {}
  /\ stack' = <<>>
  /\ open' = 0
  /\ pc' = "none"
  /\ UNCHANGED <<treeVars, loaded, denied>>

\* readdir() has no more entries: return false to the caller.
EndOfDirectory ==
  /\ Scanning
  /\ Top.todo = {}
  /\ stack' = Popped
  /\ open' = open - 1
  /\ pc' = IF Len(stack) = 1 THEN "none" ELSE "scan"
  /\ UNCHANGED <<treeVars, loaded, denied>>

Scan ==
  \/ gitCheckUntracked \/ LoadFails \/ OpenRootFails
  \/ SkipEntry \/ Enter \/ EnterFails \/ PassFile \/ FindFile
  \/ ReturnFound \/ EndOfDirectory

-----------------------------------------------------------------------------
(* Other programs, while the scan runs.                                    *)

Ended == pc \in {"found", "none", "failed"} /\ stack = <<>>

Changed ==
  /\ ~Ended /\ changes < MaxChanges
  /\ changes' = changes + 1
  /\ UNCHANGED <<ignored, loaded, pc, stack, open, denied>>
  /\ WellFormed'
  /\ untracked' = untracked \cup Untracked'
  /\ plain' = (plain /\ Plain')

\* A file is created, removed or replaced.
ChangeEntry ==
  /\ \E n \in Nodes, k \in Kinds : kind[n] # k /\ kind' = [kind EXCEPT ![n] = k]
  /\ UNCHANGED <<index, restored>>
  /\ Changed

\* git rm --cached; git add; git reset and git checkout, which may put into the
\* index what is not in the work tree, or not yet.
ChangeIndex ==
  /\ \/ /\ \E n \in index : index' = index \ {n}
        /\ UNCHANGED restored
     \/ \E n \in Nodes \ index :
          /\ index' = index \cup {n}
          /\ restored' = restored \cup IF pc = "load" \/ kind[n] = "file" THEN {} ELSE {n}
  /\ UNCHANGED kind
  /\ Changed

Terminating == Ended /\ UNCHANGED vars

Next == Scan \/ ChangeEntry \/ ChangeIndex \/ Terminating

Spec == Init /\ [][Next]_vars
FairSpec == Spec /\ WF_vars(Scan)

-----------------------------------------------------------------------------
\* Every directory stream that was opened is closed when the scan returns,
\* also on the way out of a deep tree.
DirectoriesClosed == Ended => open = 0

\* When a file is found, one was untracked at some moment of the scan, although
\* the index is read before the tree and both change meanwhile, in a work tree
\* without links and submodules; unless git put a missing file into the index
\* after that was read, as git reset and a checkout do to restore it.
FoundWasUntracked == pc = "found" /\ plain => untracked # {} \/ restored # {}

\* The answer for such a tree, when nobody changes it and its directories and
\* the index can be read, is git's.
SettledIsUntracked ==
  Ended /\ pc # "failed" /\ plain /\ changes = 0 /\ ~denied => (pc = "found" <=> Untracked # {})

\* Links and submodules included, only untracked files are reported.
FoundIsUntracked == pc = "found" /\ changes = 0 => Untracked # {}

\* The scan returns, also of a tree with links to a directory above them.
ScanReturns == <>Ended

=============================================================================
