----------------------------- MODULE Repository -----------------------------
(***************************************************************************)
(* What the status checks of git-ps1 look at: the versions of the files in *)
(* the commit at HEAD, in the index and in the work tree. Git and editors  *)
(* change one of the three at a time: a checkout writes the work tree, then*)
(* the index, then HEAD. A layout says where a search for untracked files  *)
(* does not see what git means by them: dangling are the links that lead   *)
(* nowhere, unreadable the files of directories that cannot be opened, and *)
(* a work tree is foreign when a link or a submodule that the index has is *)
(* a directory of files that the index does not have. Ignored files are    *)
(* left to ScanDir.                                                        *)
(***************************************************************************)
EXTENDS Naturals

CONSTANTS
  Files,     \* paths
  Contents,  \* versions of a file
  Commits,   \* the trees of the commits that HEAD may come to
  None,      \* no such file
  Unborn,    \* HEAD names a branch without commits
  Layouts,   \* the layouts of the work tree
  MaxMoves   \* bound on the changes during one run

ASSUME RepositoryAssumption ==
  /\ None \notin Contents
  /\ Commits \subseteq [Files -> Contents \cup {None}]
  /\ Unborn \notin [Files -> Contents \cup {None}]
  /\ Layouts \subseteq [dangling : SUBSET Files, unreadable : SUBSET Files, foreign : BOOLEAN]
  /\ MaxMoves \in Nat

Trees == [Files -> Contents \cup {None}]

VARIABLES
  head,     \* the tree at HEAD, or Unborn
  index,
  work,
  layout,   \* of the work tree, the same during one run
  moves,    \* how many changes there were
  seen,     \* the marks files had at some time: pairs of mark and file
  touched   \* what was changed: pairs of "head", "index" or "work" and file

repository == <<head, index, work, layout, moves, seen, touched>>

RepositoryTypeOK ==
  /\ head \in Commits \cup {Unborn}
  /\ index \in Trees /\ work \in Trees
  /\ layout \in Layouts
  /\ moves \in 0 .. MaxMoves
  /\ seen \subseteq (1 .. 3) \X Files
  /\ touched \subseteq {"head", "index", "work"} \X Files

\* The tree a HEAD stands for: git compares an unborn one as empty.
TreeOf(h) == IF h = Unborn THEN [f \in Files |-> None] ELSE h

\* What git calls changed (1), staged (2) and untracked (3).
Differs(mark, f, h, i, w) ==
  CASE mark = 1 -> i[f] # None /\ w[f] # i[f]
    [] mark = 2 -> TreeOf(h)[f] # i[f]
    [] mark = 3 -> i[f] = None /\ w[f] # None

MarksOf(h, i, w) == {m \in (1 .. 3) \X Files : Differs(m[1], m[2], h, i, w)}

RepositoryInit ==
  /\ head \in Commits \cup {Unborn} /\ index \in Trees /\ work \in Trees
  /\ layout \in Layouts
  /\ moves = 0
  /\ seen = MarksOf(head, index, work)
  /\ touched = {}

\* Any change of one of the three: commit, reset, checkout, add, rm, an edit.
Move ==
  /\ moves < MaxMoves /\ moves' = moves + 1
  /\ \/ \E h \in Commits \cup {Unborn} :
          /\ head' = h
          /\ touched' = touched \cup {<<"head", f>> : f \in Files}
          /\ UNCHANGED <<index, work>>
     \/ \E f \in Files, v \in Contents \cup {None} :
          \/ /\ index' = [index EXCEPT ![f] = v]
             /\ touched' = touched \cup {<<"index", f>>}
             /\ UNCHANGED <<head, work>>
          \/ /\ work' = [work EXCEPT ![f] = v]
             /\ touched' = touched \cup {<<"work", f>>}
             /\ UNCHANGED <<head, index>>
  /\ seen' = seen \cup MarksOf(head', index', work')
  /\ UNCHANGED layout

=============================================================================
