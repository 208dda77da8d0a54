----------------------------- MODULE DisplayName -----------------------------
(***************************************************************************)
(* The name in the prompt: getDisplayName() of native/git-ps1/main.c and   *)
(* the three functions of gitop.c it calls, in both builds: with libgit2,  *)
(* and with git commands.  Each call reads HEAD and the references anew,   *)
(* and git may move them between two reads.                                *)
(***************************************************************************)
EXTENDS Naturals

CONSTANTS
  Branches, Tags, Commits,  \* names of the three kinds
  None,                     \* no commit, and the empty string in name
  Builds,                   \* TRUE is the libgit2 build, FALSE the other
  MaxMoves                  \* a bound: how often git moves a reference

ASSUME DisplayNameAssumption ==
  /\ Branches \cap Tags = {} /\ Branches \cap Commits = {} /\ Tags \cap Commits = {}
  /\ None \notin Branches \cup Tags \cup Commits
  /\ Builds \subseteq BOOLEAN /\ MaxMoves \in Nat

VARIABLES
  libgit2,   \* which build runs
  head,      \* the branch HEAD names, or the commit it is detached at
  tip,       \* tip[b]: the commit of branch b, None before its first one
  tag,       \* tag[t]: the commit tag t points at, None for no tag
  pc,        \* the read the program is at
  peeled,    \* pObjHead in gitGetCurrentTagName()
  name,      \* buf, None for the empty string
  nameType,  \* what getDisplayName() returned
  failed,    \* history: some call failed
  moves,     \* the moves of references so far
  atHead,    \* history: the branches and commits HEAD was at during the run
  tagged     \* history: the tags and commits that were paired during the run

refVars == <<head, tip, tag, moves, atHead, tagged>>
vars == <<libgit2, refVars, pc, peeled, name, nameType, failed>>

\* The commit HEAD resolves to, None when it names a branch without commits.
HeadCommit == IF head \in Branches THEN tip[head] ELSE head
Pairs == {<<t, tag[t]>> : t \in {u \in Tags : tag[u] # None}}
TagsAt(c) == {t \in Tags : tag[t] = c /\ c # None}

TypeOK ==
  /\ libgit2 \in Builds
  /\ head \in Branches \cup Commits
  /\ tip \in [Branches -> Commits \cup {None}]
  /\ tag \in [Tags -> Commits \cup {None}]
  /\ pc \in {"branch", "taghead", "tagref", "tagbranch", "tagname", "hash", "done"}
  /\ peeled \in Commits \cup {None}
  /\ name \in Branches \cup Tags \cup Commits \cup {None}
  /\ nameType \in {"unset", "kNone", "kBranch", "kTag", "kCommitHash"}
  /\ failed \in BOOLEAN
  /\ moves \in 0 .. MaxMoves
  /\ atHead \subseteq Branches \cup Commits
  /\ tagged \subseteq Tags \X Commits

Init ==
  /\ libgit2 \in Builds
  /\ head \in Branches \cup Commits
  /\ tip \in [Branches -> Commits \cup {None}]
  /\ tag \in [Tags -> Commits \cup {None}]
  /\ pc = "branch"
  /\ peeled = None
  /\ name = None
  /\ nameType = "unset"
  /\ failed = FALSE
  /\ moves = 0
  /\ atHead = {head, HeadCommit} \ {None}
  /\ tagged = Pairs

-----------------------------------------------------------------------------
(* git in another terminal, while the program runs.                        *)

Moved ==
  /\ pc # "done" /\ moves < MaxMoves
  /\ moves' = moves + 1
  /\ atHead' = atHead \cup ({head', HeadCommit'} \ {None})
  /\ tagged' = tagged \cup Pairs'
  /\ UNCHANGED <<libgit2, pc, peeled, name, nameType, failed>>

MoveHead ==
  /\ head' \in Branches \cup Commits
  /\ UNCHANGED <<libgit2, tip, tag>>
  /\ Moved

MoveBranch ==
  /\ \E b \in Branches, c \in Commits : tip' = [tip EXCEPT ![b] = c]
  /\ UNCHANGED <<libgit2, head, tag>>
  /\ Moved

MoveTag ==
  /\ \E t \in Tags, c \in Commits \cup {None} : tag' = [tag EXCEPT ![t] = c]
  /\ UNCHANGED <<libgit2, head, tip>>
  /\ Moved

-----------------------------------------------------------------------------
(* The program.  Read(n, next) is the end of a call that found the name n; *)
(* an empty one sends getDisplayName() to its next call.                   *)

Return(n, type) ==
  /\ pc' = "done" /\ name' = n /\ nameType' = type
  /\ UNCHANGED <<libgit2, refVars, peeled, failed>>

Read(n, type, next) ==
  IF n # None THEN Return(n, type)
  ELSE /\ pc' = next
       /\ UNCHANGED <<libgit2, refVars, peeled, name, nameType, failed>>

\* Mutant: every call of getDisplayName() is taken for a branch.
gitGetCurrentBranchName_Detached ==
  /\ pc = "branch"
  /\ Read(HeadCommit, "kBranch", IF libgit2 THEN "taghead" ELSE "tagbranch")

\* Mutant: the hash is asked for before the tags.
gitGetCurrentBranchName_HashNext ==
  /\ pc = "branch"
  /\ Read(IF head \in Branches /\ (libgit2 => HeadCommit # None) THEN head ELSE None, "kBranch", "hash")

\* libgit2 has no reference for a branch without commits; git names it.
gitGetCurrentBranchName ==
  /\ pc = "branch"
  /\ Read(IF head \in Branches /\ (libgit2 => HeadCommit # None) THEN head ELSE None, "kBranch",
          IF libgit2 THEN "taghead" ELSE "tagbranch")

\* Mutant: HEAD is not peeled to a commit.
TagHead_NoPeel ==
  /\ pc = "taghead"
  /\ pc' = IF HeadCommit = None THEN "hash" ELSE "tagref"
  /\ peeled' = head
  /\ UNCHANGED <<libgit2, refVars, name, nameType, failed>>

\* gitGetCurrentTagName() of the libgit2 build: peel HEAD ...
TagHead ==
  /\ pc = "taghead"
  /\ pc' = IF HeadCommit = None THEN "hash" ELSE "tagref"
  /\ peeled' = HeadCommit
  /\ UNCHANGED <<libgit2, refVars, name, nameType, failed>>

\* Mutant: the tags are not compared with the commit of HEAD.
TagRef_AnyTag ==
  /\ pc = "tagref"
  /\ \E n \in {t \in Tags : tag[t] # None} \cup {None} : Read(n, "kTag", "hash")

\* ... and look for a tag of that commit.
TagRef ==
  /\ pc = "tagref"
  /\ \/ \E t \in TagsAt(peeled) : Read(t, "kTag", "hash")
     \/ TagsAt(peeled) = {} /\ Read(None, "kTag", "hash")

\* gitGetCurrentTagName() of the command build asks for the branch again.
TagBranch ==
  /\ pc = "tagbranch"
  /\ Read(IF head \in Branches THEN head ELSE None, "kTag", "tagname")

\* The build with commands asks git for the tags at HEAD.
TagName ==
  /\ pc = "tagname"
  /\ \/ \E t \in TagsAt(HeadCommit) : Read(t, "kTag", "hash")
     \/ TagsAt(HeadCommit) = {} /\ Read(None, "kTag", "hash")

gitGetCommitHashShort ==
  /\ pc = "hash"
  /\ Return(HeadCommit, IF HeadCommit = None THEN "kNone" ELSE "kCommitHash")

\* A call fails: getDisplayName() gives up after a branch or a hash, and asks
\* for the hash after a tag.
CallFails ==
  /\ pc # "done"
  /\ IF pc \in {"branch", "hash"}
       THEN pc' = "done" /\ nameType' = "kNone"
       ELSE pc' = "hash" /\ UNCHANGED nameType
  /\ failed' = TRUE
  /\ UNCHANGED <<libgit2, refVars, peeled, name>>

getDisplayName ==
  \/ gitGetCurrentBranchName
  \/ TagHead \/ TagRef \/ TagBranch \/ TagName
  \/ gitGetCommitHashShort
  \/ CallFails

Terminating == pc = "done" /\ UNCHANGED vars

Next == getDisplayName \/ MoveHead \/ MoveBranch \/ MoveTag \/ Terminating

Spec == Init /\ [][Next]_vars

-----------------------------------------------------------------------------
\* printPs1() prints nothing for an empty name.
Shown == pc = "done" /\ name # None

\* In the libgit2 build the colour of a name tells what it is: a branch, a tag
\* or a commit, also when git moves HEAD between the calls.
TypeTellsKind ==
  Shown /\ libgit2 => \/ nameType = "kBranch" /\ name \in Branches
                      \/ nameType = "kTag" /\ name \in Tags
                      \/ nameType = "kCommitHash" /\ name \in Commits

\* The prompt never names a reference HEAD was not at: a branch or commit
\* shown was HEAD's at some moment of the run, and a tag shown pointed then
\* at a commit HEAD was at, whatever git does meanwhile.
NameWasAtHead ==
  Shown => \/ name \in atHead
           \/ \E c \in atHead \cap Commits : <<name, c>> \in tagged

\* What a prompt of an undisturbed repository should show.
Expected ==
  IF head \in Branches /\ (libgit2 => HeadCommit # None) THEN {<<head, "kBranch">>}
  ELSE IF HeadCommit = None THEN {<<None, "kNone">>}
  ELSE IF TagsAt(HeadCommit) # {} THEN TagsAt(HeadCommit) \X {"kTag"}
  ELSE {<<HeadCommit, "kCommitHash">>}

\* Where nothing moves and no call fails, the branch wins over the tags and
\* the tags over the hash.
SettledIsExpected ==
  pc = "done" /\ moves = 0 /\ ~failed => <<name, nameType>> \in Expected

=============================================================================
