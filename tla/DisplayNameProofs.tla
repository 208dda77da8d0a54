-------------------------- MODULE DisplayNameProofs --------------------------
(***************************************************************************)
(* What the prompt's name and its colour promise while git moves HEAD and  *)
(* the references, for every set of references and any number of moves.    *)
(***************************************************************************)
EXTENDS DisplayName, TLAPS

\* The labels of the build.
PcOfBuild == libgit2 => pc \notin {"tagbranch", "tagname"}

\* The histories hold the present, and the commit peeled is one of them.
HistoryInv ==
  /\ head \in atHead
  /\ HeadCommit # None => HeadCommit \in atHead
  /\ Pairs \subseteq tagged
  /\ pc = "tagref" => peeled \in atHead \cap Commits

\* An unfinished run has no name.
NoNameYet == pc # "done" => name = None

IInv == TypeOK /\ PcOfBuild /\ HistoryInv /\ NoNameYet /\ NameWasAtHead

\* The property of the libgit2 build, with the part it needs.
KindInv == IInv /\ TypeTellsKind

LEMMA InitInv == Init => KindInv
<1> SUFFICES ASSUME Init PROVE KindInv
  OBVIOUS
<1> USE DisplayNameAssumption DEF Init
<1>1. HeadCommit \in Commits \cup {None} /\ Pairs \subseteq Tags \X Commits
  BY DEF HeadCommit, Pairs
<1>2. TypeOK
  <2>1. atHead \subseteq Branches \cup Commits
    BY <1>1
  <2>2. tagged \subseteq Tags \X Commits
    BY <1>1
  <2>3. moves \in 0 .. MaxMoves
    OBVIOUS
  <2>4. failed \in BOOLEAN
    BY Zenon
  <2> QED BY <2>1, <2>2, <2>3, <2>4 DEF TypeOK
<1>3. HistoryInv
  BY <1>1 DEF HistoryInv
<1> QED
  BY <1>2, <1>3 DEF KindInv, IInv, PcOfBuild, NoNameYet, NameWasAtHead, TypeTellsKind, Shown

LEMMA HeadCommitType == TypeOK => HeadCommit \in Commits \cup {None}
BY DisplayNameAssumption DEF TypeOK, HeadCommit

\* git's moves keep every run's histories complete.
LEMMA MovesKeep ==
  ASSUME KindInv, MoveHead \/ MoveBranch \/ MoveTag
  PROVE  KindInv'
<1> USE DisplayNameAssumption DEF KindInv, IInv
<1>1. Moved /\ pc' = pc /\ pc # "done"
  BY DEF MoveHead, MoveBranch, MoveTag, Moved
<1>2. /\ head' \in Branches \cup Commits
      /\ tip' \in [Branches -> Commits \cup {None}]
      /\ tag' \in [Tags -> Commits \cup {None}]
  BY DEF MoveHead, MoveBranch, MoveTag, TypeOK
<1>3. HeadCommit' \in Commits \cup {None} /\ Pairs' \subseteq Tags \X Commits
  BY <1>2 DEF HeadCommit, Pairs
<1>4. TypeOK'
  BY <1>1, <1>2, <1>3 DEF TypeOK, Moved
<1>5. HistoryInv'
  BY <1>1, <1>2, <1>3 DEF Moved, HistoryInv
<1> QED
  BY <1>1, <1>4, <1>5 DEF Moved, PcOfBuild, NoNameYet, NameWasAtHead, TypeTellsKind, Shown

\* The end of a call.
LEMMA ReadKeeps ==
  ASSUME KindInv, NEW n \in Branches \cup Tags \cup Commits \cup {None},
         NEW type \in {"kBranch", "kTag", "kCommitHash"},
         NEW next \in {"taghead", "tagbranch", "tagname", "hash"},
         Read(n, type, next), pc # "done", libgit2 => next \in {"taghead", "hash"},
         n # None => n \in atHead \/ \E c \in atHead \cap Commits : <<n, c>> \in tagged,
         libgit2 /\ n # None =>
           \/ type = "kBranch" /\ n \in Branches
           \/ type = "kTag" /\ n \in Tags
           \/ type = "kCommitHash" /\ n \in Commits
  PROVE  KindInv'
<1> USE DisplayNameAssumption DEF KindInv, IInv
<1>1. CASE n = None
  <2>1. pc' = next /\ UNCHANGED <<libgit2, refVars, peeled, name, nameType, failed>>
    BY <1>1 DEF Read
  <2> QED
    BY <2>1 DEF refVars, TypeOK, PcOfBuild, HistoryInv, HeadCommit, Pairs, NoNameYet,
                NameWasAtHead, TypeTellsKind, Shown
<1>2. CASE n # None
  <2>1. pc' = "done" /\ name' = n /\ nameType' = type /\ UNCHANGED <<libgit2, refVars, peeled, failed>>
    BY <1>2 DEF Read, Return
  <2> QED
    BY <1>2, <2>1 DEF refVars, TypeOK, PcOfBuild, HistoryInv, HeadCommit, Pairs, NoNameYet,
                NameWasAtHead, TypeTellsKind, Shown
<1> QED BY <1>1, <1>2

LEMMA ProgramKeeps ==
  ASSUME KindInv, getDisplayName
  PROVE  KindInv'
<1> USE DisplayNameAssumption DEF KindInv, IInv
<1>h. HeadCommit \in Commits \cup {None}
  BY HeadCommitType
<1>t. \A c \in Commits : \A t \in TagsAt(c) : t \in Tags /\ <<t, c>> \in tagged
  BY DEF TagsAt, HistoryInv, Pairs, TypeOK
<1>1. CASE gitGetCurrentBranchName
  <2>1. PICK n \in Branches \cup {None}, next \in {"taghead", "tagbranch"} :
          /\ n # None => n \in atHead
          /\ libgit2 => next = "taghead"
          /\ Read(n, "kBranch", next)
    BY <1>1 DEF gitGetCurrentBranchName, HistoryInv
  <2>2. pc = "branch"
    BY <1>1 DEF gitGetCurrentBranchName
  <2> QED BY <2>1, <2>2, ReadKeeps
<1>2. CASE TagHead
  BY <1>2, <1>h DEF TagHead, refVars, TypeOK, PcOfBuild, HistoryInv, HeadCommit, Pairs, NoNameYet,
       NameWasAtHead, TypeTellsKind, Shown
<1>3. CASE TagRef
  <2>1. pc = "tagref" /\ peeled \in atHead \cap Commits
    BY <1>3 DEF TagRef, HistoryInv
  <2>2. PICK n \in TagsAt(peeled) \cup {None} : Read(n, "kTag", "hash")
    BY <1>3 DEF TagRef
  <2> QED BY <2>1, <2>2, <1>t, ReadKeeps
<1>4. CASE TagBranch
  <2>1. PICK n \in Branches \cup {None} : (n # None => n \in atHead) /\ Read(n, "kTag", "tagname")
    BY <1>4 DEF TagBranch, HistoryInv
  <2>2. pc = "tagbranch" /\ ~libgit2
    BY <1>4 DEF TagBranch, PcOfBuild
  <2> QED BY <2>1, <2>2, ReadKeeps
<1>5. CASE TagName
  <2>1. pc = "tagname"
    BY <1>5 DEF TagName
  <2>2. PICK n \in TagsAt(HeadCommit) \cup {None} : Read(n, "kTag", "hash")
    BY <1>5 DEF TagName
  <2>3. n # None => HeadCommit \in atHead \cap Commits
    BY <1>h, <2>2 DEF TagsAt, HistoryInv
  <2> QED BY <2>1, <2>2, <2>3, <1>t, ReadKeeps
<1>6. CASE gitGetCommitHashShort
  <2>1. /\ pc = "hash" /\ pc' = "done" /\ name' = HeadCommit
        /\ nameType' = IF HeadCommit = None THEN "kNone" ELSE "kCommitHash"
        /\ UNCHANGED <<libgit2, refVars, peeled, failed>>
    BY <1>6 DEF gitGetCommitHashShort, Return
  <2> QED
    BY <1>h, <2>1 DEF refVars, TypeOK, PcOfBuild, HistoryInv, HeadCommit, Pairs, NoNameYet,
                NameWasAtHead, TypeTellsKind, Shown
<1>7. CASE CallFails
  BY <1>7 DEF CallFails, refVars, TypeOK, PcOfBuild, HistoryInv, HeadCommit, Pairs, NoNameYet,
       NameWasAtHead, TypeTellsKind, Shown
<1> QED BY <1>1, <1>2, <1>3, <1>4, <1>5, <1>6, <1>7 DEF getDisplayName

LEMMA StepKeeps == KindInv /\ [Next]_vars => KindInv'
<1> SUFFICES ASSUME KindInv, [Next]_vars PROVE KindInv'
  OBVIOUS
<1>1. CASE UNCHANGED vars
  BY <1>1 DEF vars, refVars, KindInv, IInv, TypeOK, PcOfBuild, HistoryInv, HeadCommit, Pairs,
       NoNameYet, NameWasAtHead, TypeTellsKind, Shown
<1> QED BY <1>1, MovesKeep, ProgramKeeps DEF Next, Terminating

LEMMA AlwaysKindInv == Spec => []KindInv
BY InitInv, StepKeeps, PTL DEF Spec

\* The prompt never names a reference HEAD was not at during the run, in both
\* builds, whatever git moves meanwhile.
THEOREM NamesOnlyHead == Spec => []NameWasAtHead
<1>1. KindInv => NameWasAtHead
  BY DEF KindInv, IInv
<1> QED BY <1>1, AlwaysKindInv, PTL

\* In the libgit2 build the colour of the name tells what it is, whatever git
\* moves meanwhile.
THEOREM ColourTellsKind == Spec => []TypeTellsKind
<1>1. KindInv => TypeTellsKind
  BY DEF KindInv
<1> QED BY <1>1, AlwaysKindInv, PTL

-----------------------------------------------------------------------------
(* What a run knows of an undisturbed repository at each of its reads.     *)

HasBranch == head \in Branches /\ (libgit2 => HeadCommit # None)

\* Past the first read there is no branch, past the tags there is none, and a
\* finished run shows what it should.
Knows ==
  /\ pc \in {"taghead", "tagref", "tagbranch", "tagname", "hash"} => ~HasBranch
  /\ pc = "tagref" => peeled = HeadCommit /\ HeadCommit # None
  /\ pc = "hash" => TagsAt(HeadCommit) = {}
  /\ pc = "done" => <<name, nameType>> \in Expected

SettledInv == moves = 0 /\ ~failed => Knows

\* What is known of the repository does not depend on the program.
LEMMA RefsKept ==
  ASSUME UNCHANGED <<libgit2, refVars>>
  PROVE  /\ HeadCommit' = HeadCommit /\ Expected' = Expected /\ HasBranch' = HasBranch
         /\ TagsAt(HeadCommit)' = TagsAt(HeadCommit)
BY DEF refVars, HeadCommit, TagsAt, Expected, HasBranch

LEMMA MovesDisturb ==
  ASSUME TypeOK, MoveHead \/ MoveBranch \/ MoveTag
  PROVE  SettledInv'
<1>1. moves' = moves + 1
  BY DEF MoveHead, MoveBranch, MoveTag, Moved
<1>2. moves \in Nat
  BY DisplayNameAssumption DEF TypeOK
<1>3. moves' # 0
  BY <1>1, <1>2
<1> QED BY <1>3 DEF SettledInv

LEMMA ProgramSettles ==
  ASSUME KindInv, SettledInv, getDisplayName
  PROVE  SettledInv'
<1> SUFFICES ASSUME moves' = 0, ~failed' PROVE Knows'
  BY DEF SettledInv
<1> USE DisplayNameAssumption DEF Knows
<1>t. TypeOK /\ PcOfBuild
  BY DEF KindInv, IInv
<1>h. HeadCommit \in Commits \cup {None}
  BY <1>t, HeadCommitType
<1>c. ~CallFails
  BY DEF CallFails
<1>u. UNCHANGED <<libgit2, refVars, failed>>
  BY <1>c DEF getDisplayName, gitGetCurrentBranchName, TagHead, TagRef, TagBranch, TagName,
       gitGetCommitHashShort, Read, Return
<1>k. Knows
  BY <1>u DEF refVars, SettledInv
<1>r. /\ HeadCommit' = HeadCommit /\ Expected' = Expected /\ HasBranch' = HasBranch
      /\ TagsAt(HeadCommit)' = TagsAt(HeadCommit)
  <2>1. UNCHANGED <<libgit2, refVars>>
    BY <1>u
  <2> QED BY <2>1, RefsKept
<1>d. head \notin Branches => HeadCommit # None
  BY <1>t DEF TypeOK, HeadCommit
<1>1. CASE gitGetCurrentBranchName
  <2>1. CASE HasBranch
    <3>1. pc' = "done" /\ name' = head /\ nameType' = "kBranch"
      BY <1>1, <2>1 DEF gitGetCurrentBranchName, HasBranch, Read, Return
    <3>2. <<head, "kBranch">> \in Expected
      BY <2>1 DEF Expected, HasBranch
    <3> QED BY <3>1, <3>2, <1>r
  <2>2. CASE ~HasBranch
    <3>1. pc' \in {"taghead", "tagbranch"}
      BY <1>1, <2>2 DEF gitGetCurrentBranchName, HasBranch, Read
    <3> QED BY <3>1, <2>2, <1>r
  <2> QED BY <2>1, <2>2
<1>2. CASE TagHead
  <2>1. ~HasBranch /\ peeled' = HeadCommit /\ pc' = IF HeadCommit = None THEN "hash" ELSE "tagref"
    BY <1>2, <1>k DEF TagHead
  <2>2. HeadCommit = None => TagsAt(HeadCommit) = {}
    BY DEF TagsAt
  <2> QED BY <2>1, <2>2, <1>r
<1>3. CASE TagRef
  <2>1. ~HasBranch /\ peeled = HeadCommit /\ HeadCommit # None
    BY <1>3, <1>k DEF TagRef
  <2>2. CASE TagsAt(HeadCommit) = {}
    <3>1. pc' = "hash"
      BY <1>3, <2>1, <2>2 DEF TagRef, Read
    <3> QED BY <3>1, <2>1, <2>2, <1>r
  <2>3. CASE TagsAt(HeadCommit) # {}
    <3>1. PICK t \in TagsAt(HeadCommit) : Read(t, "kTag", "hash")
      BY <1>3, <2>1, <2>3 DEF TagRef
    <3>2. t # None
      BY DEF TagsAt
    <3>3. pc' = "done" /\ name' = t /\ nameType' = "kTag"
      BY <3>1, <3>2 DEF Read, Return
    <3>4. <<t, "kTag">> \in Expected
      BY <2>1, <2>3 DEF Expected, HasBranch
    <3> QED BY <3>3, <3>4, <1>r
  <2> QED BY <2>2, <2>3
<1>4. CASE TagBranch
  <2>1. ~HasBranch /\ ~libgit2
    BY <1>4, <1>k, <1>t DEF TagBranch, PcOfBuild
  <2>2. pc' = "tagname"
    BY <1>4, <2>1 DEF TagBranch, HasBranch, Read
  <2> QED BY <2>1, <2>2, <1>r
<1>5. CASE TagName
  <2>1. ~HasBranch /\ ~libgit2
    BY <1>5, <1>k, <1>t DEF TagName, PcOfBuild
  <2>2. CASE TagsAt(HeadCommit) = {}
    <3>1. pc' = "hash"
      BY <1>5, <2>2 DEF TagName, Read
    <3> QED BY <3>1, <2>1, <2>2, <1>r
  <2>3. CASE TagsAt(HeadCommit) # {}
    <3>1. PICK t \in TagsAt(HeadCommit) : Read(t, "kTag", "hash")
      BY <1>5, <2>3 DEF TagName
    <3>2. t # None /\ HeadCommit # None
      BY DEF TagsAt
    <3>3. pc' = "done" /\ name' = t /\ nameType' = "kTag"
      BY <3>1, <3>2 DEF Read, Return
    <3>4. <<t, "kTag">> \in Expected
      BY <2>1, <2>3, <3>2 DEF Expected, HasBranch
    <3> QED BY <3>3, <3>4, <1>r
  <2> QED BY <2>2, <2>3
<1>6. CASE gitGetCommitHashShort
  <2>1. /\ pc' = "done" /\ name' = HeadCommit
        /\ nameType' = IF HeadCommit = None THEN "kNone" ELSE "kCommitHash"
    BY <1>6 DEF gitGetCommitHashShort, Return
  <2>2. ~HasBranch /\ TagsAt(HeadCommit) = {}
    BY <1>6, <1>k DEF gitGetCommitHashShort
  <2>3. <<HeadCommit, IF HeadCommit = None THEN "kNone" ELSE "kCommitHash">> \in Expected
    BY <2>2 DEF Expected, HasBranch
  <2> QED BY <2>1, <2>3, <1>r
<1> QED BY <1>1, <1>2, <1>3, <1>4, <1>5, <1>6, <1>c DEF getDisplayName

LEMMA StepSettles ==
  ASSUME KindInv, SettledInv, [Next]_vars
  PROVE  SettledInv'
<1>1. TypeOK
  BY DEF KindInv, IInv
<1>2. CASE UNCHANGED vars
  <2>1. UNCHANGED <<libgit2, refVars>> /\ UNCHANGED <<pc, peeled, name, nameType, failed, moves>>
    BY <1>2 DEF vars, refVars
  <2> QED BY <2>1, RefsKept DEF SettledInv, Knows
<1> QED BY <1>1, <1>2, MovesDisturb, ProgramSettles DEF Next, Terminating

\* The reads are of the types the program stores them in, in every reachable
\* state.
THEOREM TypeCorrect == Spec => []TypeOK
<1>1. KindInv => TypeOK
  BY DEF KindInv, IInv
<1> QED BY <1>1, AlwaysKindInv, PTL

\* Where nothing moves and no call fails, both builds show the branch, else a
\* tag of HEAD's commit, else its hash, else nothing.
THEOREM SettledName == Spec => []SettledIsExpected
<1>1. Init => SettledInv
  BY DEF Init, SettledInv, Knows
<1>2. SettledInv => SettledIsExpected
  BY DEF SettledInv, Knows, SettledIsExpected
<1> QED BY <1>1, <1>2, StepSettles, AlwaysKindInv, PTL DEF Spec

=============================================================================
