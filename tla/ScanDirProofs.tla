---------------------------- MODULE ScanDirProofs ----------------------------
(***************************************************************************)
(* scanDir() for every work tree, whatever links it has and however it     *)
(* changes during the scan: its directory streams, its answer, and how     *)
(* deep and how long it can run.                                           *)
(***************************************************************************)
EXTENDS ScanDir, SequenceTheorems, FiniteSetTheorems, TLAPS

Frames == [dir : Nodes \cup {Root}, foreign : BOOLEAN, links : 0 .. MaxLinks, todo : SUBSET Nodes]

\* Every scanDir() call that has not returned has its directory open, and
\* there is one as long as the scan goes on.
IInv ==
  /\ stack \in Seq(Frames)
  /\ open = Len(stack)
  /\ pc = "scan" => stack # <<>>

LEMMA InitInv == Init => IInv
BY DEF Init, IInv

\* The three things a step does to the stack.
LEMMA StackFacts ==
  ASSUME IInv, stack # <<>>
  PROVE  /\ Top \in Frames
         /\ Popped \in Seq(Frames) /\ Len(Popped) = Len(stack) - 1
         /\ \A n \in Nodes : /\ WithoutEntry(n) \in Seq(Frames)
                             /\ Len(WithoutEntry(n)) = Len(stack)
<1>1. stack \in Seq(Frames) /\ Len(stack) \in Nat \ {0} /\ DOMAIN stack = 1 .. Len(stack)
  BY DEF IInv
<1>2. Top \in Frames
  BY <1>1 DEF Top
<1>3. Popped \in Seq(Frames) /\ Len(Popped) = Len(stack) - 1
  BY <1>1 DEF Popped
<1>4. ASSUME NEW n \in Nodes
      PROVE  WithoutEntry(n) \in Seq(Frames) /\ Len(WithoutEntry(n)) = Len(stack)
  <2>1. [Top EXCEPT !.todo = @ \ {n}] \in Frames
    BY <1>2 DEF Frames
  <2>2. WithoutEntry(n) = [stack EXCEPT ![Len(stack)] = [Top EXCEPT !.todo = @ \ {n}]]
    BY DEF WithoutEntry, Top
  <2> QED BY <1>1, <2>1, <2>2, ExceptSeq
<1> QED BY <1>2, <1>3, <1>4

LEMMA FrameType ==
  ASSUME NEW d \in Nodes \cup {Root}, NEW foreign \in BOOLEAN, NEW links \in 0 .. MaxLinks
  PROVE  Frame(d, foreign, links) \in Frames
BY DEF Frame, Frames

LEMMA ScanKeeps ==
  ASSUME IInv, Scan
  PROVE  IInv'
<1>1. CASE gitCheckUntracked
  <2>1. Frame(Root, FALSE, 0) \in Frames
    <3>1. 0 \in 0 .. MaxLinks
      BY ScanDirAssumption
    <3> QED BY <3>1, FrameType
  <2>2. PICK f \in Frames : stack' = <<f>> /\ open' = 1
    BY <1>1, <2>1 DEF gitCheckUntracked
  <2>3. stack' \in Seq(Frames) /\ Len(stack') = 1 /\ Len(<<>>) = 0
    BY <2>2
  <2> QED BY <2>2, <2>3 DEF IInv
<1>2. CASE SkipEntry \/ PassFile \/ EnterFails
  <2>1. PICK n \in Top.todo : stack' = WithoutEntry(n)
    BY <1>2 DEF SkipEntry, PassFile, EnterFails
  <2>2. stack # <<>> /\ UNCHANGED <<pc, open>>
    BY <1>2 DEF SkipEntry, PassFile, EnterFails, Scanning
  <2>3. n \in Nodes
    BY <2>1, <2>2, StackFacts DEF Frames
  <2>4. stack' \in Seq(Frames) /\ Len(stack') = Len(stack)
    BY <2>1, <2>2, <2>3, StackFacts
  <2> QED BY <2>2, <2>4 DEF IInv
<1>3. CASE Enter
  <2>1. stack # <<>> /\ open' = open + 1
    BY <1>3 DEF Enter, Scanning
  <2>2. Top \in Frames
    BY <2>1, StackFacts
  <2>3. PICK n \in Top.todo :
          /\ kind[n] = "link" => Top.links < MaxLinks
          /\ stack' = Append(WithoutEntry(n),
                             Frame(Home(n), Top.foreign \/ kind[n] # "dir",
                                   IF kind[n] = "link" THEN Top.links + 1 ELSE Top.links))
    BY <1>3 DEF Enter
  <2>4. n \in Nodes /\ (kind[n] = "link" => Top.links < MaxLinks)
    BY <2>2, <2>3 DEF Frames
  <2> DEFINE foreign == Top.foreign \/ kind[n] # "dir"
             links == IF kind[n] = "link" THEN Top.links + 1 ELSE Top.links
             f == Frame(Home(n), foreign, links)
  <2>5. foreign \in BOOLEAN
    OBVIOUS
  <2>6. links \in 0 .. MaxLinks
    BY <2>2, <2>4, ScanDirAssumption DEF Frames
  <2>7. Home(n) \in Nodes \cup {Root}
    BY <2>4 DEF Home
  <2>8. f \in Frames
    <3> HIDE DEF foreign, links
    <3> QED BY <2>5, <2>6, <2>7, FrameType
  <2>9. WithoutEntry(n) \in Seq(Frames) /\ Len(WithoutEntry(n)) = Len(stack)
    BY <2>1, <2>4, StackFacts
  <2>10. stack' = Append(WithoutEntry(n), f)
    BY <2>3
  <2> HIDE DEF f
  <2>11. stack' \in Seq(Frames) /\ Len(stack') = Len(stack) + 1
    BY <2>8, <2>9, <2>10
  <2> QED BY <2>1, <2>11 DEF IInv
<1>4. CASE FindFile \/ ReturnFound
  <2>1. stack # <<>> /\ stack' = Popped /\ open' = open - 1 /\ pc' = "found"
    BY <1>4 DEF FindFile, ReturnFound, Scanning
  <2> QED BY <2>1, StackFacts DEF IInv
<1>5. CASE EndOfDirectory
  <2>1. /\ stack # <<>> /\ stack' = Popped /\ open' = open - 1
        /\ pc' = IF Len(stack) = 1 THEN "none" ELSE "scan"
    BY <1>5 DEF EndOfDirectory, Scanning
  <2>2. Popped \in Seq(Frames) /\ Len(Popped) = Len(stack) - 1
    BY <2>1, StackFacts
  <2>3. Len(<<>>) = 0 /\ Len(stack) \in Nat
    BY DEF IInv
  <2>4. Popped = <<>> => Len(stack) = 1
    BY <2>2, <2>3
  <2> QED BY <2>1, <2>2, <2>4 DEF IInv
<1>6. CASE LoadFails \/ OpenRootFails
  <2>1. UNCHANGED <<stack, open>> /\ pc' # "scan"
    BY <1>6 DEF LoadFails, OpenRootFails
  <2> QED BY <2>1 DEF IInv
<1> QED BY <1>1, <1>2, <1>3, <1>4, <1>5, <1>6 DEF Scan

LEMMA StepKeeps == IInv /\ [Next]_vars => IInv'
<1> SUFFICES ASSUME IInv, [Next]_vars PROVE IInv'
  OBVIOUS
<1>1. CASE UNCHANGED vars
  BY <1>1 DEF vars, treeVars, IInv
<1>2. CASE ChangeEntry \/ ChangeIndex
  <2>1. UNCHANGED <<pc, stack, open>>
    BY <1>2 DEF ChangeEntry, ChangeIndex, Changed
  <2> QED BY <2>1 DEF IInv
<1> QED BY <1>1, <1>2, ScanKeeps DEF Next, Terminating

\* Every directory stream that scanDir() opened is closed when the scan
\* returns, for every work tree and every change of it.
THEOREM ScanClosesDirectories == Spec => []DirectoriesClosed
<1>1. IInv => DirectoriesClosed
  BY DEF IInv, DirectoriesClosed, Ended
<1> QED BY <1>1, InitInv, StepKeeps, PTL DEF Spec

-----------------------------------------------------------------------------
(* The directories above an entry.                                         *)

LEMMA AboveFacts ==
  ASSUME NEW n \in Nodes \cup {Root}
  PROVE  /\ Above[n] \subseteq Nodes
         /\ n # Root => n \in Above[n]
         /\ n = Root => Above[n] = {}
         /\ Closed(Above[n])
         /\ \A S \in SUBSET Nodes : Closed(S) /\ n \in S \cup {Root} => Above[n] \subseteq S
<1>1. Above[n] = {d \in Nodes : \A S \in SUBSET Nodes : Closed(S) /\ n \in S \cup {Root} => d \in S}
  BY DEF Above
<1>2. Closed({})
  BY DEF Closed
<1>3. ASSUME NEW d \in Above[n], Place[d] # Root PROVE Place[d] \in Above[n]
  <2>1. Place[d] \in Nodes
    BY <1>1, <1>3, ScanDirAssumption
  <2>2. ASSUME NEW S \in SUBSET Nodes, Closed(S), n \in S \cup {Root} PROVE Place[d] \in S
    <3>1. d \in S
      BY <1>1, <2>2
    <3> QED BY <1>3, <2>2, <3>1 DEF Closed
  <2> QED BY <1>1, <2>1, <2>2
<1>4. Closed(Above[n])
  BY <1>3 DEF Closed
<1>5. n = Root => Above[n] = {}
  <2> SUFFICES ASSUME n = Root, NEW d \in Above[n] PROVE FALSE
    OBVIOUS
  <2> QED BY <1>1, <1>2
<1>6. n # Root => n \in Above[n]
  BY <1>1
<1>7. Above[n] \subseteq Nodes
  BY <1>1
<1>8. \A S \in SUBSET Nodes : Closed(S) /\ n \in S \cup {Root} => Above[n] \subseteq S
  BY <1>1
<1> QED BY <1>4, <1>5, <1>6, <1>7, <1>8

\* Above an entry are the entry and what is above its directory.
LEMMA AboveStep ==
  ASSUME NEW n \in Nodes
  PROVE  Above[n] \subseteq {n} \cup Above[Place[n]]
<1> DEFINE S == {n} \cup Above[Place[n]]
<1>1. Place[n] \in Nodes \cup {Root}
  BY ScanDirAssumption
<1>2. S \subseteq Nodes
  BY <1>1, AboveFacts
<1>3. \A m \in S : Place[m] \in S \cup {Root}
  <2>1. Place[n] \in S \cup {Root}
    BY <1>1, AboveFacts
  <2>2. Closed(Above[Place[n]])
    BY <1>1, AboveFacts
  <2> QED BY <2>1, <2>2 DEF Closed
<1>4. Closed(S)
  BY <1>3 DEF Closed
<1> HIDE DEF S
<1>5. n \in S
  BY DEF S
<1>6. Above[n] \subseteq S
  BY <1>2, <1>4, <1>5, AboveFacts
<1> QED BY <1>6 DEF S

\* A directory above an entry holds another one that is above it, or itself.
LEMMA AboveChild ==
  ASSUME NEW u \in Nodes, NEW d \in Above[u], d # u
  PROVE  \E e \in Above[u] : Place[e] = d
<1> SUFFICES ASSUME \A e \in Above[u] : Place[e] # d PROVE FALSE
  OBVIOUS
<1> DEFINE S == Above[u] \ {d}
<1>0. u # Root
  BY ScanDirAssumption
<1>1. Above[u] \subseteq Nodes /\ u \in Above[u] /\ Closed(Above[u])
  BY <1>0, AboveFacts
<1>2. Closed(S)
  BY <1>1 DEF Closed
<1>3. S \subseteq Nodes /\ u \in S
  BY <1>1
<1> HIDE DEF S
<1>4. Above[u] \subseteq S
  BY <1>2, <1>3, AboveFacts
<1> QED BY <1>4 DEF S

\* Where there are only files and directories, everything above an entry that
\* exists is a directory.
LEMMA DirectoriesAbove ==
  ASSUME WellFormed, Plain, NEW n \in Nodes, kind[n] # "absent"
  PROVE  \A d \in Above[n] \ {n} : kind[d] = "dir"
<1> DEFINE S == {n} \cup {m \in Nodes : kind[m] = "dir"}
<1>1. ASSUME NEW m \in S PROVE Place[m] \in S \cup {Root}
  <2>1. m \in Nodes /\ kind[m] # "absent"
    OBVIOUS
  <2>2. Place[m] # Root => Place[m] \in Nodes /\ kind[Place[m]] \in {"dir", "submodule"}
    BY <2>1, ScanDirAssumption DEF WellFormed
  <2>3. Place[m] # Root => kind[Place[m]] = "dir"
    BY <2>2 DEF Plain
  <2> QED BY <2>2, <2>3
<1>2. Closed(S) /\ S \subseteq Nodes /\ n \in S
  BY <1>1 DEF Closed
<1> HIDE DEF S
<1>3. Above[n] \subseteq S
  BY <1>2, AboveFacts
<1> QED BY <1>3 DEF S

-----------------------------------------------------------------------------
(* The answer.  While there are only files and directories, every call of  *)
(* the stack reads a directory of this work tree that no rule ignores, and *)
(* what is in the index without having been loaded was untracked before, or *)
(* was put there while it was missing.                                      *)

Answering == pc \notin {"load", "failed"}

TreeInv ==
  /\ WellFormed
  /\ plain => Plain
  /\ Untracked \subseteq untracked
  /\ changes = 0 => untracked = Untracked /\ restored = {} /\ (Answering => loaded = index)
  /\ ~Answering => stack = <<>>

FrameOK(f) ==
  /\ ~f.foreign
  /\ Above[f.dir] \cap ignored = {}
  /\ \A n \in f.todo : Place[n] = f.dir

\* Where the scan has to pass for an untracked file it has not reached yet.
Ahead(u) == \E i \in DOMAIN stack : \E e \in stack[i].todo : e \in Above[u]

AnswerInv ==
  /\ plain => \A i \in DOMAIN stack : FrameOK(stack[i])
  /\ plain /\ Answering =>
       \A n \in index \ loaded : Above[n] \cap ignored = {} => n \in untracked \cup restored
  /\ FoundWasUntracked
  /\ plain /\ changes = 0 /\ ~denied /\ pc = "scan" => \A u \in Untracked : Ahead(u)
  /\ plain /\ changes = 0 /\ ~denied /\ pc = "none" => Untracked = {}

FullInv == IInv /\ TypeOK /\ TreeInv /\ AnswerInv

LEMMA StackTyped == IInv => \A i \in DOMAIN stack : stack[i] \in Frames
BY DEF IInv

LEMMA UntrackedType == Untracked \subseteq Nodes
BY DEF Untracked

LEMMA FullInit == Init => FullInv
<1> SUFFICES ASSUME Init PROVE FullInv
  OBVIOUS
<1> USE ScanDirAssumption DEF Init
<1>1. plain \in BOOLEAN
  BY Zenon DEF Plain
<1>2. TypeOK
  <2>1. changes \in 0 .. MaxChanges
    OBVIOUS
  <2>2. untracked \subseteq Nodes /\ restored \subseteq Nodes
    BY UntrackedType
  <2>3. open \in Nat /\ \A i \in DOMAIN stack : stack[i] \in Frames
    BY InitInv, StackTyped
  <2>4. denied \in BOOLEAN
    BY Zenon
  <2> QED BY <1>1, <2>1, <2>2, <2>3, <2>4 DEF TypeOK, Frames
<1>3. TreeInv /\ AnswerInv
  BY DEF TreeInv, AnswerInv, Answering, FoundWasUntracked
<1> QED BY <1>2, <1>3, InitInv DEF FullInv

\* A scan leaves the tree alone.
LEMMA TreeKept ==
  ASSUME UNCHANGED treeVars
  PROVE  /\ WellFormed' = WellFormed /\ Plain' = Plain /\ Untracked' = Untracked
         /\ UNCHANGED <<kind, index, ignored, changes, untracked, restored, plain>>
BY DEF treeVars, WellFormed, Plain, Untracked

LEMMA ScanType ==
  ASSUME TypeOK, IInv', Scan
  PROVE  TypeOK'
<1>1. UNCHANGED treeVars
  BY DEF Scan, gitCheckUntracked, LoadFails, OpenRootFails, SkipEntry, Enter, EnterFails, PassFile, FindFile, ReturnFound,
         EndOfDirectory
<1>2. loaded' \subseteq Nodes /\ pc' \in {"load", "scan", "found", "none", "failed"}
  BY DEF TypeOK, Scan, gitCheckUntracked, LoadFails, OpenRootFails, SkipEntry, Enter, EnterFails, PassFile, FindFile,
         ReturnFound, EndOfDirectory
<1>3. denied' \in BOOLEAN
  BY DEF TypeOK, Scan, gitCheckUntracked, LoadFails, OpenRootFails, SkipEntry, Enter, EnterFails, PassFile, FindFile,
         ReturnFound, EndOfDirectory
<1>4. open' \in Nat /\ \A i \in DOMAIN stack' : stack'[i] \in Frames
  BY DEF IInv
<1> QED BY <1>1, <1>2, <1>3, <1>4 DEF TypeOK, Frames, treeVars

LEMMA ChangeType ==
  ASSUME TypeOK, ChangeEntry \/ ChangeIndex
  PROVE  TypeOK'
<1>1. Changed
  BY DEF ChangeEntry, ChangeIndex
<1>2. kind' \in [Nodes -> Kinds] /\ index' \subseteq Nodes /\ restored' \subseteq Nodes
  BY DEF ChangeEntry, ChangeIndex, TypeOK
<1>3. changes' \in 0 .. MaxChanges
  BY <1>1, ScanDirAssumption DEF Changed, TypeOK
<1>4. untracked' \subseteq Nodes
  BY <1>1 DEF Changed, TypeOK, Untracked
<1>5. plain' \in BOOLEAN
  BY <1>1, Zenon DEF Changed, TypeOK, Plain
<1>6. UNCHANGED <<ignored, loaded, pc, stack, open, denied>>
  BY <1>1 DEF Changed
<1> QED BY <1>2, <1>3, <1>4, <1>5, <1>6 DEF TypeOK

\* Others change the tree or the index.
LEMMA ChangeAnswers ==
  ASSUME FullInv, ChangeEntry \/ ChangeIndex
  PROVE  TreeInv' /\ AnswerInv'
<1>1. /\ UNCHANGED <<ignored, loaded, pc, stack, open, denied>>
      /\ changes' = changes + 1 /\ WellFormed'
      /\ untracked' = untracked \cup Untracked'
      /\ plain' = (plain /\ Plain')
  BY DEF ChangeEntry, ChangeIndex, Changed
<1>2. changes' # 0
  <2>1. changes \in Nat
    BY ScanDirAssumption DEF FullInv, TypeOK
  <2> QED BY <1>1, <2>1
<1>3. TreeInv'
  BY <1>1, <1>2 DEF FullInv, TreeInv, Answering
<1>4. plain' => plain /\ Plain /\ Plain'
  BY <1>1 DEF FullInv, TreeInv
<1>r. restored \subseteq restored'
  BY DEF ChangeEntry, ChangeIndex
<1>5. ASSUME plain', Answering, NEW n \in index' \ loaded, Above[n] \cap ignored = {}
      PROVE  n \in untracked' \cup restored'
  <2>1. CASE n \in index
    BY <1>1, <1>4, <1>5, <1>r, <2>1 DEF FullInv, AnswerInv
  <2>2. CASE n \notin index /\ kind[n] # "file"
    BY <1>5, <2>2 DEF ChangeEntry, ChangeIndex, Answering
  <2>3. CASE n \notin index /\ kind[n] = "file"
    <3>1. n \in Nodes
      BY <1>5, <2>3 DEF ChangeEntry, ChangeIndex
    <3>4. \A d \in Above[n] \ {n} : kind[d] = "dir"
      BY <1>4, <1>5, <2>3, <3>1, DirectoriesAbove DEF FullInv, TreeInv
    <3>5. n \in Untracked
      BY <1>5, <2>3, <3>1, <3>4 DEF Untracked
    <3> QED BY <1>1, <3>5 DEF FullInv, TreeInv
  <2> QED BY <2>1, <2>2, <2>3
<1>6. (\A i \in DOMAIN stack : FrameOK(stack[i])) => (\A i \in DOMAIN stack : FrameOK(stack[i]))'
  BY <1>1 DEF FrameOK
<1>7. FoundWasUntracked'
  BY <1>1, <1>4, <1>r DEF FullInv, AnswerInv, FoundWasUntracked
<1>8. Answering' = Answering
  BY <1>1 DEF Answering
<1> QED BY <1>1, <1>2, <1>3, <1>4, <1>5, <1>6, <1>7, <1>8 DEF FullInv, AnswerInv

LEMMA StackParts ==
  ASSUME IInv, stack # <<>>
  PROVE  /\ Len(stack) \in Nat \ {0} /\ DOMAIN stack = 1 .. Len(stack)
         /\ DOMAIN Popped = 1 .. Len(stack) - 1
         /\ \A i \in DOMAIN Popped : Popped[i] = stack[i]
         /\ \A n \in Nodes :
              /\ DOMAIN WithoutEntry(n) = DOMAIN stack
              /\ \A i \in DOMAIN stack :
                   WithoutEntry(n)[i] = IF i = Len(stack) THEN [Top EXCEPT !.todo = @ \ {n}] ELSE stack[i]
<1>1. stack \in Seq(Frames) /\ Len(stack) \in Nat \ {0} /\ DOMAIN stack = 1 .. Len(stack)
  BY DEF IInv
<1>2. DOMAIN Popped = 1 .. Len(stack) - 1 /\ \A i \in DOMAIN Popped : Popped[i] = stack[i]
  BY <1>1 DEF Popped
<1> QED BY <1>1, <1>2 DEF WithoutEntry, Top

\* An entry that is passed leaves the other ones ahead.
LEMMA EntryTaken ==
  ASSUME IInv, stack # <<>>, NEW n \in Nodes
  PROVE  \A i \in DOMAIN stack :
           /\ FrameOK(stack[i]) => FrameOK(WithoutEntry(n)[i])
           /\ \A e \in stack[i].todo : e # n => e \in WithoutEntry(n)[i].todo
<1> SUFFICES ASSUME NEW i \in DOMAIN stack
             PROVE  /\ FrameOK(stack[i]) => FrameOK(WithoutEntry(n)[i])
                    /\ \A e \in stack[i].todo : e # n => e \in WithoutEntry(n)[i].todo
  OBVIOUS
<1>1. CASE i = Len(stack)
  <2>1. Top = stack[i] /\ Top \in Frames
    BY <1>1, StackFacts DEF Top
  <2>2. WithoutEntry(n)[i] = [Top EXCEPT !.todo = @ \ {n}]
    BY <1>1, StackParts
  <2> QED BY <2>1, <2>2 DEF FrameOK, Frames
<1>2. CASE i # Len(stack)
  <2>1. WithoutEntry(n)[i] = stack[i]
    BY <1>2, StackParts
  <2> QED BY <2>1
<1> QED BY <1>1, <1>2

\* Above an untracked file are itself and directories, none of them ignored.
LEMMA AboveUntracked ==
  ASSUME FullInv, plain, NEW u \in Untracked, NEW n \in Above[u]
  PROVE  n \notin ignored /\ (n = u => kind[n] = "file" /\ n \notin index) /\ (n # u => kind[n] = "dir")
<1>1. Plain /\ u \in Nodes
  BY DEF FullInv, TreeInv, Untracked
<1>2. kind[u] = "file"
  BY <1>1 DEF Plain, Untracked
<1> QED BY <1>2 DEF Untracked

\* What the calls of the stack know of an entry they read.
LEMMA EntryFacts ==
  ASSUME FullInv, plain, Scanning, NEW n \in Top.todo \ ignored
  PROVE  n \in Nodes /\ Above[n] \cap ignored = {} /\ ~Top.foreign
<1>1. stack # <<>> /\ Top \in Frames /\ Len(stack) \in DOMAIN stack
  BY StackFacts, StackParts DEF FullInv, Scanning
<1>2. FrameOK(Top)
  BY <1>1 DEF FullInv, AnswerInv, Top
<1>3. n \in Nodes /\ Place[n] = Top.dir
  BY <1>1, <1>2 DEF Frames, FrameOK
<1>4. Above[n] \subseteq {n} \cup Above[Top.dir]
  BY <1>3, AboveStep
<1> QED BY <1>2, <1>3, <1>4 DEF FrameOK

\* What remains to be shown of a step of the scan.
LEMMA ScanReduces ==
  ASSUME FullInv, Scan, pc # "load",
         plain => \A i \in DOMAIN stack' : FrameOK(stack'[i]),
         FoundWasUntracked',
         plain /\ changes = 0 /\ ~denied' /\ pc' = "scan" => \A u \in Untracked : Ahead(u)',
         plain /\ changes = 0 /\ ~denied' /\ pc' = "none" => Untracked = {}
  PROVE  TreeInv' /\ AnswerInv'
<1>1. UNCHANGED treeVars /\ UNCHANGED loaded /\ Answering /\ Answering'
  BY DEF Scan, gitCheckUntracked, LoadFails, OpenRootFails, SkipEntry, Enter, EnterFails, PassFile, FindFile,
         ReturnFound, EndOfDirectory, Scanning, Answering
<1>2. /\ WellFormed' = WellFormed /\ Plain' = Plain /\ Untracked' = Untracked
      /\ UNCHANGED <<kind, index, ignored, changes, untracked, restored, plain>>
  BY <1>1, TreeKept
<1>3. TreeInv'
  BY <1>1, <1>2 DEF FullInv, TreeInv, Answering
<1>4. plain' => (\A i \in DOMAIN stack : FrameOK(stack[i]))'
  BY <1>2 DEF FrameOK
<1> QED BY <1>1, <1>2, <1>3, <1>4 DEF FullInv, AnswerInv

LEMMA LoadAnswers ==
  ASSUME FullInv, gitCheckUntracked
  PROVE  TreeInv' /\ AnswerInv'
<1>1. /\ UNCHANGED treeVars /\ loaded' = index /\ pc' = "scan" /\ pc = "load"
      /\ stack' = <<Frame(Root, FALSE, 0)>>
  BY DEF gitCheckUntracked
<1>2. /\ WellFormed' = WellFormed /\ Plain' = Plain /\ Untracked' = Untracked
      /\ UNCHANGED <<kind, index, ignored, changes, untracked, restored, plain>>
  BY <1>1, TreeKept
<1>3. TreeInv'
  BY <1>1, <1>2 DEF FullInv, TreeInv, Answering
<1> DEFINE f == Frame(Root, FALSE, 0)
<1>4. f.todo = {n \in Nodes : Place[n] = Root} /\ f.dir = Root /\ ~f.foreign
  BY DEF Frame
<1>5. Above[Root] = {}
  BY AboveFacts
<1>6. FrameOK(f)'
  BY <1>4, <1>5 DEF FrameOK
<1> HIDE DEF f
<1>7. DOMAIN stack' = {1} /\ stack'[1] = f
  BY <1>1 DEF f
<1>8. \A u \in Untracked : Ahead(u)'
  <2> SUFFICES ASSUME NEW u \in Untracked PROVE \E e \in f.todo : e \in Above[u]
    BY <1>7 DEF Ahead
  <2>1. u \in Nodes
    BY DEF Untracked
  <2>2. PICK e \in Above[u] : Place[e] = Root
    BY <2>1, ScanDirAssumption
  <2>3. e \in Nodes
    BY <2>1, AboveFacts
  <2> QED BY <1>4, <2>2, <2>3
<1>9. (\A i \in DOMAIN stack : FrameOK(stack[i]))'
  BY <1>6, <1>7 DEF FrameOK
<1> QED BY <1>1, <1>2, <1>3, <1>8, <1>9 DEF AnswerInv, FoundWasUntracked

\* A search that fails at once says nothing, or had a directory denied.
LEMMA FailAnswers ==
  ASSUME FullInv, LoadFails \/ OpenRootFails
  PROVE  TreeInv' /\ AnswerInv'
<1>1. /\ UNCHANGED treeVars /\ pc = "load" /\ stack = <<>> /\ stack' = stack
      /\ \/ pc' = "failed"
         \/ pc' = "none" /\ loaded' = index /\ denied'
  BY DEF LoadFails, OpenRootFails, FullInv, TreeInv, Answering
<1>2. /\ WellFormed' = WellFormed /\ Plain' = Plain /\ Untracked' = Untracked
      /\ UNCHANGED <<kind, index, ignored, changes, untracked, restored, plain>>
  BY <1>1, TreeKept
<1>3. TreeInv'
  BY <1>1, <1>2 DEF FullInv, TreeInv, Answering
<1> QED BY <1>1, <1>2, <1>3 DEF AnswerInv, Answering, FoundWasUntracked

\* Entries that are passed hide no untracked file.
LEMMA PassAnswers ==
  ASSUME FullInv, SkipEntry \/ PassFile \/ EnterFails
  PROVE  TreeInv' /\ AnswerInv'
<1>i. IInv /\ stack # <<>> /\ pc = "scan" /\ pc' = "scan"
  BY DEF FullInv, SkipEntry, PassFile, EnterFails, Scanning
<1>1. PICK n \in Top.todo : /\ stack' = WithoutEntry(n)
                            /\ \/ denied'
                               \/ n \in ignored
                               \/ kind[n] \in {"absent", "dangling", "link"}
                               \/ kind[n] = "file" /\ n \in loaded
  <2>1. CASE SkipEntry
    BY <2>1 DEF SkipEntry
  <2>2. CASE PassFile
    BY <2>2 DEF PassFile, isTracked
  <2>3. CASE EnterFails
    BY <2>3 DEF EnterFails
  <2> QED BY <2>1, <2>2, <2>3
<1>2. n \in Nodes
  BY <1>i, <1>1, StackFacts DEF Frames
<1>3. DOMAIN stack' = DOMAIN stack
  BY <1>i, <1>1, <1>2, StackParts
<1>4. plain => \A i \in DOMAIN stack' : FrameOK(stack'[i])
  BY <1>i, <1>1, <1>2, <1>3, EntryTaken DEF FullInv, AnswerInv
<1>5. ASSUME plain, changes = 0, ~denied', NEW u \in Untracked PROVE Ahead(u)'
  <2>1. ~denied
    BY <1>5 DEF SkipEntry, PassFile, EnterFails
  <2>2. PICK i \in DOMAIN stack : \E e \in stack[i].todo : e \in Above[u]
    BY <1>i, <1>5, <2>1 DEF FullInv, AnswerInv, Ahead
  <2>3. PICK e \in stack[i].todo : e \in Above[u]
    BY <2>2
  <2>4. loaded = index
    BY <1>i, <1>5 DEF FullInv, TreeInv
  <2>5. e # n
    BY <1>1, <1>5, <2>3, <2>4, AboveUntracked
  <2>6. e \in WithoutEntry(n)[i].todo
    BY <1>i, <1>2, <2>3, <2>5, EntryTaken
  <2> QED BY <1>1, <1>3, <2>3, <2>6 DEF Ahead
<1>6. FoundWasUntracked'
  BY <1>i DEF FoundWasUntracked
<1>7. Scan
  BY DEF Scan
<1> QED BY <1>i, <1>4, <1>5, <1>6, <1>7, ScanReduces

\* A directory is replaced by what it holds.
LEMMA EnterAnswers ==
  ASSUME FullInv, Enter
  PROVE  TreeInv' /\ AnswerInv'
<1>i. IInv /\ stack # <<>> /\ pc = "scan" /\ pc' = "scan" /\ Scanning /\ denied' = denied
  BY DEF FullInv, Enter, Scanning
<1>1. PICK n \in Top.todo \ ignored :
        /\ kind[n] \in Directories
        /\ stack' = Append(WithoutEntry(n),
                           Frame(Home(n), Top.foreign \/ kind[n] # "dir",
                                 IF kind[n] = "link" THEN Top.links + 1 ELSE Top.links))
  BY DEF Enter
<1>2. n \in Nodes
  BY <1>i, <1>1, StackFacts DEF Frames
<1> DEFINE links == IF kind[n] = "link" THEN Top.links + 1 ELSE Top.links
           f == Frame(Home(n), Top.foreign \/ kind[n] # "dir", links)
<1>3. plain => f.dir = n /\ ~f.foreign /\ f.todo = {m \in Nodes : Place[m] = n} /\ kind[n] = "dir"
  <2> SUFFICES ASSUME plain PROVE f.dir = n /\ ~f.foreign /\ f.todo = {m \in Nodes : Place[m] = n} /\ kind[n] = "dir"
    OBVIOUS
  <2>1. kind[n] = "dir"
    BY <1>1, <1>2 DEF FullInv, TreeInv, Plain, Directories
  <2>2. Home(n) = n /\ ~Top.foreign
    BY <1>i, <1>1, <2>1, EntryFacts DEF Home
  <2> HIDE DEF links
  <2> QED BY <2>1, <2>2 DEF Frame
<1>4. stack' = Append(WithoutEntry(n), f)
  BY <1>1
<1> HIDE DEF f
<1>5. /\ WithoutEntry(n) \in Seq(Frames) /\ Len(WithoutEntry(n)) = Len(stack)
      /\ DOMAIN WithoutEntry(n) = DOMAIN stack /\ DOMAIN stack = 1 .. Len(stack) /\ Len(stack) \in Nat
  BY <1>i, <1>2, StackFacts, StackParts
<1>6. /\ DOMAIN stack' = DOMAIN stack \cup {Len(stack) + 1}
      /\ \A i \in DOMAIN stack : stack'[i] = WithoutEntry(n)[i]
      /\ stack'[Len(stack) + 1] = f
  BY <1>4, <1>5
<1>7. plain => \A i \in DOMAIN stack' : FrameOK(stack'[i])
  <2>1. plain => FrameOK(f)
    BY <1>i, <1>1, <1>3, EntryFacts DEF FrameOK
  <2>2. plain => \A i \in DOMAIN stack : FrameOK(WithoutEntry(n)[i])
    BY <1>i, <1>2, EntryTaken DEF FullInv, AnswerInv
  <2> QED BY <1>6, <2>1, <2>2
<1>8. ASSUME plain, changes = 0, ~denied', NEW u \in Untracked PROVE Ahead(u)'
  <2>1. PICK i \in DOMAIN stack : \E e \in stack[i].todo : e \in Above[u]
    BY <1>i, <1>8 DEF FullInv, AnswerInv, Ahead
  <2>2. PICK e \in stack[i].todo : e \in Above[u]
    BY <2>1
  <2>3. CASE e # n
    <3>1. e \in WithoutEntry(n)[i].todo
      BY <1>i, <1>2, <2>2, <2>3, EntryTaken
    <3> QED BY <1>6, <2>2, <3>1 DEF Ahead
  <2>4. CASE e = n
    <3>1. u \in Nodes /\ n \in Above[u] /\ n # u
      BY <1>3, <1>8, <2>2, <2>4, AboveUntracked DEF Untracked
    <3>2. PICK m \in Above[u] : Place[m] = n
      BY <3>1, AboveChild
    <3>3. m \in Nodes
      BY <3>1, AboveFacts
    <3>4. m \in f.todo
      BY <1>3, <1>8, <3>2, <3>3
    <3> QED BY <1>6, <3>2, <3>4 DEF Ahead
  <2> QED BY <2>3, <2>4
<1>9. FoundWasUntracked'
  BY <1>i DEF FoundWasUntracked
<1>10. Scan
  BY DEF Scan
<1> QED BY <1>i, <1>7, <1>8, <1>9, <1>10, ScanReduces

\* The calls return.
LEMMA ReturnAnswers ==
  ASSUME FullInv, FindFile \/ ReturnFound \/ EndOfDirectory
  PROVE  TreeInv' /\ AnswerInv'
<1>i. IInv /\ stack # <<>> /\ stack' = Popped /\ Scan /\ pc # "load" /\ UNCHANGED <<treeVars, denied>>
  BY DEF FullInv, FindFile, ReturnFound, EndOfDirectory, Scanning, Scan
<1>u. UNCHANGED <<untracked, restored, plain>>
  BY <1>i, TreeKept
<1>1. plain => \A i \in DOMAIN stack' : FrameOK(stack'[i])
  BY <1>i, StackParts DEF FullInv, AnswerInv
<1>2. CASE FindFile
  <2>1. Scanning /\ pc' = "found"
    BY <1>2 DEF FindFile
  <2>2. PICK n \in Top.todo \ ignored : kind[n] = "file" /\ ~isTracked(n)
    BY <1>2 DEF FindFile
  <2>3. ASSUME plain PROVE untracked # {} \/ restored # {}
    <3>1. n \in Nodes /\ Above[n] \cap ignored = {} /\ n \notin loaded
      BY <2>1, <2>2, <2>3, EntryFacts DEF isTracked
    <3>2. CASE n \in index
      BY <1>i, <2>1, <2>3, <3>1, <3>2 DEF FullInv, AnswerInv, Answering, Scanning
    <3>3. CASE n \notin index
      <4>1. \A d \in Above[n] \ {n} : kind[d] = "dir"
        BY <2>2, <2>3, <3>1, DirectoriesAbove DEF FullInv, TreeInv
      <4>2. n \in Untracked
        BY <2>2, <3>1, <3>3, <4>1 DEF Untracked
      <4> QED BY <4>2 DEF FullInv, TreeInv
    <3> QED BY <3>2, <3>3
  <2>4. FoundWasUntracked'
    BY <1>u, <2>3 DEF FoundWasUntracked
  <2> QED BY <1>i, <1>1, <2>1, <2>4, ScanReduces
<1>3. CASE ReturnFound
  <2>1. pc = "found" /\ pc' = "found"
    BY <1>3 DEF ReturnFound
  <2>2. FoundWasUntracked'
    BY <1>u, <2>1 DEF FullInv, AnswerInv, FoundWasUntracked
  <2> QED BY <1>i, <1>1, <2>1, <2>2, ScanReduces
<1>4. CASE EndOfDirectory
  <2>1. pc = "scan" /\ Top.todo = {} /\ pc' = IF Len(stack) = 1 THEN "none" ELSE "scan"
    BY <1>4 DEF EndOfDirectory, Scanning
  <2>2. ASSUME plain, changes = 0, ~denied', NEW u \in Untracked PROVE Ahead(u)' /\ Len(stack) # 1
    <3>1. PICK i \in DOMAIN stack : \E e \in stack[i].todo : e \in Above[u]
      BY <1>i, <2>1, <2>2 DEF FullInv, AnswerInv, Ahead
    <3>2. i # Len(stack)
      BY <2>1, <3>1 DEF Top
    <3>3. i \in DOMAIN Popped /\ Popped[i] = stack[i] /\ Len(stack) # 1
      BY <1>i, <3>2, StackParts
    <3> QED BY <1>i, <3>1, <3>3 DEF Ahead
  <2>3. FoundWasUntracked'
    BY <2>1 DEF FoundWasUntracked
  <2> QED BY <1>i, <1>1, <2>1, <2>2, <2>3, ScanReduces
<1> QED BY <1>2, <1>3, <1>4

LEMMA FullStep == FullInv /\ [Next]_vars => FullInv'
<1> SUFFICES ASSUME FullInv, [Next]_vars PROVE FullInv'
  OBVIOUS
<1>1. IInv'
  BY StepKeeps DEF FullInv
<1>2. CASE UNCHANGED vars
  <2>1. UNCHANGED treeVars /\ UNCHANGED <<loaded, pc, stack, open, denied>>
    BY <1>2 DEF vars
  <2>2. TypeOK' /\ FoundWasUntracked'
    BY <2>1 DEF FullInv, AnswerInv, TypeOK, treeVars, FoundWasUntracked
  <2>3. TreeInv'
    BY <2>1, TreeKept DEF FullInv, TreeInv, Answering
  <2>4. AnswerInv'
    BY <2>1, <2>2, TreeKept DEF FullInv, AnswerInv, Answering, FrameOK, Ahead
  <2> QED BY <1>1, <2>2, <2>3, <2>4 DEF FullInv
<1>3. CASE Scan
  <2>1. TypeOK'
    BY <1>1, <1>3, ScanType DEF FullInv
  <2>2. TreeInv' /\ AnswerInv'
    BY <1>3, LoadAnswers, FailAnswers, PassAnswers, EnterAnswers, ReturnAnswers DEF Scan
  <2> QED BY <1>1, <2>1, <2>2 DEF FullInv
<1>4. CASE ChangeEntry \/ ChangeIndex
  BY <1>1, <1>4, ChangeType, ChangeAnswers DEF FullInv
<1> QED BY <1>2, <1>3, <1>4 DEF Next, Terminating

LEMMA AlwaysFullInv == Spec => []FullInv
BY FullInit, FullStep, PTL DEF Spec

\* Every reachable state is well typed, for every work tree: no path has more
\* links than the kernel follows.
THEOREM TypeCorrect == Spec => []TypeOK
<1>1. FullInv => TypeOK
  BY DEF FullInv
<1> QED BY <1>1, AlwaysFullInv, PTL

\* In a work tree of files and directories of any depth, the scan finds a file
\* only if one was untracked, or git put a missing file into the index after the
\* scan had read it, whatever is created and removed meanwhile.
THEOREM FoundIsReal == Spec => []FoundWasUntracked
<1>1. FullInv => FoundWasUntracked
  BY DEF FullInv, AnswerInv
<1> QED BY <1>1, AlwaysFullInv, PTL

\* In such a work tree that nobody changes and whose directories can be read,
\* scanDir() answers what git answers.
THEOREM AnswerIsGits == Spec => []SettledIsUntracked
<1>1. FullInv => SettledIsUntracked
  BY DEF FullInv, TreeInv, AnswerInv, Answering, SettledIsUntracked, FoundWasUntracked, Ended
<1> QED BY <1>1, AlwaysFullInv, PTL

-----------------------------------------------------------------------------
(* The recursion.  A path never leads to a directory it is in, except by a *)
(* link, and of links it has no more than the kernel follows: so scanDir() *)
(* ends also where a link points at a directory above it.                  *)

\* How deep a directory is, counted along the path that leads to it: a path
\* with one more link is deeper than any without.
Size == Cardinality(Nodes) + 1
Level(f) == f.links * Size + Cardinality(Above[f.dir])
Deepest == MaxLinks * Size + Cardinality(Nodes)

\* What a call on a level has still to do: to read these entries, and to end.
Unread(e) ==
  {n \in Nodes \cup {Root} :
     \E i \in DOMAIN stack : Level(stack[i]) = e /\ n \in stack[i].todo \cup {Root}}

\* The calls become deeper, each by one level at least.
WalkInv ==
  /\ \A i \in DOMAIN stack : \A n \in stack[i].todo : Place[n] = stack[i].dir
  /\ \A i \in DOMAIN stack : i - 1 <= Level(stack[i])
  /\ \A i, j \in DOMAIN stack : i < j => Level(stack[i]) < Level(stack[j])

RecursionBounded == Len(stack) <= (MaxLinks + 1) * Size

\* A step of the scan lowers what is left on some level and leaves the levels
\* above it as they are.
Advances ==
  \/ pc = "load" /\ pc' # "load"
  \/ /\ pc # "load" /\ pc' # "load"
     /\ \E e \in 0 .. Deepest :
          /\ Unread(e)' \subseteq Unread(e) /\ Unread(e)' # Unread(e)
          /\ \A g \in 0 .. Deepest : g < e => Unread(g)' = Unread(g)

\* No entry is above the directory it is in.
LEMMA Acyclic ==
  ASSUME NEW n \in Nodes
  PROVE  n \notin Above[Place[n]] /\ Above[Place[n]] \subseteq Above[n]
<1>1. Place[n] \in Nodes \cup {Root} /\ n # Root
  BY ScanDirAssumption
<1>2. Above[n] \subseteq Nodes /\ n \in Above[n] /\ Closed(Above[n])
  BY <1>1, AboveFacts
<1>3. Above[Place[n]] \subseteq Above[n]
  <2>1. Place[n] \in Above[n] \cup {Root}
    BY <1>2 DEF Closed
  <2> QED BY <1>1, <1>2, <2>1, AboveFacts
<1>4. ASSUME n \in Above[Place[n]] PROVE FALSE
  <2> DEFINE S == {m \in Above[n] : n \in Above[m]}
  <2>1. ASSUME NEW m \in S PROVE Place[m] \in S
    <3>1. m \in Nodes /\ n \in Above[m]
      BY <1>2
    <3>2. n \in Above[Place[m]]
      <4>1. CASE m = n
        BY <1>4, <4>1
      <4>2. CASE m # n
        BY <3>1, <4>2, AboveStep
      <4> QED BY <4>1, <4>2
    <3>3. Place[m] # Root
      BY <3>2, AboveFacts
    <3>4. Place[m] \in Above[n]
      BY <1>2, <3>3 DEF Closed
    <3> QED BY <3>2, <3>4
  <2>2. Closed(S)
    BY <2>1 DEF Closed
  <2>3. S \subseteq Nodes /\ n \in S
    BY <1>2
  <2> HIDE DEF S
  <2>4. Above[n] \subseteq S
    BY <2>2, <2>3, AboveFacts
  <2>5. PICK e \in Above[n] : Place[e] = Root
    BY ScanDirAssumption
  <2>6. Place[e] \in S
    BY <2>1, <2>4, <2>5
  <2> QED BY <2>3, <2>5, <2>6, ScanDirAssumption
<1> QED BY <1>3, <1>4

\* An entry is deeper than the directory it is in.
LEMMA Depth ==
  ASSUME IsFiniteSet(Nodes)
  PROVE  /\ Cardinality(Nodes) \in Nat
         /\ \A n \in Nodes \cup {Root} : Cardinality(Above[n]) \in 0 .. Cardinality(Nodes)
         /\ Cardinality(Above[Root]) = 0
         /\ \A n \in Nodes : Cardinality(Above[Place[n]]) < Cardinality(Above[n])
<1>1. Cardinality(Nodes) \in Nat
  BY FS_CardinalityType
<1>2. \A n \in Nodes \cup {Root} : IsFiniteSet(Above[n]) /\ Cardinality(Above[n]) \in 0 .. Cardinality(Nodes)
  <2> SUFFICES ASSUME NEW n \in Nodes \cup {Root}
               PROVE  IsFiniteSet(Above[n]) /\ Cardinality(Above[n]) \in 0 .. Cardinality(Nodes)
    OBVIOUS
  <2>1. Above[n] \subseteq Nodes
    BY AboveFacts
  <2>2. IsFiniteSet(Above[n]) /\ Cardinality(Above[n]) <= Cardinality(Nodes)
    BY <2>1, FS_Subset
  <2>3. Cardinality(Above[n]) \in Nat
    BY <2>2, FS_CardinalityType
  <2> QED BY <1>1, <2>2, <2>3
<1>3. Cardinality(Above[Root]) = 0
  BY AboveFacts, FS_EmptySet
<1>4. ASSUME NEW n \in Nodes PROVE Cardinality(Above[Place[n]]) < Cardinality(Above[n])
  <2>1. n # Root
    BY ScanDirAssumption
  <2>2. n \in Above[n] /\ n \notin Above[Place[n]] /\ Above[Place[n]] \subseteq Above[n]
    BY <2>1, AboveFacts, Acyclic
  <2>3. IsFiniteSet(Above[n])
    BY <1>2
  <2>4. Cardinality(Above[Place[n]]) <= Cardinality(Above[n]) /\ Above[Place[n]] # Above[n]
    BY <2>2, <2>3, FS_Subset
  <2>5. Cardinality(Above[Place[n]]) # Cardinality(Above[n])
    BY <2>2, <2>3, <2>4, FS_Subset
  <2>6. Place[n] \in Nodes \cup {Root}
    BY ScanDirAssumption
  <2> QED BY <1>2, <2>4, <2>5, <2>6
<1> QED BY <1>1, <1>2, <1>3, <1>4

\* The levels, and which of them a directory and the target of a link are on.
LEMMA Levels ==
  ASSUME IsFiniteSet(Nodes)
  PROVE  /\ Deepest \in Nat /\ (MaxLinks + 1) * Size = Deepest + 1
         /\ \A f \in Frames : Level(f) \in 0 .. Deepest
         /\ \A f, g \in Frames :
              /\ f.links = g.links /\ f.dir = g.dir => Level(f) = Level(g)
              /\ f.links = g.links /\ g.dir \in Nodes /\ Place[g.dir] = f.dir => Level(f) < Level(g)
              /\ g.links = f.links + 1 => Level(f) < Level(g)
<1>1. MaxLinks \in Nat /\ Size \in Nat /\ Size = Cardinality(Nodes) + 1
  BY Depth, ScanDirAssumption DEF Size
<1>2. \A a, b \in Nat : a < b => a * Size + Size <= b * Size
  <2>1. \A a, b, c \in Nat : a < b => a * c + c <= b * c
    <3> SUFFICES ASSUME NEW a \in Nat, NEW b \in Nat, NEW c \in Nat, a < b
                 PROVE  a * c + c <= b * c
      OBVIOUS
    <3>1. PICK k \in Nat : b = a + 1 + k
      <4>1. b - a - 1 \in Nat /\ b = a + 1 + (b - a - 1)
        OBVIOUS
      <4> QED BY <4>1
    <3>2. b * c = a * c + c + k * c /\ a * c \in Nat /\ k * c \in Nat
      BY <3>1
    <3> QED BY <3>2
  <2> QED BY <1>1, <2>1
<1>3. \A a \in Nat : a * Size \in Nat
  BY <1>1
<1>4. \A f \in Frames : /\ f.links \in Nat /\ f.links <= MaxLinks /\ f.links * Size \in Nat
                        /\ Cardinality(Above[f.dir]) \in 0 .. Cardinality(Nodes)
  BY <1>1, <1>3, Depth DEF Frames
<1>5. Deepest \in Nat /\ (MaxLinks + 1) * Size = Deepest + 1
  <2>1. (MaxLinks + 1) * Size = MaxLinks * Size + Size /\ MaxLinks * Size \in Nat
    BY <1>1
  <2> QED BY <1>1, <2>1, Depth DEF Deepest
<1>6. ASSUME NEW f \in Frames PROVE Level(f) \in 0 .. Deepest
  <2>1. f.links * Size <= MaxLinks * Size /\ MaxLinks * Size \in Nat
    <3>1. f.links < MaxLinks => f.links * Size + Size <= MaxLinks * Size
      BY <1>1, <1>2, <1>4
    <3>2. f.links = MaxLinks \/ f.links < MaxLinks
      BY <1>1, <1>4
    <3> QED BY <1>1, <1>3, <1>4, <3>1, <3>2
  <2>2. Cardinality(Nodes) \in Nat
    BY Depth
  <2> QED BY <1>4, <2>1, <2>2 DEF Level, Deepest
<1>7. ASSUME NEW f \in Frames, NEW g \in Frames
      PROVE  /\ f.links = g.links /\ f.dir = g.dir => Level(f) = Level(g)
             /\ f.links = g.links /\ g.dir \in Nodes /\ Place[g.dir] = f.dir => Level(f) < Level(g)
             /\ g.links = f.links + 1 => Level(f) < Level(g)
  <2>1. f.links = g.links /\ g.dir \in Nodes /\ Place[g.dir] = f.dir => Level(f) < Level(g)
    <3>1. g.dir \in Nodes /\ Place[g.dir] = f.dir => Cardinality(Above[f.dir]) < Cardinality(Above[g.dir])
      BY Depth
    <3> QED BY <1>4, <3>1, Depth DEF Level
  <2>2. ASSUME g.links = f.links + 1 PROVE Level(f) < Level(g)
    <3>1. f.links * Size + Size <= g.links * Size
      BY <1>2, <1>4, <2>2
    <3> QED BY <1>1, <1>4, <3>1, Depth DEF Level
  <2> QED BY <2>1, <2>2 DEF Level
<1> QED BY <1>5, <1>6, <1>7

\* A call that passes an entry stays on its level and reads the same directory.
LEMMA SameCall ==
  ASSUME IInv, stack # <<>>, NEW n \in Nodes, NEW i \in DOMAIN stack
  PROVE  /\ Level(WithoutEntry(n)[i]) = Level(stack[i])
         /\ WithoutEntry(n)[i].dir = stack[i].dir
         /\ WithoutEntry(n)[i].todo \subseteq stack[i].todo
         /\ WithoutEntry(n)[i].todo = IF i = Len(stack) THEN Top.todo \ {n} ELSE stack[i].todo
<1>1. CASE i = Len(stack)
  <2>1. Top = stack[i] /\ Top \in Frames
    BY <1>1, StackFacts DEF Top
  <2>2. WithoutEntry(n)[i] = [Top EXCEPT !.todo = @ \ {n}]
    BY <1>1, StackParts
  <2> QED BY <1>1, <2>1, <2>2 DEF Frames, Level
<1>2. CASE i # Len(stack)
  <2>1. WithoutEntry(n)[i] = stack[i]
    BY <1>2, StackParts
  <2> QED BY <1>2, <2>1
<1> QED BY <1>1, <1>2

\* The stack after a call.
LEMMA Longer ==
  ASSUME IInv, stack # <<>>, NEW n \in Nodes, NEW f \in Frames, stack' = Append(WithoutEntry(n), f)
  PROVE  /\ Len(stack) \in Nat \ {0} /\ DOMAIN stack = 1 .. Len(stack)
         /\ DOMAIN stack' = 1 .. Len(stack) + 1
         /\ \A i \in DOMAIN stack : stack'[i] = WithoutEntry(n)[i]
         /\ stack'[Len(stack) + 1] = f
<1>1. /\ WithoutEntry(n) \in Seq(Frames) /\ Len(WithoutEntry(n)) = Len(stack)
      /\ DOMAIN stack = 1 .. Len(stack) /\ Len(stack) \in Nat \ {0}
  BY StackFacts, StackParts
<1> QED BY <1>1

\* How the scan changes the stack: it starts one or fails to, goes on to the next entry of
\* the deepest call, calls itself for an entry, or returns.
LEMMA ScanMoves ==
  ASSUME IInv, Scan
  PROVE  \/ /\ pc = "load" /\ pc' = "scan"
            /\ stack' = <<Frame(Root, FALSE, 0)>>
         \/ pc = "load" /\ pc' # "load" /\ stack' = stack
         \/ /\ stack # <<>> /\ (pc = "load" <=> pc' = "load")
            /\ \/ \E n \in Top.todo : stack' = WithoutEntry(n)
               \/ \E n \in Top.todo, f \in Frames :
                    /\ stack' = Append(WithoutEntry(n), f)
                    /\ f.todo = {m \in Nodes : Place[m] = f.dir}
                    /\ \/ f.links = Top.links /\ f.dir = n
                       \/ f.links = Top.links + 1
               \/ stack' = Popped
<1>1. CASE gitCheckUntracked
  BY <1>1 DEF gitCheckUntracked
<1>2. CASE SkipEntry
  BY <1>2 DEF SkipEntry, Scanning
<1>3. CASE PassFile
  BY <1>3 DEF PassFile, Scanning
<1>4. CASE EnterFails
  BY <1>4 DEF EnterFails, Scanning
<1>5. CASE Enter
  <2>1. stack # <<>> /\ pc = "scan" /\ pc' = "scan" /\ Top \in Frames
    BY <1>5, StackFacts DEF Enter, Scanning
  <2>2. PICK n \in Top.todo :
          /\ kind[n] = "link" => Top.links < MaxLinks
          /\ stack' = Append(WithoutEntry(n),
                             Frame(Home(n), Top.foreign \/ kind[n] # "dir",
                                   IF kind[n] = "link" THEN Top.links + 1 ELSE Top.links))
    BY <1>5 DEF Enter
  <2> DEFINE foreign == Top.foreign \/ kind[n] # "dir"
             links == IF kind[n] = "link" THEN Top.links + 1 ELSE Top.links
             f == Frame(Home(n), foreign, links)
  <2>3. n \in Nodes /\ Home(n) \in Nodes \cup {Root} /\ foreign \in BOOLEAN
    BY <2>1 DEF Frames, Home
  <2>4. links \in 0 .. MaxLinks
    BY <2>1, <2>2, ScanDirAssumption DEF Frames
  <2>5. \/ links = Top.links /\ Home(n) = n
        \/ links = Top.links + 1
    BY DEF Home
  <2>6. stack' = Append(WithoutEntry(n), f)
    BY <2>2
  <2> HIDE DEF foreign, links
  <2>7. f \in Frames
    BY <2>3, <2>4, FrameType
  <2>8. f.dir = Home(n) /\ f.links = links /\ f.todo = {m \in Nodes : Place[m] = Home(n)}
    BY DEF Frame
  <2> HIDE DEF f
  <2> QED BY <2>1, <2>5, <2>6, <2>7, <2>8
<1>6. CASE FindFile
  BY <1>6 DEF FindFile, Scanning
<1>7. CASE ReturnFound
  BY <1>7 DEF ReturnFound
<1>8. CASE EndOfDirectory
  BY <1>8 DEF EndOfDirectory, Scanning
<1>9. CASE LoadFails \/ OpenRootFails
  BY <1>9 DEF LoadFails, OpenRootFails
<1> QED BY <1>1, <1>2, <1>3, <1>4, <1>5, <1>6, <1>7, <1>8, <1>9 DEF Scan

LEMMA WalkStep ==
  ASSUME IsFiniteSet(Nodes), IInv, WalkInv, Scan
  PROVE  WalkInv'
<1>1. CASE stack' = <<Frame(Root, FALSE, 0)>>
  <2> DEFINE f == Frame(Root, FALSE, 0)
  <2>1. f \in Frames /\ f.dir = Root /\ f.todo = {n \in Nodes : Place[n] = Root}
    <3>1. 0 \in 0 .. MaxLinks
      BY ScanDirAssumption
    <3> QED BY <3>1, FrameType DEF Frame
  <2>2. stack' = <<f>>
    BY <1>1
  <2> HIDE DEF f
  <2>3. DOMAIN stack' = {1} /\ stack'[1] = f
    BY <2>2
  <2>4. Level(f) \in 0 .. Deepest /\ Deepest \in Nat
    BY <2>1, Levels
  <2> QED BY <2>1, <2>3, <2>4 DEF WalkInv
<1>2. CASE stack # <<>> /\ \E n \in Top.todo : stack' = WithoutEntry(n)
  <2>1. PICK n \in Top.todo : stack' = WithoutEntry(n)
    BY <1>2
  <2>2. n \in Nodes /\ Top \in Frames
    BY <1>2, StackFacts DEF Frames
  <2>3. DOMAIN stack' = DOMAIN stack
    BY <1>2, <2>1, <2>2, StackParts
  <2>4. \A i \in DOMAIN stack :
          /\ Level(stack'[i]) = Level(stack[i])
          /\ stack'[i].dir = stack[i].dir /\ stack'[i].todo \subseteq stack[i].todo
    BY <1>2, <2>1, <2>2, SameCall
  <2> QED BY <2>3, <2>4 DEF WalkInv
<1>3. CASE stack # <<>> /\ stack' = Popped
  <2>1. DOMAIN Popped \subseteq DOMAIN stack /\ \A i \in DOMAIN Popped : Popped[i] = stack[i]
    BY <1>3, StackParts
  <2> QED BY <1>3, <2>1 DEF WalkInv
<1>4. CASE /\ stack # <<>>
           /\ \E n \in Top.todo, f \in Frames :
                /\ stack' = Append(WithoutEntry(n), f)
                /\ f.todo = {m \in Nodes : Place[m] = f.dir}
                /\ \/ f.links = Top.links /\ f.dir = n
                   \/ f.links = Top.links + 1
  <2>1. PICK n \in Top.todo, f \in Frames :
          /\ stack' = Append(WithoutEntry(n), f)
          /\ f.todo = {m \in Nodes : Place[m] = f.dir}
          /\ \/ f.links = Top.links /\ f.dir = n
             \/ f.links = Top.links + 1
    BY <1>4
  <2>2. n \in Nodes /\ Top \in Frames
    BY <1>4, StackFacts DEF Frames
  <2>3. /\ Len(stack) \in Nat \ {0} /\ DOMAIN stack = 1 .. Len(stack)
        /\ DOMAIN stack' = 1 .. Len(stack) + 1
        /\ \A i \in DOMAIN stack : stack'[i] = WithoutEntry(n)[i]
        /\ stack'[Len(stack) + 1] = f
    BY <1>4, <2>1, <2>2, Longer
  <2>w. stack # <<>>
    BY <1>4
  <2>4. \A i \in DOMAIN stack :
          /\ Level(stack'[i]) = Level(stack[i])
          /\ stack'[i].dir = stack[i].dir /\ stack'[i].todo \subseteq stack[i].todo
    <3> SUFFICES ASSUME NEW i \in DOMAIN stack
                 PROVE  /\ Level(stack'[i]) = Level(stack[i])
                        /\ stack'[i].dir = stack[i].dir /\ stack'[i].todo \subseteq stack[i].todo
      OBVIOUS
    <3>1. stack'[i] = WithoutEntry(n)[i]
      BY <2>3
    <3> QED BY <2>2, <2>w, <3>1, SameCall
  <2>5. Top = stack[Len(stack)] /\ Place[n] = Top.dir
    BY <2>1, <2>3 DEF Top, WalkInv
  <2>6. Level(Top) < Level(f)
    BY <2>1, <2>2, <2>5, Levels
  <2>7. \A i \in DOMAIN stack : Level(stack[i]) \in Nat
    BY Levels, StackTyped
  <2>8. Level(f) \in Nat
    BY Levels
  <2>9. \A i \in DOMAIN stack : Level(stack[i]) < Level(f)
    <3> SUFFICES ASSUME NEW i \in DOMAIN stack PROVE Level(stack[i]) < Level(f)
      OBVIOUS
    <3>1. CASE i = Len(stack)
      BY <2>5, <2>6, <3>1
    <3>2. CASE i # Len(stack)
      <4>1. i < Len(stack) /\ Len(stack) \in DOMAIN stack
        BY <2>3, <3>2
      <4>2. Level(stack[i]) < Level(Top)
        BY <2>5, <4>1 DEF WalkInv
      <4> QED BY <2>3, <2>5, <2>6, <2>7, <2>8, <4>2
    <3> QED BY <3>1, <3>2
  <2>10. Len(stack) <= Level(f)
    <3>1. Len(stack) - 1 <= Level(Top)
      BY <2>3, <2>5 DEF WalkInv
    <3> QED BY <2>3, <2>5, <2>6, <2>7, <2>8, <3>1
  <2>11. \A i \in DOMAIN stack' : i - 1 <= Level(stack'[i])
    <3> SUFFICES ASSUME NEW i \in DOMAIN stack' PROVE i - 1 <= Level(stack'[i])
      OBVIOUS
    <3>1. CASE i \in DOMAIN stack
      BY <2>4, <3>1 DEF WalkInv
    <3>2. CASE i = Len(stack) + 1
      BY <2>3, <2>10, <3>2
    <3> QED BY <2>3, <3>1, <3>2
  <2>12. \A i \in DOMAIN stack' : \A m \in stack'[i].todo : Place[m] = stack'[i].dir
    <3> SUFFICES ASSUME NEW i \in DOMAIN stack', NEW m \in stack'[i].todo PROVE Place[m] = stack'[i].dir
      OBVIOUS
    <3>1. CASE i \in DOMAIN stack
      BY <2>4, <3>1 DEF WalkInv
    <3>2. CASE i = Len(stack) + 1
      BY <2>1, <2>3, <3>2
    <3> QED BY <2>3, <3>1, <3>2
  <2>13. \A i, j \in DOMAIN stack' : i < j => Level(stack'[i]) < Level(stack'[j])
    <3> SUFFICES ASSUME NEW i \in DOMAIN stack', NEW j \in DOMAIN stack', i < j
                 PROVE  Level(stack'[i]) < Level(stack'[j])
      OBVIOUS
    <3>1. i \in DOMAIN stack
      BY <2>3
    <3>2. CASE j \in DOMAIN stack
      BY <2>4, <3>1, <3>2 DEF WalkInv
    <3>3. CASE j = Len(stack) + 1
      BY <2>3, <2>4, <2>9, <3>1, <3>3
    <3> QED BY <2>3, <3>2, <3>3
  <2> QED BY <2>11, <2>12, <2>13 DEF WalkInv
<1>5. CASE stack' = stack
  BY <1>5 DEF WalkInv
<1> QED BY <1>1, <1>2, <1>3, <1>4, <1>5, ScanMoves

\* The deepest call goes on: what is left on its level x becomes less, and
\* nothing changes on the levels above it.
LEMMA LevelLowered ==
  ASSUME IsFiniteSet(Nodes), IInv, WalkInv, stack # <<>>, NEW x \in Top.todo \cup {Root},
         \A i \in DOMAIN stack : i < Len(stack) => i \in DOMAIN stack' /\ stack'[i] = stack[i],
         \A i \in DOMAIN stack' : \/ i \in DOMAIN stack /\ i < Len(stack)
                                  \/ Level(stack'[i]) > Level(Top)
                                  \/ /\ x # Root /\ Level(stack'[i]) = Level(Top)
                                     /\ stack'[i].todo = Top.todo \ {x},
         x # Root => Len(stack) \in DOMAIN stack' /\ Level(stack'[Len(stack)]) = Level(Top)
  PROVE  \E e \in 0 .. Deepest :
           /\ Unread(e)' \subseteq Unread(e) /\ Unread(e)' # Unread(e)
           /\ \A g \in 0 .. Deepest : g < e => Unread(g)' = Unread(g)
<1> DEFINE L == Len(stack)
<1>1. Top \in Frames /\ L \in Nat \ {0} /\ DOMAIN stack = 1 .. L /\ Top = stack[L] /\ L \in DOMAIN stack
  BY StackFacts, StackParts DEF Top
<1>2. PICK e \in 0 .. Deepest : e = Level(Top) /\ Deepest \in Nat
  BY <1>1, Levels
<1>3. \A i \in DOMAIN stack : i < L => Level(stack[i]) < e
  BY <1>1, <1>2 DEF WalkInv
<1>4. \A i \in DOMAIN stack : Level(stack[i]) \in Nat
  BY Levels, StackTyped
<1>5. Top.todo \subseteq Nodes /\ Root \notin Nodes
  BY <1>1, ScanDirAssumption DEF Frames
<1>6. \A n : n \in Unread(e) <=> n \in Top.todo \cup {Root}
  <2>1. \A i \in DOMAIN stack : Level(stack[i]) = e <=> i = L
    BY <1>1, <1>2, <1>3, <1>4
  <2> QED BY <1>1, <1>5, <2>1 DEF Unread
<1>7. \A i \in DOMAIN stack' : Level(stack'[i]) = e => x # Root /\ stack'[i].todo = Top.todo \ {x}
  BY <1>2, <1>3, <1>4
<1>8. \A n : n \in Unread(e)' => x # Root /\ n \in (Top.todo \ {x}) \cup {Root}
  BY <1>7 DEF Unread
<1>9. x \in Unread(e) /\ x \notin Unread(e)' /\ Unread(e)' \subseteq Unread(e)
  BY <1>6, <1>8
<1>10. ASSUME NEW g \in 0 .. Deepest, g < e PROVE Unread(g)' = Unread(g)
  <2>1. \A i \in DOMAIN stack : Level(stack[i]) = g => i < L
    BY <1>1, <1>2, <1>10
  <2>2. \A i \in DOMAIN stack' : Level(stack'[i]) = g => i \in DOMAIN stack /\ i < L
    BY <1>2, <1>10
  <2>3. \A n : (\E i \in DOMAIN stack' : Level(stack'[i]) = g /\ n \in stack'[i].todo \cup {Root})
               <=> (\E i \in DOMAIN stack : Level(stack[i]) = g /\ n \in stack[i].todo \cup {Root})
    BY <2>1, <2>2
  <2> QED BY <2>3 DEF Unread
<1> QED BY <1>2, <1>9, <1>10

LEMMA ScanLowers ==
  ASSUME IsFiniteSet(Nodes), IInv, WalkInv, Scan
  PROVE  Advances
<1> DEFINE Lowered == \E e \in 0 .. Deepest :
                        /\ Unread(e)' \subseteq Unread(e) /\ Unread(e)' # Unread(e)
                        /\ \A g \in 0 .. Deepest : g < e => Unread(g)' = Unread(g)
<1>1. CASE pc = "load" /\ pc' # "load"
  BY <1>1 DEF Advances
<1>2. ASSUME stack # <<>>, \E n \in Top.todo : stack' = WithoutEntry(n) PROVE Lowered
  <2>0. stack # <<>>
    BY <1>2
  <2>1. PICK n \in Top.todo : stack' = WithoutEntry(n)
    BY <1>2
  <2>2. n \in Nodes /\ n # Root /\ Len(stack) \in Nat \ {0} /\ DOMAIN stack = 1 .. Len(stack)
    BY <2>0, StackFacts, StackParts, ScanDirAssumption DEF Frames
  <2>p. DOMAIN stack' = DOMAIN stack /\ \A i \in DOMAIN stack : i # Len(stack) => stack'[i] = stack[i]
    BY <2>0, <2>1, <2>2, StackParts
  <2>3. DOMAIN stack' = DOMAIN stack /\ \A i \in DOMAIN stack : i < Len(stack) => stack'[i] = stack[i]
    BY <2>2, <2>p
  <2>l. Len(stack) \in DOMAIN stack
    BY <2>2
  <2>4. Level(stack'[Len(stack)]) = Level(Top) /\ stack'[Len(stack)].todo = Top.todo \ {n}
    BY <2>0, <2>1, <2>2, <2>l, SameCall DEF Top
  <2>5. \A i \in DOMAIN stack : i < Len(stack) \/ i = Len(stack)
    BY <2>2
  <2>6. \A i \in DOMAIN stack' : \/ i \in DOMAIN stack /\ i < Len(stack)
                                 \/ /\ n # Root /\ Level(stack'[i]) = Level(Top)
                                    /\ stack'[i].todo = Top.todo \ {n}
    BY <2>2, <2>3, <2>4, <2>5
  <2>7. \A i \in DOMAIN stack : i < Len(stack) => i \in DOMAIN stack' /\ stack'[i] = stack[i]
    BY <2>3
  <2>8. Len(stack) \in DOMAIN stack' /\ Level(stack'[Len(stack)]) = Level(Top)
    BY <2>3, <2>4, <2>l
  <2> QED BY <2>0, <2>6, <2>7, <2>8, LevelLowered DEF Lowered
<1>3. ASSUME stack # <<>>, stack' = Popped PROVE Lowered
  <2>1. /\ Len(stack) \in Nat \ {0} /\ DOMAIN stack = 1 .. Len(stack) /\ DOMAIN Popped = 1 .. Len(stack) - 1
        /\ \A i \in DOMAIN Popped : Popped[i] = stack[i]
    BY <1>3, StackParts
  <2>2. \A i \in DOMAIN stack : i < Len(stack) => i \in DOMAIN stack' /\ stack'[i] = stack[i]
    BY <1>3, <2>1
  <2>3. \A i \in DOMAIN stack' : i \in DOMAIN stack /\ i < Len(stack)
    BY <1>3, <2>1
  <2>4. \E x \in Top.todo \cup {Root} : x = Root
    OBVIOUS
  <2> QED BY <1>3, <2>2, <2>3, <2>4, LevelLowered
<1>4. ASSUME stack # <<>>,
             \E n \in Top.todo, f \in Frames :
               /\ stack' = Append(WithoutEntry(n), f)
               /\ \/ f.links = Top.links /\ f.dir = n
                  \/ f.links = Top.links + 1
      PROVE  Lowered
  <2>1. PICK n \in Top.todo, f \in Frames :
          /\ stack' = Append(WithoutEntry(n), f)
          /\ \/ f.links = Top.links /\ f.dir = n
             \/ f.links = Top.links + 1
    BY <1>4
  <2>2. n \in Nodes /\ n # Root /\ Top \in Frames
    BY <1>4, StackFacts, ScanDirAssumption DEF Frames
  <2>3. /\ Len(stack) \in Nat \ {0} /\ DOMAIN stack = 1 .. Len(stack)
        /\ DOMAIN stack' = 1 .. Len(stack) + 1
        /\ \A i \in DOMAIN stack : stack'[i] = WithoutEntry(n)[i]
        /\ stack'[Len(stack) + 1] = f
    BY <1>4, <2>1, <2>2, Longer
  <2>4. Top = stack[Len(stack)] /\ Place[n] = Top.dir
    BY <2>1, <2>3 DEF Top, WalkInv
  <2>5. Level(f) > Level(Top)
    BY <2>1, <2>2, <2>4, Levels
  <2>0. stack # <<>>
    BY <1>4
  <2>l. Len(stack) \in DOMAIN stack
    BY <2>3
  <2>6. Level(stack'[Len(stack)]) = Level(Top) /\ stack'[Len(stack)].todo = Top.todo \ {n}
    BY <2>0, <2>2, <2>3, <2>4, <2>l, SameCall
  <2>w. \A i \in DOMAIN stack : i # Len(stack) => stack'[i] = stack[i]
    BY <2>0, <2>2, <2>3, StackParts
  <2>7. \A i \in DOMAIN stack : i < Len(stack) => i \in DOMAIN stack' /\ stack'[i] = stack[i]
    BY <2>3, <2>w
  <2>8. \A i \in DOMAIN stack' : (i \in DOMAIN stack /\ i < Len(stack)) \/ i = Len(stack) \/ i = Len(stack) + 1
    BY <2>3
  <2>9. Len(stack) \in DOMAIN stack'
    BY <2>3
  <2>10. \A i \in DOMAIN stack' : \/ i \in DOMAIN stack /\ i < Len(stack)
                                  \/ Level(stack'[i]) > Level(Top)
                                  \/ /\ n # Root /\ Level(stack'[i]) = Level(Top)
                                     /\ stack'[i].todo = Top.todo \ {n}
    BY <2>2, <2>3, <2>5, <2>6, <2>8
  <2> QED BY <2>0, <2>6, <2>7, <2>9, <2>10, LevelLowered
<1>5. \/ pc = "load" /\ pc' # "load"
      \/ (pc # "load" /\ pc' # "load")
  BY DEF Scan, gitCheckUntracked, LoadFails, OpenRootFails, SkipEntry, Enter, EnterFails, PassFile, FindFile, ReturnFound,
         EndOfDirectory, Scanning
<1> HIDE DEF Lowered
<1>6. Lowered \/ (pc = "load" /\ pc' # "load")
  BY <1>2, <1>3, <1>4, ScanMoves
<1> QED BY <1>1, <1>5, <1>6 DEF Advances, Lowered

LEMMA AlwaysWalks ==
  ASSUME IsFiniteSet(Nodes)
  PROVE  Spec => [](IInv /\ WalkInv)
<1>1. Init => IInv /\ WalkInv
  BY InitInv DEF Init, WalkInv
<1>2. IInv /\ WalkInv /\ [Next]_vars => (IInv /\ WalkInv)'
  <2> SUFFICES ASSUME IInv, WalkInv, [Next]_vars PROVE WalkInv'
    BY StepKeeps
  <2>1. CASE Scan
    BY <2>1, WalkStep
  <2>2. CASE ChangeEntry \/ ChangeIndex
    BY <2>2 DEF ChangeEntry, ChangeIndex, Changed, WalkInv
  <2>3. CASE UNCHANGED vars
    BY <2>3 DEF vars, WalkInv
  <2> QED BY <2>1, <2>2, <2>3 DEF Next, Terminating
<1> QED BY <1>1, <1>2, PTL DEF Spec

\* In a finite work tree scanDir() calls itself no deeper than the number of
\* entries times that of the links in a path, whatever the links point at and
\* however the tree changes: a loop of links cannot exhaust the stack.
THEOREM RecursionIsBounded ==
  ASSUME IsFiniteSet(Nodes)
  PROVE  Spec => []RecursionBounded
<1>1. IInv /\ WalkInv => RecursionBounded
  <2> SUFFICES ASSUME IInv, WalkInv, stack # <<>> PROVE RecursionBounded
    BY Levels DEF IInv, RecursionBounded
  <2>1. Len(stack) \in Nat \ {0} /\ DOMAIN stack = 1 .. Len(stack) /\ Len(stack) \in DOMAIN stack
    BY StackParts
  <2>2. Len(stack) - 1 <= Level(stack[Len(stack)])
    BY <2>1 DEF WalkInv
  <2>3. Level(stack[Len(stack)]) \in 0 .. Deepest
    BY <2>1, Levels, StackTyped
  <2>4. Deepest \in Nat /\ (MaxLinks + 1) * Size = Deepest + 1
    BY Levels
  <2> QED BY <2>1, <2>2, <2>3, <2>4 DEF RecursionBounded
<1> QED BY <1>1, AlwaysWalks, PTL

\* Every step of scanDir() leaves less to do on one level and as much as before
\* on the levels above it, and no other program adds to it: in a finite work
\* tree the scan can only end, also when directories are links to their parents
\* and files are created all the time.
THEOREM ScanIsBounded ==
  ASSUME IsFiniteSet(Nodes)
  PROVE  Spec => [][(Scan => Advances) /\ (~Scan => UNCHANGED <<pc, stack>>)]_vars
<1>1. IInv /\ WalkInv /\ [Next]_vars
      => [(Scan => Advances) /\ (~Scan => UNCHANGED <<pc, stack>>)]_vars
  <2> SUFFICES ASSUME IInv, WalkInv, [Next]_vars
               PROVE  \/ (Scan => Advances) /\ (~Scan => UNCHANGED <<pc, stack>>)
                      \/ UNCHANGED vars
    OBVIOUS
  <2>1. Scan => Advances
    BY ScanLowers
  <2>2. ~Scan => UNCHANGED <<pc, stack>> \/ UNCHANGED vars
    BY DEF Next, Terminating, ChangeEntry, ChangeIndex, Changed
  <2> QED BY <2>1, <2>2
<1> QED BY <1>1, AlwaysWalks, PTL DEF Spec

=============================================================================
