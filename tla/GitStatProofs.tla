---------------------------- MODULE GitStatProofs ----------------------------
(***************************************************************************)
(* getGitStatString() never leaves a thread behind, writes the marks of    *)
(* its checks, and shows no mark that no file had, for any files, commits, *)
(* layouts, number of changes and schedule. The invariant has three parts: *)
(* where the threads are, how far what the checks have read may differ from*)
(* the repository by now, and what their answers say.                      *)
(***************************************************************************)
EXTENDS GitStat, Integers, TLAPS

\* Which threads exist and which have ended, by where the caller is, and
\* what an ended thread has stored.
ThreadInv ==
  /\ mpc = "create" => next \in Threads /\ \A t \in Threads : tpc[t] = "none" <=> t >= next
  /\ mpc = "unwind" =>
       \A t \in Threads : t > next => tpc[t] \in {"none", "ended"}
  /\ mpc = "join" =>
       next \in Threads /\ \A t \in Threads : tpc[t] # "none" /\ (t > next => tpc[t] = "ended")
  /\ mpc \in {"call", "called"} =>
       /\ next \in Threads
       /\ \A t \in Threads : (t < next => tpc[t] = "ended") /\ (t > next => tpc[t] = "none")
       /\ tpc[next] = "none" <=> mpc = "call"
  /\ mpc = "build" => \A t \in Threads : tpc[t] = "ended"
  /\ NoThreadOutlivesFrame
  /\ \A t \in Threads : tpc[t] = "ended" => local[t] = Marked(t)
  /\ \A t \in Threads : tpc[t] \in {"none", "check", "compare"} => outcome[t] = Uninit
  /\ \A t \in Threads : tpc[t] \in {"store", "ended"} => outcome[t] # Uninit
  /\ mpc # "returned" => buf = Uninit
  /\ buf # Uninit => \A t \in Threads : tpc[t] = "ended"
  /\ AgreesWithChecks

\* What was read of file f, if it was read, is what x has now.
Agree(s, x, f) == s # Uninit => s[f] = x[f]

\* Reads of the index can be out of date only for files that had a mark, and
\* reads of a part that nobody touched are not out of date at all.
ReadInv ==
  /\ MarksOf(head, index, work) \subseteq seen
  /\ \A t \in Threads : tpc[t] = "compare" => read[t] # Uninit
  /\ libgit2 => \A t \in {1, 3} : read[t] # Uninit => read[t] = loaded
  /\ ~libgit2 => loaded = Uninit
  /\ \A f \in Files :
       /\ <<2, f>> \notin seen =>
            Agree(loaded, index, f) /\ \A t \in Threads : Agree(read[t], index, f)
       /\ <<1, f>> \notin seen /\ <<3, f>> \notin seen =>
            Agree(loaded, index, f) /\ Agree(read[1], index, f) /\ Agree(read[3], index, f)
       /\ <<"index", f>> \notin touched =>
            /\ Agree(loaded, index, f) /\ Agree(read[1], index, f) /\ Agree(read[3], index, f)
            /\ ~libgit2 => Agree(read[2], index, f)
       /\ <<"head", f>> \notin touched /\ libgit2 => Agree(read[2], TreeOf(head), f)

\* A mark of check t was true of a file at some time.
HadMark(t) == \E m \in seen : m[1] = 2 <=> t = 2

\* A "yes" was true of a file, or comes from where git does not look; a "no"
\* is true of the files that nobody touched and that the check looks at.
AnswerInv ==
  \A t \in Threads :
    /\ outcome[t] = "yes" => Strays(t) \/ HadMark(t)
    /\ outcome[t] = "no" =>
         /\ libgit2 => loaded # Uninit
         /\ \A f \in Files : ~Overlooks(t, f) =>
              /\ libgit2 /\ <<"head", f>> \notin touched /\ <<"work", f>> \notin touched
                 => ~Differs(t, f, head, loaded, work)
              /\ <<"head", f>> \notin touched /\ <<"work", f>> \notin touched
                 /\ <<"index", f>> \notin touched
                 => ~Differs(t, f, head, index, work)

Inv == TypeOK /\ ThreadInv /\ ReadInv /\ AnswerInv

LEMMA InvInit == Init => Inv
<1> SUFFICES ASSUME Init PROVE Inv
  OBVIOUS
<1> USE GitStatAssumption, RepositoryAssumption DEF Init, RepositoryInit, Threads
<1>1. TypeOK
  <2>1. MarksOf(head, index, work) \subseteq (1 .. 3) \X Files
    BY DEF MarksOf
  <2> QED BY <2>1 DEF TypeOK, RepositoryTypeOK
<1>2. ThreadInv
  BY DEF ThreadInv, NoThreadOutlivesFrame, AgreesWithChecks
<1>3. ReadInv
  BY DEF ReadInv, Agree
<1>4. AnswerInv
  BY DEF AnswerInv
<1> QED BY <1>1, <1>2, <1>3, <1>4 DEF Inv

LEMMA TypeNext == TypeOK /\ ThreadInv /\ [Next]_vars => TypeOK'
<1> SUFFICES ASSUME TypeOK, ThreadInv, [Next]_vars PROVE TypeOK'
  OBVIOUS
<1> USE GitStatAssumption, RepositoryAssumption DEF ThreadInv, TypeOK, RepositoryTypeOK, Threads, repository, checks
<1>1. CASE Create BY <1>1 DEF Create
<1>2. CASE CreateFails BY <1>2 DEF CreateFails
<1>3. CASE JoinOne BY <1>3 DEF JoinOne
<1>4. CASE ReturnErrno BY <1>4 DEF ReturnErrno
<1>5. CASE Join BY <1>5 DEF Join
<1>6. CASE Call BY <1>6 DEF Call
<1>7. CASE CallReturns BY <1>7 DEF CallReturns
<1>8. CASE Build BY <1>8 DEF Build
<1>9. ASSUME NEW t \in Threads, CheckFails(t) PROVE TypeOK'
  BY <1>9 DEF CheckFails, Index, Outcomes
<1>10. ASSUME NEW t \in Threads, Check(t) PROVE TypeOK'
  BY <1>10 DEF Check, Index, Trees
<1>11. ASSUME NEW t \in Threads, Compare(t) PROVE TypeOK'
  BY <1>11 DEF Compare, Index, Outcomes
<1>12. ASSUME NEW t \in Threads, Store(t) PROVE TypeOK'
  <2>1. Marked(t) \in BOOLEAN
    BY DEF Marked
  <2> QED BY <1>12, <2>1 DEF Store
<1>13. CASE Git
  <2>1. MarksOf(head', index', work') \subseteq (1 .. 3) \X Files
    BY DEF MarksOf
  <2>2. head' \in Commits \cup {Unborn} /\ index' \in Trees /\ work' \in Trees
    BY <1>13 DEF Git, Move, Trees
  <2>3. touched' \subseteq {"head", "index", "work"} \X Files
    BY <1>13 DEF Git, Move
  <2> QED BY <1>13, <2>1, <2>2, <2>3 DEF Git, Move
<1>14. CASE UNCHANGED vars BY <1>14 DEF vars
<1> QED
  BY <1>1, <1>2, <1>3, <1>4, <1>5, <1>6, <1>7, <1>8, <1>9, <1>10, <1>11, <1>12, <1>13, <1>14
  DEF Next, Caller, Thread, Terminating

LEMMA ThreadNext == TypeOK /\ ThreadInv /\ [Next]_vars => ThreadInv'
<1> SUFFICES ASSUME TypeOK, ThreadInv, [Next]_vars PROVE ThreadInv'
  OBVIOUS
<1> USE DEF TypeOK, ThreadInv, NoThreadOutlivesFrame, AgreesWithChecks, Marked, Threads, repository, checks
<1>1. CASE Create BY <1>1 DEF Create
<1>2. CASE CreateFails BY <1>2 DEF CreateFails
<1>3. CASE JoinOne BY <1>3 DEF JoinOne
<1>4. CASE ReturnErrno BY <1>4 DEF ReturnErrno
<1>5. CASE Join BY <1>5 DEF Join
<1>6. CASE Call BY <1>6 DEF Call
<1>7. CASE CallReturns BY <1>7 DEF CallReturns
<1>8. CASE Build
  <2>1. buf' = {t \in Threads : Marked(t)}
    BY <1>8, GitStatAssumption DEF Build
  <2> QED BY <1>8, <2>1 DEF Build
<1>9. ASSUME NEW t \in Threads, CheckFails(t) PROVE ThreadInv'
  BY <1>9, GitStatAssumption DEF CheckFails, Outcomes
<1>10. ASSUME NEW t \in Threads, Check(t) PROVE ThreadInv'
  BY <1>10 DEF Check
<1>11. ASSUME NEW t \in Threads, Compare(t) PROVE ThreadInv'
  BY <1>11, GitStatAssumption DEF Compare, Outcomes
<1>12. ASSUME NEW t \in Threads, Store(t) PROVE ThreadInv'
  BY <1>12 DEF Store
<1>13. CASE Git BY <1>13 DEF Git
<1>14. CASE UNCHANGED vars BY <1>14 DEF vars
<1> QED
  BY <1>1, <1>2, <1>3, <1>4, <1>5, <1>6, <1>7, <1>8, <1>9, <1>10, <1>11, <1>12, <1>13, <1>14
  DEF Next, Caller, Thread, Terminating

\* A file that is not staged is as it is at HEAD.
LEMMA NotStaged ==
  ASSUME NEW h, NEW i, NEW w, NEW f \in Files, <<2, f>> \notin MarksOf(h, i, w)
  PROVE  TreeOf(h)[f] = i[f]
<1>1. ~Differs(2, f, h, i, w)
  BY DEF MarksOf
<1> QED BY <1>1 DEF Differs

\* A file neither changed nor untracked is as the index has it.
LEMMA NotInWork ==
  ASSUME NEW h, NEW i, NEW w, NEW f \in Files,
         <<1, f>> \notin MarksOf(h, i, w), <<3, f>> \notin MarksOf(h, i, w)
  PROVE  i[f] = w[f]
<1>1. ~Differs(1, f, h, i, w) /\ ~Differs(3, f, h, i, w)
  BY DEF MarksOf
<1> QED BY <1>1 DEF Differs

\* A change leaves alone what it does not enter in touched.
LEMMA UntouchedFixed ==
  ASSUME Move, index \in Trees, work \in Trees, NEW f \in Files
  PROVE  /\ <<"index", f>> \notin touched' => index'[f] = index[f]
         /\ <<"work", f>> \notin touched' => work'[f] = work[f]
         /\ <<"head", f>> \notin touched' => head' = head
BY DEF Move, Trees

\* A change of a file without a mark, after which it has none, is none of the
\* index: it would have made the file differ from HEAD, or from the work tree.
LEMMA UnseenFixed ==
  ASSUME Move, index \in Trees, MarksOf(head, index, work) \subseteq seen, NEW f \in Files
  PROVE  /\ <<2, f>> \notin seen' => index'[f] = index[f]
         /\ <<1, f>> \notin seen' /\ <<3, f>> \notin seen' => index'[f] = index[f]
<1>1. index' = index \/ (head' = head /\ work' = work)
  BY DEF Move
<1>2. MarksOf(head, index, work) \subseteq seen' /\ MarksOf(head', index', work') \subseteq seen'
  BY DEF Move
<1>3. ASSUME <<2, f>> \notin seen'
      PROVE  index'[f] = index[f]
  <2>1. TreeOf(head)[f] = index[f]
    BY <1>2, <1>3, NotStaged
  <2>2. TreeOf(head')[f] = index'[f]
    BY <1>2, <1>3, NotStaged
  <2> QED BY <1>1, <2>1, <2>2
<1>4. ASSUME <<1, f>> \notin seen', <<3, f>> \notin seen'
      PROVE  index'[f] = index[f]
  <2>1. /\ <<1, f>> \notin MarksOf(head, index, work) /\ <<3, f>> \notin MarksOf(head, index, work)
        /\ <<1, f>> \notin MarksOf(head', index', work') /\ <<3, f>> \notin MarksOf(head', index', work')
    BY <1>2, <1>4
  <2>2. index[f] = work[f]
    BY <2>1, NotInWork
  <2>3. index'[f] = work'[f]
    BY <2>1, NotInWork
  <2> QED BY <1>1, <2>2, <2>3
<1> QED BY <1>3, <1>4

LEMMA ReadNext == TypeOK /\ ThreadInv /\ ReadInv /\ [Next]_vars => ReadInv'
<1> SUFFICES ASSUME TypeOK, ThreadInv, ReadInv, [Next]_vars PROVE ReadInv'
  OBVIOUS
<1> USE GitStatAssumption DEF TypeOK, RepositoryTypeOK, Threads, repository, checks
<1>1. ASSUME UNCHANGED <<repository, libgit2, loaded, read>>,
             \A t \in Threads : tpc'[t] = "compare" => tpc[t] = "compare"
      PROVE  ReadInv'
  BY <1>1 DEF ReadInv, Agree
<1>2. CASE Create BY <1>1, <1>2 DEF Create
<1>3. CASE CreateFails BY <1>1, <1>3 DEF CreateFails
<1>4. CASE JoinOne BY <1>1, <1>4 DEF JoinOne
<1>5. CASE ReturnErrno BY <1>1, <1>5 DEF ReturnErrno
<1>6. CASE Join BY <1>1, <1>6 DEF Join
<1>7. CASE Call BY <1>1, <1>7 DEF Call
<1>8. CASE CallReturns BY <1>1, <1>8 DEF CallReturns
<1>9. CASE Build BY <1>1, <1>9 DEF Build
<1>10. ASSUME NEW t \in Threads, CheckFails(t) PROVE ReadInv'
  <2>1. \A s \in Threads : tpc'[s] = "compare" => tpc[s] = "compare"
    BY <1>10 DEF CheckFails
  <2>2. loaded' = loaded \/ (libgit2 /\ loaded = Uninit /\ loaded' = index)
    BY <1>10 DEF CheckFails, Index
  <2>3. UNCHANGED <<repository, libgit2, read>>
    BY <1>10 DEF CheckFails
  <2>4. CASE loaded' = loaded
    BY <1>1, <2>1, <2>3, <2>4
  <2>5. CASE libgit2 /\ loaded = Uninit /\ loaded' = index
    BY <2>1, <2>3, <2>5 DEF ReadInv, Agree
  <2> QED BY <2>2, <2>4, <2>5
<1>11. ASSUME NEW t \in Threads, Check(t) PROVE ReadInv'
  <2>1. UNCHANGED <<repository, libgit2>> /\ \A s \in Threads : tpc'[s] = "compare" => s = t \/ tpc[s] = "compare"
    BY <1>11 DEF Check
  <2>2. CASE libgit2 /\ t = 2
    <3>1. read' = [read EXCEPT ![2] = head] /\ head \in Trees /\ head # Unborn /\ loaded' = loaded
      BY <1>11, <2>2, RepositoryAssumption DEF Check, Trees
    <3>2. TreeOf(head) = head
      BY <3>1 DEF TreeOf
    <3>3. \A f \in Files : <<2, f>> \notin seen => TreeOf(head)[f] = index[f]
      BY NotStaged DEF ReadInv
    <3>4. read'[2] = head /\ read'[1] = read[1] /\ read'[3] = read[3]
      BY <3>1
    <3>5. ASSUME NEW f \in Files, <<2, f>> \notin seen, NEW s \in Threads
          PROVE  Agree(read'[s], index, f)
      <4>1. CASE s = 2
        <5>1. read'[s] = head /\ head[f] = index[f]
          BY <3>2, <3>3, <3>4, <3>5, <4>1
        <5> QED BY <5>1 DEF Agree
      <4>2. CASE s # 2
        <5>1. read'[s] = read[s]
          BY <3>4, <3>5, <4>2
        <5>2. Agree(read[s], index, f)
          BY <3>5 DEF ReadInv
        <5> QED BY <5>1, <5>2
      <4> QED BY <4>1, <4>2
    <3>6. \A f \in Files : Agree(read'[2], TreeOf(head), f)
      BY <3>2, <3>4 DEF Agree
    <3> QED BY <2>1, <2>2, <3>1, <3>4, <3>5, <3>6 DEF ReadInv
  <2>3. CASE ~libgit2
    <3>1. read' = [read EXCEPT ![t] = index] /\ loaded' = loaded
      BY <1>11, <2>3 DEF Check, Index
    <3> QED BY <2>1, <2>3, <3>1 DEF ReadInv, Agree
  <2>4. CASE libgit2 /\ t # 2
    <3>1. PICK i \in Trees : i = Index /\ read' = [read EXCEPT ![t] = i] /\ loaded' = i
      BY <1>11, <2>4 DEF Check, Index
    <3>2. i = index \/ i = loaded
      BY <3>1 DEF Index
    <3>3. loaded # Uninit => i = loaded
      BY <2>4, <3>1 DEF Index
    <3> QED BY <2>1, <2>4, <3>1, <3>2, <3>3 DEF ReadInv, Agree
  <2> QED BY <2>2, <2>3, <2>4
<1>12. ASSUME NEW t \in Threads, Compare(t) PROVE ReadInv'
  <2>1. UNCHANGED <<repository, libgit2>> /\ read' = [read EXCEPT ![t] = Uninit]
        /\ \A s \in Threads : tpc'[s] = "compare" => s # t /\ tpc[s] = "compare"
    BY <1>12 DEF Compare
  <2>2. loaded' = loaded \/ (libgit2 /\ loaded = Uninit /\ loaded' = index)
    BY <1>12 DEF Compare, Index
  <2>3. CASE loaded' = loaded
    BY <2>1, <2>3 DEF ReadInv, Agree
  <2>4. CASE libgit2 /\ loaded = Uninit /\ loaded' = index
    BY <2>1, <2>4 DEF ReadInv, Agree
  <2> QED BY <2>2, <2>3, <2>4
<1>13. ASSUME NEW t \in Threads, Store(t) PROVE ReadInv'
  BY <1>1, <1>13 DEF Store
<1>14. CASE Git
  <2>1. UNCHANGED <<checks, tpc>> /\ Move
    BY <1>14 DEF Git
  <2>2. /\ MarksOf(head', index', work') \subseteq seen'
        /\ seen \subseteq seen' /\ touched \subseteq touched'
    BY <2>1 DEF Move
  <2>3. /\ index \in Trees /\ MarksOf(head, index, work) \subseteq seen
    BY DEF ReadInv
  <2>4. \A f \in Files : <<2, f>> \notin seen' => index'[f] = index[f]
    BY <2>1, <2>3, UnseenFixed
  <2>5. \A f \in Files : <<1, f>> \notin seen' /\ <<3, f>> \notin seen' => index'[f] = index[f]
    BY <2>1, <2>3, UnseenFixed
  <2>6. \A f \in Files : <<"index", f>> \notin touched' => index'[f] = index[f]
    BY <2>1, <2>3, UntouchedFixed
  <2>7. \A f \in Files : <<"head", f>> \notin touched' => TreeOf(head') = TreeOf(head)
    BY <2>1, <2>3, UntouchedFixed
  <2> QED BY <2>1, <2>2, <2>4, <2>5, <2>6, <2>7 DEF ReadInv, Agree
<1>15. CASE UNCHANGED vars BY <1>1, <1>15 DEF vars
<1> QED
  BY <1>2, <1>3, <1>4, <1>5, <1>6, <1>7, <1>8, <1>9, <1>10, <1>11, <1>12, <1>13, <1>14, <1>15
  DEF Next, Caller, Thread, Terminating

\* A "yes" was true of the file that gave it when one of its two reads was.
LEMMA YesWasTrue ==
  ASSUME TypeOK, ReadInv, NEW t \in Threads, tpc[t] = "compare", Finds(t)
  PROVE  HadMark(t)
<1> USE GitStatAssumption, RepositoryAssumption DEF TypeOK, RepositoryTypeOK, Threads
<1>1. PICK f \in Files : IF libgit2 /\ t = 2 THEN Differs(2, f, read[2], Index, work)
                                         ELSE Differs(t, f, head, read[t], work)
  BY DEF Finds
<1>2. read[t] # Uninit /\ read[t] # Unborn
  BY DEF ReadInv, Trees
<1>3. CASE t = 2
  <2>1. ASSUME <<2, f>> \notin seen PROVE FALSE
    <3>1. TreeOf(head)[f] = index[f]
      BY <2>1, NotStaged DEF ReadInv
    <3>2. read[t][f] = index[f] /\ Index[f] = index[f]
      BY <1>2, <2>1 DEF ReadInv, Agree, Index
    <3>3. TreeOf(read[t]) = read[t]
      BY <1>2 DEF TreeOf
    <3>4. TreeOf(read[t])[f] = Index[f] /\ TreeOf(head)[f] = read[t][f]
      BY <3>1, <3>2, <3>3
    <3>5. ~Differs(2, f, read[t], Index, work) /\ ~Differs(2, f, head, read[t], work)
      BY <3>4 DEF Differs
    <3> QED BY <1>1, <1>3, <3>5
  <2> QED BY <1>3, <2>1 DEF HadMark
<1>4. CASE t # 2
  <2>1. ASSUME <<1, f>> \notin seen, <<3, f>> \notin seen PROVE FALSE
    <3>1. index[f] = work[f]
      BY <2>1, NotInWork DEF ReadInv
    <3>2. read[t][f] = index[f]
      <4>1. Agree(read[1], index, f) /\ Agree(read[3], index, f)
        BY <2>1 DEF ReadInv
      <4> QED BY <1>2, <1>4, <4>1 DEF Agree
    <3>3. Differs(t, f, head, read[t], work)
      BY <1>1, <1>4
    <3>4. ~Differs(1, f, head, read[t], work) /\ ~Differs(3, f, head, read[t], work)
      BY <3>1, <3>2 DEF Differs
    <3> QED BY <1>4, <3>3, <3>4
  <2> QED BY <1>4, <2>1 DEF HadMark
<1> QED BY <1>3, <1>4

\* A "no" is true of what nobody touched.
LEMMA NoIsTrue ==
  ASSUME TypeOK, ReadInv, NEW t \in Threads, Compare(t), ~Finds(t), NEW f \in Files,
         ~Overlooks(t, f), <<"head", f>> \notin touched, <<"work", f>> \notin touched
  PROVE  /\ libgit2 => loaded' # Uninit /\ ~Differs(t, f, head, loaded', work)
         /\ <<"index", f>> \notin touched => ~Differs(t, f, head, index, work)
<1> USE GitStatAssumption, RepositoryAssumption DEF TypeOK, RepositoryTypeOK, Threads
<1>1. tpc[t] = "compare" /\ loaded' = IF libgit2 THEN Index ELSE loaded
  BY DEF Compare
<1>2. read[t] # Uninit /\ read[t] \in Trees /\ read[t] # Unborn /\ index # Uninit
  BY <1>1 DEF ReadInv, Trees
<1>3. Index # Uninit
  BY <1>2 DEF Index
<1>4. CASE libgit2 /\ t = 2
  <2>1. ~Differs(2, f, read[2], Index, work)
    BY <1>4 DEF Finds
  <2>2. TreeOf(read[2])[f] = TreeOf(head)[f]
    <3>1. Agree(read[2], TreeOf(head), f)
      BY <1>4 DEF ReadInv
    <3> QED BY <1>2, <1>4, <3>1 DEF Agree, TreeOf
  <2>3. TreeOf(head)[f] = Index[f]
    BY <2>1, <2>2 DEF Differs
  <2>4. <<"index", f>> \notin touched => Index[f] = index[f]
    BY <1>3 DEF ReadInv, Agree, Index
  <2> QED BY <1>1, <1>3, <1>4, <2>3, <2>4 DEF Differs
<1>5. CASE libgit2 /\ t # 2
  <2>1. ~Differs(t, f, head, read[t], work)
    BY <1>5 DEF Finds, Overlooks
  <2>2. read[t] = loaded /\ Index = loaded /\ loaded # Uninit
    BY <1>2, <1>5 DEF ReadInv, Index
  <2>3. <<"index", f>> \notin touched => loaded[f] = index[f]
    BY <2>2 DEF ReadInv, Agree
  <2> QED BY <1>1, <1>5, <2>1, <2>2, <2>3 DEF Differs
<1>6. CASE ~libgit2
  <2>1. ~Differs(t, f, head, read[t], work)
    BY <1>6 DEF Finds
  <2>2. <<"index", f>> \notin touched => read[t][f] = index[f]
    <3>1. <<"index", f>> \notin touched =>
            Agree(read[1], index, f) /\ Agree(read[2], index, f) /\ Agree(read[3], index, f)
      BY <1>6 DEF ReadInv
    <3> QED BY <1>2, <3>1 DEF Agree
  <2> QED BY <1>6, <2>1, <2>2 DEF Differs
<1> QED BY <1>4, <1>5, <1>6

LEMMA AnswerNext == TypeOK /\ ThreadInv /\ ReadInv /\ AnswerInv /\ [Next]_vars => AnswerInv'
<1> SUFFICES ASSUME TypeOK, ThreadInv, ReadInv, AnswerInv, [Next]_vars PROVE AnswerInv'
  OBVIOUS
<1> USE DEF Threads, repository, checks
<1>1. ASSUME UNCHANGED <<repository, libgit2, outcome>>, loaded # Uninit => loaded' = loaded
      PROVE  AnswerInv'
  BY <1>1 DEF AnswerInv, HadMark, Strays, Overlooks
<1>2. CASE Create BY <1>1, <1>2 DEF Create
<1>3. CASE CreateFails BY <1>1, <1>3 DEF CreateFails
<1>4. CASE JoinOne BY <1>1, <1>4 DEF JoinOne
<1>5. CASE ReturnErrno BY <1>1, <1>5 DEF ReturnErrno
<1>6. CASE Join BY <1>1, <1>6 DEF Join
<1>7. CASE Call BY <1>1, <1>7 DEF Call
<1>8. CASE CallReturns BY <1>1, <1>8 DEF CallReturns
<1>9. CASE Build BY <1>1, <1>9 DEF Build
<1>10. ASSUME NEW t \in Threads, CheckFails(t) PROVE AnswerInv'
  <2>1. UNCHANGED <<repository, libgit2>> /\ (loaded # Uninit => loaded' = loaded)
    BY <1>10 DEF CheckFails, Index
  <2>2. \A s \in Threads : outcome'[s] \in {"yes", "no"} => outcome[s] = outcome'[s]
    BY <1>10 DEF CheckFails, TypeOK
  <2> QED BY <2>1, <2>2 DEF AnswerInv, HadMark, Strays, Overlooks
<1>11. ASSUME NEW t \in Threads, Check(t) PROVE AnswerInv'
  BY <1>1, <1>11 DEF Check, Index
<1>12. ASSUME NEW t \in Threads, Compare(t) PROVE AnswerInv'
  <2>1. UNCHANGED <<repository, libgit2>> /\ (loaded # Uninit => loaded' = loaded) /\ tpc[t] = "compare"
    BY <1>12 DEF Compare, Index
  <2>2. /\ outcome'[t] = "yes" => Finds(t) \/ Strays(t)
        /\ outcome'[t] = "no" => ~Finds(t)
        /\ \A s \in Threads : s # t => outcome'[s] = outcome[s]
    BY <1>12 DEF Compare, TypeOK
  <2>3. Finds(t) => HadMark(t)
    BY <2>1, YesWasTrue
  <2>4. ~Finds(t) =>
          /\ libgit2 => loaded' # Uninit
          /\ \A f \in Files :
               ~Overlooks(t, f) /\ <<"head", f>> \notin touched /\ <<"work", f>> \notin touched =>
               /\ libgit2 => ~Differs(t, f, head, loaded', work)
               /\ <<"index", f>> \notin touched => ~Differs(t, f, head, index, work)
    <3>1. libgit2 => loaded' # Uninit
      BY <1>12, GitStatAssumption DEF Compare, Index, TypeOK, RepositoryTypeOK
    <3> QED BY <1>12, <3>1, NoIsTrue
  <2>5. ASSUME NEW s \in Threads
        PROVE  /\ outcome'[s] = "yes" => Strays(s) \/ HadMark(s)
               /\ outcome'[s] = "no" =>
                    /\ libgit2 => loaded' # Uninit
                    /\ \A f \in Files :
                         ~Overlooks(s, f) /\ <<"head", f>> \notin touched /\ <<"work", f>> \notin touched =>
                         /\ libgit2 => ~Differs(s, f, head, loaded', work)
                         /\ <<"index", f>> \notin touched => ~Differs(s, f, head, index, work)
    <3>1. CASE s = t
      BY <2>2, <2>3, <2>4, <3>1
    <3>2. CASE s # t
      BY <2>1, <2>2, <2>5, <3>2 DEF AnswerInv
    <3> QED BY <3>1, <3>2
  <2> QED BY <2>1, <2>5 DEF AnswerInv, HadMark, Strays, Overlooks
<1>13. ASSUME NEW t \in Threads, Store(t) PROVE AnswerInv'
  BY <1>1, <1>13 DEF Store
<1>14. CASE Git
  <2>1. UNCHANGED <<checks, layout>> /\ Move /\ seen \subseteq seen' /\ touched \subseteq touched'
    BY <1>14 DEF Git, Move
  <2>2. index \in Trees /\ work \in Trees
    BY DEF TypeOK, RepositoryTypeOK
  <2>3. ASSUME NEW f \in Files
        PROVE  /\ <<"index", f>> \notin touched' => index'[f] = index[f]
               /\ <<"work", f>> \notin touched' => work'[f] = work[f]
               /\ <<"head", f>> \notin touched' => head' = head
    BY <2>1, <2>2, <2>3, UntouchedFixed
  <2>4. ASSUME NEW t \in Threads, outcome[t] = "no", NEW f \in Files, ~Overlooks(t, f),
               <<"head", f>> \notin touched', <<"work", f>> \notin touched'
        PROVE  /\ libgit2 => ~Differs(t, f, head', loaded, work')
               /\ <<"index", f>> \notin touched' => ~Differs(t, f, head', index', work')
    <3>1. head' = head /\ work'[f] = work[f] /\ <<"head", f>> \notin touched /\ <<"work", f>> \notin touched
      BY <2>1, <2>3, <2>4
    <3>2. libgit2 => ~Differs(t, f, head, loaded, work)
      BY <2>4, <3>1 DEF AnswerInv
    <3>3. <<"index", f>> \notin touched' => index'[f] = index[f] /\ ~Differs(t, f, head, index, work)
      BY <2>1, <2>3, <2>4, <3>1 DEF AnswerInv
    <3> QED BY <3>1, <3>2, <3>3 DEF Differs
  <2>5. ASSUME NEW t \in Threads
        PROVE  /\ outcome[t] = "yes" => Strays(t) \/ HadMark(t)'
               /\ outcome[t] = "no" /\ libgit2 => loaded # Uninit
    BY <2>1, <2>5 DEF AnswerInv, HadMark
  <2> QED BY <2>1, <2>4, <2>5 DEF AnswerInv, Strays, Overlooks
<1>15. CASE UNCHANGED vars BY <1>1, <1>15 DEF vars
<1> QED
  BY <1>2, <1>3, <1>4, <1>5, <1>6, <1>7, <1>8, <1>9, <1>10, <1>11, <1>12, <1>13, <1>14, <1>15
  DEF Next, Caller, Thread, Terminating

LEMMA InvAlways == Spec => []Inv
<1>1. Inv /\ [Next]_vars => Inv'
  BY TypeNext, ThreadNext, ReadNext, AnswerNext DEF Inv
<1> QED BY <1>1, InvInit, PTL DEF Spec

\* Every reachable state is well typed.
THEOREM TypeCorrect == Spec => []TypeOK
BY InvAlways, PTL DEF Inv

\* No thread can write into the frame of a getGitStatString() that returned.
THEOREM FrameSafe == Spec => []NoThreadOutlivesFrame
BY InvAlways, PTL DEF Inv, ThreadInv

\* The marks written are those that the checks gave, in either build.
THEOREM ThreadsAgree == Spec => []AgreesWithChecks
BY InvAlways, PTL DEF Inv, ThreadInv

\* A mark of a check that succeeded was true of a file during the run, unless
\* it is a '%' of the libgit2 build where a tracked link or a submodule leads
\* scanDir() to files that git does not look for.
THEOREM MarksWereTrue == Spec => []MarkWasTrue
<1>1. Inv => MarkWasTrue
  BY DEF Inv, ThreadInv, AgreesWithChecks, AnswerInv, HadMark, MarkWasTrue, Succeeded, Marked
<1> QED BY <1>1, InvAlways, PTL

\* No check that succeeds misses a file that nobody touched, but for what the
\* search for untracked files passes over.
THEOREM SettledMarksShown == Spec => []SettledFilesShown
<1>1. Inv => SettledFilesShown
  BY DEF Inv, ThreadInv, AgreesWithChecks, AnswerInv, SettledFilesShown, Succeeded, Marked
<1> QED BY <1>1, InvAlways, PTL

\* With libgit2 git add cannot make a dirty work tree look clean, whatever the
\* layout, through a file that is not overlooked.
THEOREM DirtyNeverClean == Spec => []DirtyShown
<1>1. ASSUME Inv, buf # Uninit, libgit2, \A t \in Threads : Succeeded(t), NEW f \in Files, ~Overlooks(3, f),
             work[f] # TreeOf(head)[f], <<"head", f>> \notin touched, <<"work", f>> \notin touched,
             buf = {}
      PROVE  FALSE
  <2>1. \A t \in Threads : outcome[t] = "no"
    BY <1>1 DEF Inv, ThreadInv, AgreesWithChecks, Succeeded, Marked
  <2>2. \A t \in Threads : ~Differs(t, f, head, loaded, work)
    <3>1. \A t \in Threads : ~Overlooks(t, f)
      BY <1>1 DEF Overlooks
    <3> QED BY <1>1, <2>1, <3>1 DEF Inv, AnswerInv
  <2>3. ~Differs(1, f, head, loaded, work) /\ ~Differs(2, f, head, loaded, work) /\ ~Differs(3, f, head, loaded, work)
    BY <2>2 DEF Threads
  <2> QED BY <1>1, <2>3 DEF Differs
<1>2. Inv => DirtyShown
  BY <1>1 DEF DirtyShown
<1> QED BY <1>2, InvAlways, PTL

-----------------------------------------------------------------------------
(* The function returns when every check does: nobody waits for a thread   *)
(* that was not created, and the steps that the caller and the threads have*)
(* left become fewer.                                                      *)

\* pthread_join() is called only with threads that were created, also on the
\* way out after a failure: with any other it is undefined (main.c:829).
JoinsOnlyCreated ==
  mpc \in {"unwind", "join"} /\ next > 0 => tpc[next] # "none"

JoinInv ==
  /\ mpc = "unwind" => next \in 0 .. 2 /\ \A t \in Threads : t <= next => tpc[t] # "none"
  /\ mpc = "build" => next = 0

LEMMA JoinNext == TypeOK /\ ThreadInv /\ JoinInv /\ [Next]_vars => JoinInv'
<1> SUFFICES ASSUME TypeOK, ThreadInv, JoinInv, [Next]_vars PROVE JoinInv'
  OBVIOUS
<1> USE DEF TypeOK, ThreadInv, JoinInv, Threads
<1>1. CASE Create BY <1>1 DEF Create
<1>2. CASE CreateFails BY <1>2 DEF CreateFails
<1>3. CASE JoinOne BY <1>3 DEF JoinOne
<1>4. CASE ReturnErrno BY <1>4 DEF ReturnErrno
<1>5. CASE Join BY <1>5 DEF Join
<1>6. CASE Call \/ CallReturns \/ Build BY <1>6 DEF Call, CallReturns, Build
<1>7. ASSUME NEW t \in Threads, Thread(t) PROVE JoinInv'
  BY <1>7 DEF Thread, CheckFails, Check, Compare, Store
<1>8. CASE Git \/ UNCHANGED vars BY <1>8 DEF Git, vars
<1> QED
  BY <1>1, <1>2, <1>3, <1>4, <1>5, <1>6, <1>7, <1>8 DEF Next, Caller, Terminating

\* The longest way of the caller to its return, and of a thread to its end.
CallerLeft ==
  CASE mpc = "create" -> 8 - next
    [] mpc \in {"unwind", "join"} -> next + 1
    [] mpc = "call" -> 9 - 2 * next
    [] mpc = "called" -> 8 - 2 * next
    [] mpc = "build" -> 1
    [] mpc = "returned" -> 0

ThreadLeft(t) == [none |-> 3, check |-> 3, compare |-> 2, store |-> 1, ended |-> 0][tpc[t]]

StepsLeft == CallerLeft + ThreadLeft(1) + ThreadLeft(2) + ThreadLeft(3)

LEMMA LeftTypes ==
  ASSUME TypeOK, ThreadInv, JoinInv
  PROVE  CallerLeft \in 0 .. 7 /\ \A t \in Threads : ThreadLeft(t) \in 0 .. 3
<1>1. CallerLeft \in 0 .. 7
  BY DEF CallerLeft, TypeOK, ThreadInv, JoinInv, Threads
<1>2. ASSUME NEW t \in Threads PROVE ThreadLeft(t) \in 0 .. 3
  <2>1. tpc[t] \in {"none", "check", "compare", "store", "ended"}
    BY DEF TypeOK
  <2> QED BY <2>1 DEF ThreadLeft
<1> QED BY <1>1, <1>2

LEMMA CallerAdvances ==
  ASSUME TypeOK, ThreadInv, JoinInv, Caller
  PROVE  CallerLeft' < CallerLeft /\ \A t \in Threads : ThreadLeft(t)' = ThreadLeft(t)
<1> USE DEF TypeOK, ThreadInv, JoinInv, Threads
<1>1. CASE Create
  <2>1. CallerLeft' < CallerLeft
    BY <1>1 DEF Create, CallerLeft
  <2>2. \A t \in Threads : ThreadLeft(t)' = ThreadLeft(t)
    BY <1>1 DEF Create, ThreadLeft
  <2> QED BY <2>1, <2>2
<1>2. CASE Call
  <2>1. CallerLeft' < CallerLeft
    BY <1>2 DEF Call, CallerLeft
  <2>2. \A t \in Threads : ThreadLeft(t)' = ThreadLeft(t)
    BY <1>2 DEF Call, ThreadLeft
  <2> QED BY <2>1, <2>2
<1>3. CASE CreateFails \/ JoinOne \/ ReturnErrno \/ Join \/ CallReturns \/ Build
  <2>1. CallerLeft' < CallerLeft
    BY <1>3 DEF CreateFails, JoinOne, ReturnErrno, Join, CallReturns, Build, CallerLeft
  <2>2. tpc' = tpc
    BY <1>3 DEF CreateFails, JoinOne, ReturnErrno, Join, CallReturns, Build
  <2> QED BY <2>1, <2>2 DEF ThreadLeft
<1> QED BY <1>1, <1>2, <1>3 DEF Caller

LEMMA ThreadAdvances ==
  ASSUME TypeOK, NEW t \in Threads, Thread(t)
  PROVE  /\ CallerLeft' = CallerLeft /\ ThreadLeft(t)' < ThreadLeft(t)
         /\ \A u \in Threads \ {t} : ThreadLeft(u)' = ThreadLeft(u)
<1>1. UNCHANGED <<mpc, next>>
  BY DEF Thread, CheckFails, Check, Compare, Store
<1>2. ThreadLeft(t)' < ThreadLeft(t)
  BY DEF Thread, CheckFails, Check, Compare, Store, ThreadLeft, TypeOK
<1>3. \A u \in Threads \ {t} : tpc'[u] = tpc[u]
  BY DEF Thread, CheckFails, Check, Compare, Store, TypeOK
<1> QED BY <1>1, <1>2, <1>3 DEF CallerLeft, ThreadLeft

\* getGitStatString() and its threads make at most 16 steps, in threads and in
\* turn, whichever checks and pthread_create() calls fail and whatever git does
\* meanwhile; and the caller waits only for threads that were created.
THEOREM StatIsBounded ==
  Spec => /\ []JoinsOnlyCreated
          /\ [](StepsLeft \in 0 .. 16)
          /\ [][/\ Caller \/ (\E t \in Threads : Thread(t)) => StepsLeft' < StepsLeft
                /\ StepsLeft' <= StepsLeft]_vars
<1> DEFINE I == TypeOK /\ ThreadInv /\ JoinInv
           Falls == /\ Caller \/ (\E t \in Threads : Thread(t)) => StepsLeft' < StepsLeft
                    /\ StepsLeft' <= StepsLeft
<1>1. Init => I
  <2>1. Init => TypeOK /\ ThreadInv
    BY InvInit DEF Inv
  <2>2. Init => JoinInv
    BY DEF Init, JoinInv
  <2> QED BY <2>1, <2>2
<1>2. I /\ [Next]_vars => I'
  BY TypeNext, ThreadNext, JoinNext
<1>3. I => JoinsOnlyCreated
  BY DEF JoinsOnlyCreated, ThreadInv, JoinInv, TypeOK, Threads
<1>4. I => StepsLeft \in 0 .. 16
  <2> SUFFICES ASSUME I PROVE StepsLeft \in 0 .. 16
    OBVIOUS
  <2>1. CallerLeft \in 0 .. 7 /\ \A t \in Threads : ThreadLeft(t) \in 0 .. 3
    BY LeftTypes
  <2> QED BY <2>1 DEF StepsLeft, Threads
<1>5. I' => (CallerLeft \in 0 .. 7 /\ \A t \in Threads : ThreadLeft(t) \in 0 .. 3)'
  <2>1. I => CallerLeft \in 0 .. 7 /\ \A t \in Threads : ThreadLeft(t) \in 0 .. 3
    BY LeftTypes
  <2> QED BY <2>1, PTL
<1>6. I /\ I' /\ [Next]_vars => [Falls]_vars
  <2> SUFFICES ASSUME I, I', [Next]_vars PROVE Falls \/ UNCHANGED vars
    OBVIOUS
  <2>1. CallerLeft \in 0 .. 7 /\ ThreadLeft(1) \in 0 .. 3 /\ ThreadLeft(2) \in 0 .. 3 /\ ThreadLeft(3) \in 0 .. 3
    BY LeftTypes DEF Threads
  <2>2. CallerLeft' \in 0 .. 7 /\ ThreadLeft(1)' \in 0 .. 3 /\ ThreadLeft(2)' \in 0 .. 3 /\ ThreadLeft(3)' \in 0 .. 3
    BY <1>5 DEF Threads
  <2>3. CASE Caller
    BY <2>1, <2>2, <2>3, CallerAdvances DEF StepsLeft, Threads
  <2>4. ASSUME NEW t \in Threads, Thread(t) PROVE Falls
    <3>1. StepsLeft' < StepsLeft
      BY <2>1, <2>2, <2>4, ThreadAdvances DEF StepsLeft, Threads
    <3>2. StepsLeft \in Int /\ StepsLeft' \in Int
      BY <2>1, <2>2 DEF StepsLeft
    <3> QED BY <3>1, <3>2
  <2>5. CASE Git /\ ~Caller /\ ~\E t \in Threads : Thread(t)
    <3>1. UNCHANGED <<mpc, next, tpc>>
      BY <2>5 DEF Git
    <3>2. CallerLeft' = CallerLeft /\ \A t \in Threads : ThreadLeft(t)' = ThreadLeft(t)
      BY <3>1 DEF CallerLeft, ThreadLeft
    <3>3. StepsLeft' = StepsLeft /\ StepsLeft \in Int
      BY <2>1, <3>2 DEF StepsLeft, Threads
    <3> QED BY <2>5, <3>3
  <2> QED BY <2>3, <2>4, <2>5 DEF Next, Terminating
<1> HIDE DEF I
<1> QED BY <1>1, <1>2, <1>3, <1>4, <1>6, PTL DEF Spec

=============================================================================
