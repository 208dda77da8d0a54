--------------------------- MODULE StartupProofs ---------------------------
(***************************************************************************)
(* Proofs about Startup. The invariant follows a settled tree from the     *)
(* working directory to the path, from the path to the key and from the    *)
(* key to the memory: at each step a run has what belongs to the tree      *)
(* exactly when it is in the tree, however the other trees move.           *)
(***************************************************************************)
EXTENDS Startup, CommandLineProofs

\* At "stat" the path is that of .git.
HasPath == stage \in {"stat", "nocache", "key", "clean", "attach", "show"} \/ child
HasKey == stage \in {"clean", "attach", "show"} \/ child

\* Two trees are never in one place, and named has every key that trees have.
Apart == \A t, u \in Trees : Present(t) /\ place[t] = place[u] => t = u
AllNamed == Names \subseteq named

\* A run that has a path or a key is in a tree and has values of their types.
Shape ==
  /\ child => stage \in {"show", "ended", "idle"}
  /\ HasPath => path \in Paths \X Kinds /\ cwd \in Trees
  /\ HasKey => key \in Keys
  /\ stage # "ended" => shown = None

Follows(t) ==
  /\ HasPath => (path[1] = place[t] <=> cwd = t) /\ (cwd = t /\ stage # "stat" => path[2] = Kind(t))
  /\ HasKey => (key = KeyOf(t) <=> cwd = t)
  /\ memory[KeyOf(t)] \in {t, Blank, None}
  /\ t \in cached => memory[KeyOf(t)] = t
  /\ stage = "ended" /\ cwd = t => shown \in {t, Blank, None}

SettledFollows == \A t \in Trees : Settled(t) => Follows(t)

\* Where a key comes from: a tree had it, or a tree that is touched had the place.
HasOrigin(k) ==
  \E x \in named : x[2] = k \/ (x[1] \in touched /\ k \in DotGitKeys(x[3]))

\* A tree that was not touched has its one name and place.
NamesTrue ==
  \A x \in named :
    /\ posix => x[2] = sha256str(<<x[3], Kind(x[1])>>)
    /\ x[1] \notin touched => Present(x[1]) /\ KeyOf(x[1]) = x[2] /\ place[x[1]] = x[3]

\* Every key in use has an origin. The tree a run is in was at its path, and if
\* it was not touched the path is the one of its file.
KeysNamed ==
  /\ \A k \in Keys : memory[k] # None => HasOrigin(k)
  /\ HasKey => HasOrigin(key)
  /\ HasPath => \E x \in named : x[1] = cwd /\ x[3] = path[1]
  /\ stage = "stat" => path[2] = "gitfile"
  /\ HasPath /\ stage # "stat" =>
       /\ cwd \notin touched => path[2] = Kind(cwd)
       /\ posix /\ path[2] = "config" => \E x \in named : x[2] = sha256str(path)
  /\ NamesTrue

IInv == TypeOK /\ Apart /\ AllNamed /\ Shape /\ SettledFollows /\ KeysNamed

\* Every exit status of parseArguments() fits its byte.
LEMMA ExitType == ASSUME NEW o PROVE Exit(o) \in 0 .. 255
<1>1. ASSUME NEW s PROVE tryParseInt(s).errno \in {0, EINVAL, ERANGE}
  BY DEF tryParseInt, Failed, EINVAL, ERANGE
<1>2. tryParseInt(o.arg).errno \in {0, EINVAL, ERANGE}
  BY <1>1
<1> QED
  BY <1>2 DEF Exit, EINVAL, ERANGE

\* A key is one of the keys.
LEMMA KeyTypes ==
  ASSUME TypeOK
  PROVE  /\ \A p \in Paths \X Kinds : createIpcKey(p) \subseteq Keys
         /\ \A t \in Trees : Present(t) /\ KeyOf(t) # None => KeyOf(t) \in Keys
         /\ \A t \in Trees : Present(t) => dotGitPath(t) \in Paths \X Kinds
         /\ \A p \in Paths \X Kinds : gitGetConfigPath(p) \in Paths \X Kinds
<1>1. \A t \in Trees : Present(t) => place[t] \in Paths /\ Kind(t) \in Kinds
  BY DEF TypeOK, TreesTypeOK, Present, Kind, Kinds
<1>2. ASSUME NEW p \in Paths \X Kinds PROVE createIpcKey(p) \subseteq Keys
  <2>1. FileAt(p) \subseteq Files
    BY DEF TypeOK, TreesTypeOK, FileAt, TreeAt
  <2> QED BY <2>1 DEF createIpcKey, Keys
<1>3. ASSUME NEW t \in Trees, Present(t), KeyOf(t) # None PROVE KeyOf(t) \in Keys
  <2>1. posix => KeyOf(t) = sha256str(<<place[t], Kind(t)>>)
    BY DEF KeyOf, sha256str
  <2>2. ~posix => config[t] \in Files /\ KeyOf(t) = ftok(config[t])
    BY <1>3 DEF KeyOf, ftok, TypeOK, TreesTypeOK
  <2> QED BY <1>1, <1>3, <2>1, <2>2 DEF Keys
<1>4. ASSUME NEW p \in Paths \X Kinds
      PROVE  gitGetConfigPath(p) \in Paths \X Kinds
  BY DEF gitGetConfigPath, Kinds
<1>5. ASSUME NEW t \in Trees, Present(t) PROVE dotGitPath(t) \in Paths \X Kinds
  BY <1>1, <1>5 DEF dotGitPath, Kinds
<1> QED BY <1>2, <1>3, <1>4, <1>5

\* The key of a path is that of the tree that is there, or of its directory.
LEMMA KeyOfPath ==
  ASSUME IInv, NEW p \in Paths \X Kinds, NEW k \in createIpcKey(p), ~posix
  PROVE  \E u \in Trees : /\ Present(u) /\ place[u] = p[1]
                          /\ \/ KeyOf(u) = k
                             \/ p[2] = "gitfile" /\ Kind(u) = "config" /\ k = ftokDir(p[1])
<1>1. p[1] # None
  BY IpcKeysAssumption
<1>2. CASE k \in {ftok(f) : f \in FileAt(p)}
  BY <1>1, <1>2 DEF IInv, TypeOK, TreesTypeOK, FileAt, TreeAt, KeyOf, Present, ftok
<1>3. CASE k \notin {ftok(f) : f \in FileAt(p)}
  BY <1>1, <1>3 DEF createIpcKey, isDirectory, TreeAt, Present
<1> QED BY <1>2, <1>3

LEMMA PathKey ==
  ASSUME TypeOK, NEW p \in Paths \X Kinds, NEW t \in Trees, posix,
         sha256str(p) = KeyOf(t), Present(t)
  PROVE  p = <<place[t], Kind(t)>>
<1>1. <<place[t], Kind(t)>> \in Paths \X Kinds
  BY DEF TypeOK, TreesTypeOK, Present, Kind, Kinds
<1>2. Hash[p] = Hash[<<place[t], Kind(t)>>]
  BY DEF sha256str, KeyOf
<1> QED
  BY <1>1, <1>2, IpcKeysAssumption

\* Another tree never has the key of a settled one.
LEMMA SettledAlone ==
  ASSUME IInv, NEW t \in Trees, Settled(t), NEW u \in Trees, Present(u), KeyOf(u) = KeyOf(t)
  PROVE  u = t
<1>1. KeyOf(u) \in Keys
  BY KeyTypes DEF IInv, Settled
<1>2. <<u, KeyOf(u), place[u]>> \in named
  BY <1>1 DEF IInv, AllNamed, Names
<1> QED
  BY <1>2 DEF Settled

-----------------------------------------------------------------------------
(* Types, places and names.                                                *)

LEMMA NamesType ==
  ASSUME posix \in BOOLEAN, place \in [Trees -> Paths \cup {None}], config \in [Trees -> Files \cup {None}]
  PROVE  Names \subseteq Trees \X (Keys \cup {None}) \X Paths
<1> SUFFICES ASSUME NEW t \in Trees, Present(t)
             PROVE  KeyOf(t) \in Keys \cup {None} /\ place[t] \in Paths
  BY DEF Names
<1>1. place[t] \in Paths /\ Kind(t) \in Kinds
  BY DEF Present, Kind, Kinds
<1>2. posix => KeyOf(t) = sha256str(<<place[t], Kind(t)>>)
  BY DEF KeyOf, sha256str
<1>3. ~posix => KeyOf(t) = None \/ (config[t] \in Files /\ KeyOf(t) = ftok(config[t]))
  BY DEF KeyOf, ftok
<1> QED BY <1>1, <1>2, <1>3 DEF Keys

LEMMA NamesTypeNext ==
  (posix \in BOOLEAN)' /\ (place \in [Trees -> Paths \cup {None}])' /\ (config \in [Trees -> Files \cup {None}])'
  => (Names \subseteq Trees \X (Keys \cup {None}) \X Paths)'
<1>1. posix \in BOOLEAN /\ place \in [Trees -> Paths \cup {None}] /\ config \in [Trees -> Files \cup {None}]
      => Names \subseteq Trees \X (Keys \cup {None}) \X Paths
  BY NamesType
<1> QED BY <1>1, PTL

LEMMA InitOK == Init => IInv
<1> SUFFICES ASSUME Init PROVE IInv
  OBVIOUS
<1> USE StartupAssumption, IpcKeysAssumption
<1>1. TypeOK
  <2>t. posix \in BOOLEAN /\ place \in [Trees -> Paths \cup {None}] /\ config \in [Trees -> Files \cup {None}]
    BY DEF Init, TreesInit
  <2>n. Names \subseteq Trees \X (Keys \cup {None}) \X Paths
    BY <2>t, NamesType
  <2>1. TreesTypeOK
    BY <2>t, <2>n DEF Init, TreesInit, TreesTypeOK
  <2>2. libgit2 \in BOOLEAN /\ child \in BOOLEAN
    BY DEF Init
  <2>3. /\ stage \in Stages /\ exit \in 0 .. 255 /\ runs \in 0 .. MaxRuns
        /\ cwd \in Trees \cup {None} /\ shown \in Trees \cup {Blank, Gone, None}
        /\ path \in (Paths \X Kinds) \cup {None} /\ key \in Keys \cup {None}
    BY DEF Init, Stages
  <2>4. memory \in [Keys -> Trees \cup {Blank, Gone, None}] /\ cached \subseteq Trees
    BY DEF Init
  <2> QED
    BY <2>1, <2>2, <2>3, <2>4 DEF TypeOK
<1>2. Apart /\ AllNamed /\ Shape
  BY DEF Init, TreesInit, Apart, AllNamed, Shape, HasPath, HasKey, Present
<1>3. KeysNamed
  <2>1. NamesTrue
    <3> SUFFICES ASSUME NEW x \in named
                 PROVE  /\ posix => x[2] = sha256str(<<x[3], Kind(x[1])>>)
                        /\ Present(x[1]) /\ KeyOf(x[1]) = x[2] /\ place[x[1]] = x[3]
      BY DEF NamesTrue
    <3>1. PICK t \in Trees : Present(t) /\ x = <<t, KeyOf(t), place[t]>>
      BY DEF Init, TreesInit, Names
    <3>2. x[1] = t /\ x[2] = KeyOf(t) /\ x[3] = place[t]
      BY <3>1
    <3>3. posix => KeyOf(t) = sha256str(<<place[t], Kind(t)>>)
      BY DEF KeyOf, sha256str
    <3> QED BY <3>1, <3>2, <3>3
  <2> QED BY <2>1 DEF Init, KeysNamed, HasPath, HasKey
<1>4. SettledFollows
  <2> SUFFICES ASSUME NEW t \in Trees, Settled(t) PROVE Follows(t)
    BY DEF SettledFollows
  <2>1. KeyOf(t) \in Keys
    BY <1>1, KeyTypes DEF Settled
  <2> QED
    BY <2>1 DEF Init, Follows, HasPath, HasKey
<1> QED
  BY <1>1, <1>2, <1>3, <1>4 DEF IInv

LEMMA TreesTypeStep == IInv /\ [Next]_vars => TreesTypeOK'
<1> SUFFICES ASSUME IInv, [Next]_vars PROVE TreesTypeOK'
  OBVIOUS
<1> USE DEF IInv, TypeOK
<1>1. CASE UNCHANGED trees
  BY <1>1 DEF trees, TreesTypeOK
<1>2. CASE World
  <2>1. PICK t \in Trees : /\ ReplaceConfig(t) \/ MoveTree(t) \/ RemoveTree(t) \/ CreateTree(t)
                           /\ touched' = touched \cup {t}
    BY <1>2 DEF World, ChangeTree
  <2>2. place' \in [Trees -> Paths \cup {None}] /\ config' \in [Trees -> Files \cup {None}]
    BY <2>1 DEF TreesTypeOK, ReplaceConfig, MoveTree, RemoveTree, CreateTree, Unused
  <2>3. moves' \in 0 .. MaxMoves
    BY <1>2, IpcKeysAssumption DEF World, ChangeTree, TreesTypeOK
  <2>p. posix' \in BOOLEAN
    BY <1>2 DEF World, ChangeTree, TreesTypeOK
  <2>n. Names' \subseteq Trees \X (Keys \cup {None}) \X Paths
    BY <2>2, <2>p, NamesTypeNext
  <2>4. named' \subseteq Trees \X (Keys \cup {None}) \X Paths
    BY <1>2, <2>n DEF World, ChangeTree, TreesTypeOK
  <2> QED
    BY <1>2, <2>1, <2>2, <2>3, <2>4 DEF World, ChangeTree, TreesTypeOK
<1>3. World \/ UNCHANGED trees
  BY DEF Next, Run, Start, Option, Usage, EndOfOptions, Leave, ChangeDir, Open, StatDotGit, OpenFails,
         NoCache, CreateKey, CreateKeyFails, Clean, Attach, Store, Show, Terminating, vars
<1> QED
  BY <1>1, <1>2, <1>3

\* A run does not change the trees.
LEMMA RunTrees == Run => UNCHANGED trees /\ UNCHANGED libgit2
BY DEF Run, Start, Option, Usage, EndOfOptions, Leave, ChangeDir, Open, StatDotGit, OpenFails,
       NoCache, CreateKey, CreateKeyFails, Clean, Attach, Store, Show

\* What is said of the trees alone stays when they stay.
LEMMA TreesSame ==
  ASSUME UNCHANGED trees
  PROVE  /\ \A t : KeyOf(t)' = KeyOf(t) /\ (Present(t)' <=> Present(t))
         /\ \A t : Settled(t)' <=> Settled(t)
         /\ Names' = Names
         /\ Apart' <=> Apart
         /\ AllNamed' <=> AllNamed
BY DEF trees, KeyOf, Present, Settled, Names, Apart, AllNamed

LEMMA ApartStep == IInv /\ World => Apart' /\ AllNamed'
<1> SUFFICES ASSUME IInv, World PROVE Apart' /\ AllNamed'
  OBVIOUS
<1>1. PICK t \in Trees : ReplaceConfig(t) \/ MoveTree(t) \/ RemoveTree(t) \/ CreateTree(t)
  BY DEF World, ChangeTree
<1>2. Apart'
  BY <1>1, IpcKeysAssumption
  DEF IInv, TypeOK, TreesTypeOK, Apart, ReplaceConfig, MoveTree, RemoveTree, CreateTree, Free,
      TreeAt, Present
<1>3. AllNamed'
  BY DEF World, ChangeTree, AllNamed
<1> QED
  BY <1>2, <1>3

\* A tree that is settled after a change was settled before, and has what it had.
LEMMA SettledStays ==
  ASSUME IInv, World, NEW t \in Trees, Settled(t)'
  PROVE  Settled(t) /\ place'[t] = place[t] /\ config'[t] = config[t] /\ KeyOf(t)' = KeyOf(t)
<1>1. PICK u \in Trees : /\ ReplaceConfig(u) \/ MoveTree(u) \/ RemoveTree(u) \/ CreateTree(u)
                         /\ touched' = touched \cup {u}
  BY DEF World, ChangeTree
<1>2. u # t /\ t \notin touched
  BY <1>1 DEF Settled
<1>3. place'[t] = place[t] /\ config'[t] = config[t]
  BY <1>1, <1>2
  DEF IInv, TypeOK, TreesTypeOK, ReplaceConfig, MoveTree, RemoveTree, CreateTree
<1>4. posix' = posix /\ named \subseteq named'
  BY DEF World, ChangeTree
<1>5. KeyOf(t)' = KeyOf(t) /\ (Present(t)' <=> Present(t))
  BY <1>3, <1>4 DEF KeyOf, Present
<1> QED
  BY <1>2, <1>3, <1>4, <1>5 DEF Settled

-----------------------------------------------------------------------------
(* The steps of a run.                                                     *)

\* What a run finds where it has a path: the tree itself, if it is settled.
LEMMA SubjectType == ASSUME IInv, HasPath PROVE Subject \subseteq Trees
BY DEF IInv, Shape, Subject, TreeAt

LEMMA SubjectOfSettled ==
  ASSUME IInv, HasPath, NEW t \in Trees, Settled(t)
  PROVE  IF cwd = t THEN Subject = {t} ELSE t \notin Subject
<1>1. path[1] = place[t] <=> cwd = t
  BY DEF IInv, SettledFollows, Follows
<1>2. Present(t) /\ \A u \in Trees : place[u] = place[t] => u = t
  BY DEF IInv, Apart, Settled
<1> QED
  BY <1>1, <1>2 DEF Subject, TreeAt, IInv, TypeOK

LEMMA TypeStep == IInv /\ [Next]_vars => TypeOK'
<1> SUFFICES ASSUME IInv, [Next]_vars PROVE TypeOK'
  OBVIOUS
<1> TreesTypeOK'
  BY TreesTypeStep
<1> USE DEF IInv, TypeOK, Stages
<1>1. CASE Start
  BY <1>1, StartupAssumption DEF Start, cache
<1>2. CASE Option
  BY <1>2 DEF Option, NextOption, cache
<1>3. CASE Usage
  BY <1>3, ExitType DEF Usage, NextOption, cache
<1>4. CASE EndOfOptions
  BY <1>4 DEF EndOfOptions, cache
<1>5. CASE Leave
  BY <1>5 DEF Leave, cache
<1>6. CASE ChangeDir
  <2>1. cwd' \in Trees \cup {None}
    BY <1>6 DEF ChangeDir, TreeAt
  <2>2. stage' \in Stages /\ exit' \in 0 .. 255
    <3>1. (stage' = "open" /\ UNCHANGED exit) \/ (stage' = "ended" /\ exit' = ENOENT)
      BY <1>6, Zenon DEF ChangeDir, Ends
    <3> QED
      BY <3>1 DEF ENOENT
  <2>3. UNCHANGED <<libgit2, path, key, child, shown, runs, memory, cached>>
    BY <1>6 DEF ChangeDir, cache
  <2> QED
    BY <2>1, <2>2, <2>3
<1>7. CASE Open
  BY <1>7, KeyTypes DEF Open, InTree, cache
<1>s. CASE StatDotGit
  BY <1>s, KeyTypes DEF StatDotGit, cache, Shape, HasPath
<1>8. CASE OpenFails
  BY <1>8 DEF OpenFails, Ends, cache
<1>9. CASE NoCache
  BY <1>9, SubjectType DEF NoCache, Ends, cache, HasPath
<1>10. CASE CreateKey
  BY <1>10, KeyTypes DEF CreateKey, cache, Shape, HasPath
<1>11. CASE CreateKeyFails
  BY <1>11 DEF CreateKeyFails, Ends, ENOENT, cache
<1>12. CASE Clean
  <2>1. stage' \in Stages /\ exit' \in 0 .. 255
    BY <1>12 DEF Clean, Ends, ENOENT
  <2>2. memory' \in [Keys -> Trees \cup {Blank, Gone, None}] /\ cached' \subseteq Trees
    BY <1>12 DEF Clean
  <2>3. UNCHANGED <<libgit2, cwd, path, key, child, shown, runs>>
    BY <1>12 DEF Clean
  <2> QED
    BY <2>1, <2>2, <2>3
<1>13. CASE Attach
  BY <1>13 DEF Attach
<1>14. CASE Store
  BY <1>14, SubjectType DEF Store, HasPath
<1>15. CASE Show
  BY <1>15 DEF Show, Ends, cache, Shape, HasKey
<1>16. CASE World
  BY <1>16 DEF World, main, cache
<1>17. CASE UNCHANGED vars
  BY <1>17 DEF vars, main, cache
<1> QED
  BY <1>1, <1>2, <1>3, <1>4, <1>5, <1>6, <1>7, <1>s, <1>8, <1>9, <1>10, <1>11, <1>12, <1>13,
     <1>14, <1>15, <1>16, <1>17 DEF Next, Run, Terminating

LEMMA ShapeStep == IInv /\ [Next]_vars => Shape'
<1> SUFFICES ASSUME IInv, [Next]_vars PROVE Shape'
  OBVIOUS
<1> USE DEF IInv, TypeOK, Stages, Shape, HasPath, HasKey
<1>1. CASE Start
  BY <1>1 DEF Start
<1>2. CASE Option
  BY <1>2 DEF Option, NextOption
<1>3. CASE Usage
  BY <1>3 DEF Usage, NextOption
<1>4. CASE EndOfOptions
  BY <1>4 DEF EndOfOptions
<1>5. CASE Leave
  BY <1>5 DEF Leave
<1>6. CASE ChangeDir
  BY <1>6 DEF ChangeDir, Ends
<1>7. CASE Open
  BY <1>7, KeyTypes DEF Open, InTree
<1>s. CASE StatDotGit
  BY <1>s, KeyTypes DEF StatDotGit
<1>8. CASE OpenFails
  BY <1>8 DEF OpenFails, Ends
<1>9. CASE NoCache
  BY <1>9 DEF NoCache, Ends
<1>10. CASE CreateKey
  BY <1>10, KeyTypes DEF CreateKey
<1>11. CASE CreateKeyFails
  BY <1>11 DEF CreateKeyFails, Ends
<1>12. CASE Clean
  BY <1>12 DEF Clean, Ends
<1>13. CASE Attach
  BY <1>13 DEF Attach
<1>14. CASE Store
  BY <1>14 DEF Store
<1>15. CASE Show
  BY <1>15 DEF Show, Ends
<1>16. CASE World
  BY <1>16 DEF World, main
<1>17. CASE UNCHANGED vars
  BY <1>17 DEF vars, main
<1> QED
  BY <1>1, <1>2, <1>3, <1>4, <1>5, <1>6, <1>7, <1>s, <1>8, <1>9, <1>10, <1>11, <1>12, <1>13,
     <1>14, <1>15, <1>16, <1>17 DEF Next, Run, Terminating

-----------------------------------------------------------------------------
(* Names.                                                                  *)

\* A tree that is not touched by a change is as before.
LEMMA UntouchedStays ==
  ASSUME IInv, World, NEW t \in Trees, t \notin touched'
  PROVE  t \notin touched /\ KeyOf(t)' = KeyOf(t) /\ (Present(t)' <=> Present(t)) /\ place'[t] = place[t]
<1>1. PICK u \in Trees : /\ ReplaceConfig(u) \/ MoveTree(u) \/ RemoveTree(u) \/ CreateTree(u)
                         /\ touched' = touched \cup {u}
  BY DEF World, ChangeTree
<1>2. place'[t] = place[t] /\ config'[t] = config[t]
  BY <1>1
  DEF IInv, TypeOK, TreesTypeOK, ReplaceConfig, MoveTree, RemoveTree, CreateTree
<1>3. posix' = posix
  BY DEF World, ChangeTree
<1> QED
  BY <1>1, <1>2, <1>3 DEF KeyOf, Present

\* Origins stay.
LEMMA OriginStays ==
  ASSUME NEW k, named \subseteq named', touched \subseteq touched', posix' = posix, HasOrigin(k)
  PROVE  HasOrigin(k)'
<1>1. PICK x \in named : x[2] = k \/ (x[1] \in touched /\ k \in DotGitKeys(x[3]))
  BY DEF HasOrigin
<1>2. DotGitKeys(x[3])' = DotGitKeys(x[3])
  BY DEF DotGitKeys, sha256str, ftokDir
<1> QED BY <1>1, <1>2 DEF HasOrigin

LEMMA NamedWorld == IInv /\ World => KeysNamed'
<1> SUFFICES ASSUME IInv, World PROVE KeysNamed'
  OBVIOUS
<1>1. /\ named' = named \cup Names' /\ posix' = posix
      /\ UNCHANGED <<memory, stage, child, key, path, cwd>>
      /\ touched \subseteq touched'
  BY DEF World, ChangeTree, main, cache
<1>2. ASSUME NEW x \in named'
      PROVE  /\ posix => x[2] = sha256str(<<x[3], Kind(x[1])>>)
             /\ x[1] \notin touched' => Present(x[1])' /\ KeyOf(x[1])' = x[2] /\ place'[x[1]] = x[3]
  <2>1. CASE x \in Names'
    <3>1. PICK t \in Trees : Present(t)' /\ x = <<t, KeyOf(t)', place'[t]>>
      BY <2>1 DEF Names
    <3>2. x[1] = t /\ x[2] = KeyOf(t)' /\ x[3] = place'[t]
      BY <3>1
    <3>3. posix => KeyOf(t)' = sha256str(<<place'[t], Kind(t)>>)
      BY <1>1 DEF KeyOf, sha256str, Kind
    <3> QED BY <3>1, <3>2, <3>3
  <2>2. CASE x \in named
    <3>1. x[1] \in Trees
      BY <2>2 DEF IInv, TypeOK, TreesTypeOK
    <3>2. x[1] \notin touched' => /\ x[1] \notin touched /\ KeyOf(x[1])' = KeyOf(x[1])
                                  /\ (Present(x[1])' <=> Present(x[1])) /\ place'[x[1]] = place[x[1]]
      BY <3>1, UntouchedStays
    <3> QED
      BY <2>2, <3>2 DEF IInv, KeysNamed, NamesTrue
  <2> QED
    BY <1>1, <2>1, <2>2
<1>3. NamesTrue'
  BY <1>1, <1>2 DEF NamesTrue, sha256str, Kind
<1>4. \A k : HasOrigin(k) => HasOrigin(k)'
  BY <1>1, OriginStays
<1> QED
  BY <1>1, <1>3, <1>4 DEF IInv, KeysNamed, HasPath, HasKey, sha256str, Kind

\* Where a key comes from that a run takes.
LEMMA KeyOrigin ==
  ASSUME IInv, HasPath, stage # "stat", NEW k \in createIpcKey(path)
  PROVE  HasOrigin(k)
<1>1. path \in Paths \X Kinds /\ cwd \in Trees /\ path[2] \in {"config", "gitfile"}
  BY DEF IInv, Shape, Kinds
<1>2. PICK x \in named : x[1] = cwd /\ x[3] = path[1]
  BY DEF IInv, KeysNamed
<1>3. /\ posix => x[2] = sha256str(<<path[1], Kind(cwd)>>)
      /\ cwd \notin touched => place[cwd] = path[1] /\ path[2] = Kind(cwd)
  BY <1>2 DEF IInv, KeysNamed, NamesTrue
<1>4. path = <<path[1], path[2]>>
  BY <1>1
<1>5. CASE posix
  <2>1. k = sha256str(path)
    BY <1>5 DEF createIpcKey
  <2>2. CASE path[2] = "config"
    BY <1>5, <2>1, <2>2 DEF IInv, KeysNamed, HasOrigin
  <2>3. CASE path[2] = "gitfile" /\ cwd \in touched
    <3>1. k \in DotGitKeys(x[3])
      BY <1>2, <1>4, <1>5, <2>1, <2>3 DEF DotGitKeys
    <3> QED BY <1>2, <2>3, <3>1 DEF HasOrigin
  <2>4. CASE cwd \notin touched
    <3>1. x[2] = k
      BY <1>3, <1>4, <1>5, <2>1, <2>4
    <3> QED BY <3>1 DEF HasOrigin
  <2> QED BY <1>1, <2>2, <2>3, <2>4
<1>6. CASE ~posix
  <2>1. PICK u \in Trees : /\ Present(u) /\ place[u] = path[1]
                           /\ \/ KeyOf(u) = k
                              \/ path[2] = "gitfile" /\ Kind(u) = "config" /\ k = ftokDir(path[1])
    BY <1>1, <1>6, KeyOfPath
  <2>2. CASE KeyOf(u) = k
    <3>1. <<u, k, place[u]>> \in named
      BY <2>1, <2>2 DEF IInv, AllNamed, Names
    <3> QED BY <3>1 DEF HasOrigin
  <2>3. CASE path[2] = "gitfile" /\ Kind(u) = "config" /\ k = ftokDir(path[1])
    <3>1. cwd \in touched
      <4> SUFFICES ASSUME cwd \notin touched PROVE FALSE
        OBVIOUS
      <4>1. u = cwd
        BY <1>1, <1>3, <2>1 DEF IInv, Apart
      <4> QED BY <1>3, <2>3, <4>1
    <3>2. k \in DotGitKeys(x[3])
      BY <1>2, <1>6, <2>3 DEF DotGitKeys
    <3> QED BY <1>2, <3>1, <3>2 DEF HasOrigin
  <2> QED BY <2>1, <2>2, <2>3
<1> QED BY <1>5, <1>6

LEMMA NamedRun == IInv /\ Run => KeysNamed'
<1> SUFFICES ASSUME IInv, Run PROVE KeysNamed'
  OBVIOUS
<1> DEFINE MemoryNamed == \A k \in Keys : memory[k] # None => HasOrigin(k)
           KeyNamed == HasKey => HasOrigin(key)
           PlaceNamed == HasPath => \E x \in named : x[1] = cwd /\ x[3] = path[1]
           AtDotGit == stage = "stat" => path[2] = "gitfile"
           PathNamed == HasPath /\ stage # "stat" =>
                          /\ cwd \notin touched => path[2] = Kind(cwd)
                          /\ posix /\ path[2] = "config" => \E x \in named : x[2] = sha256str(path)
<1>1. UNCHANGED <<posix, place, config, touched, named>> /\ UNCHANGED trees
  BY RunTrees DEF trees
<1>2. NamesTrue'
  BY <1>1, TreesSame DEF IInv, KeysNamed, NamesTrue, sha256str, Kind
<1>3. MemoryNamed /\ KeyNamed /\ PlaceNamed /\ AtDotGit /\ PathNamed
  BY DEF IInv, KeysNamed
<1>o. \A k : HasOrigin(k) => HasOrigin(k)'
  BY <1>1, OriginStays
<1>4. MemoryNamed'
  <2>1. \A k \in Keys : memory'[k] # None => memory[k] # None \/ (HasKey /\ k = key)
    BY DEF Run, Start, Option, Usage, EndOfOptions, Leave, ChangeDir, Open, StatDotGit, OpenFails,
       NoCache, CreateKey, CreateKeyFails, Clean, Attach, Store, Show, cache, HasKey, IInv, TypeOK
  <2> QED
    BY <1>3, <1>o, <2>1
<1>5. KeyNamed'
  <2>1. CASE CreateKey
    <3>1. key' \in createIpcKey(path) /\ HasPath /\ stage # "stat"
      BY <2>1 DEF CreateKey, HasPath
    <3> QED
      BY <1>o, <3>1, KeyOrigin
  <2>2. CASE ~CreateKey
    <3>1. HasKey' => HasKey /\ key' = key
      BY <2>2 DEF Run, Start, Option, Usage, EndOfOptions, Leave, ChangeDir, Open, StatDotGit, OpenFails,
         NoCache, CreateKeyFails, Clean, Attach, Store, Show, Ends, HasKey, IInv, Shape
    <3> QED
      BY <1>3, <1>o, <3>1
  <2> QED
    BY <2>1, <2>2
<1>6. CASE Open
  <2>1. cwd \in Trees /\ Present(cwd) /\ path' = <<place[cwd], "gitfile">> /\ cwd' = cwd /\ stage' = "stat"
    BY <1>6 DEF Open, InTree, IInv, TypeOK, dotGitPath
  <2>2. <<cwd, KeyOf(cwd), place[cwd]>> \in named
    BY <2>1 DEF IInv, AllNamed, Names
  <2>3. PlaceNamed' /\ AtDotGit' /\ PathNamed'
    BY <1>1, <2>1, <2>2
  <2> QED
    BY <1>2, <1>4, <1>5, <2>3 DEF KeysNamed
<1>7. CASE StatDotGit
  <2>1. /\ stage = "stat" /\ HasPath /\ path' = gitGetConfigPath(path) /\ cwd' = cwd
        /\ stage' # "stat"
    BY <1>7 DEF StatDotGit, HasPath
  <2>2. path \in Paths \X Kinds /\ cwd \in Trees /\ path[2] = "gitfile"
    BY <1>3, <2>1 DEF IInv, Shape
  <2>3. path'[1] = path[1] /\ path'[2] = IF isDirectory(path) THEN "config" ELSE "gitfile"
    BY <2>1, <2>2 DEF gitGetConfigPath
  <2>4. PICK x \in named : x[1] = cwd /\ x[3] = path[1]
    BY <1>3, <2>1
  <2>5. ASSUME cwd \notin touched PROVE path'[2] = Kind(cwd)
    <3>1. place[cwd] = path[1] /\ Present(cwd)
      BY <2>4, <2>5 DEF IInv, KeysNamed, NamesTrue
    <3>2. \A u \in Trees : place[u] = path[1] <=> u = cwd
      BY <2>2, <3>1 DEF IInv, Apart
    <3>3. isDirectory(path) <=> Kind(cwd) = "config"
      BY <2>2, <3>2 DEF isDirectory, TreeAt
    <3> QED BY <2>3, <3>3 DEF Kind
  <2>6. ASSUME posix, path'[2] = "config" PROVE \E y \in named : y[2] = sha256str(path')
    <3>1. isDirectory(path)
      BY <2>3, <2>6
    <3>2. PICK u \in Trees : place[u] = path[1] /\ Kind(u) = "config"
      BY <3>1 DEF isDirectory, TreeAt
    <3>3. Present(u)
      BY <2>2, <3>2, IpcKeysAssumption DEF Present
    <3>4. <<u, KeyOf(u), place[u]>> \in named
      BY <3>3 DEF IInv, AllNamed, Names
    <3>5. path' = <<path[1], "config">>
      BY <2>1, <3>1 DEF gitGetConfigPath
    <3>6. KeyOf(u) = sha256str(path')
      BY <2>6, <3>2, <3>5 DEF KeyOf, sha256str
    <3> QED BY <3>4, <3>6
  <2>7. PlaceNamed'
    BY <1>1, <2>1, <2>3, <2>4
  <2>8. PathNamed'
    BY <1>1, <2>1, <2>5, <2>6 DEF Kind, sha256str
  <2> QED
    BY <1>2, <1>4, <1>5, <2>1, <2>7, <2>8 DEF KeysNamed
<1>8. CASE ~Open /\ ~StatDotGit
  <2>a. child => stage \in {"show", "ended", "idle"}
    BY DEF IInv, Shape
  <2> DEFINE Keeps == /\ HasPath' => HasPath /\ path' = path /\ cwd' = cwd /\ stage # "stat"
                      /\ stage' # "stat"
  <2>b. ASSUME Start \/ Option \/ Usage \/ EndOfOptions \/ Leave \/ ChangeDir \/ OpenFails \/ CreateKeyFails
        PROVE  Keeps
    BY <2>a, <2>b DEF Start, Option, NextOption, Usage, EndOfOptions, Leave, ChangeDir, OpenFails,
       CreateKeyFails, Ends, HasPath
  <2>c. ASSUME NoCache \/ CreateKey \/ Clean \/ Attach \/ Store \/ Show
        PROVE  Keeps
    BY <2>a, <2>c DEF NoCache, CreateKey, Clean, Attach, Store, Show, Ends, HasPath
  <2>1. Keeps
    BY <1>8, <2>b, <2>c DEF Run
  <2>2. PlaceNamed' /\ PathNamed'
    BY <1>1, <1>3, <2>1 DEF Kind, sha256str
  <2> QED
    BY <1>2, <1>4, <1>5, <2>1, <2>2 DEF KeysNamed
<1> QED
  BY <1>6, <1>7, <1>8

-----------------------------------------------------------------------------
(* Settled trees.                                                          *)

LEMMA FollowsWorld == IInv /\ World => SettledFollows'
<1> SUFFICES ASSUME IInv, World, NEW t \in Trees, Settled(t)' PROVE Follows(t)'
  BY DEF SettledFollows
<1>1. Settled(t) /\ place'[t] = place[t] /\ KeyOf(t)' = KeyOf(t)
  BY SettledStays
<1>2. UNCHANGED <<main, cache>>
  BY DEF World
<1> QED
  BY <1>1, <1>2 DEF IInv, SettledFollows, Follows, HasPath, HasKey, Kind, main, cache

\* A path of a run in t, and only such a path, gives the key of t.
LEMMA KeyOfSettled ==
  ASSUME IInv, HasPath, stage # "stat", NEW t \in Trees, Settled(t), NEW k \in createIpcKey(path)
  PROVE  k = KeyOf(t) <=> cwd = t
<1>1. path \in Paths \X Kinds /\ cwd \in Trees
  BY DEF IInv, Shape
<1>2. path[1] = place[t] <=> cwd = t
  BY DEF IInv, SettledFollows, Follows
<1>3. cwd = t => path = <<place[t], Kind(t)>>
  BY <1>1, <1>2 DEF IInv, SettledFollows, Follows
<1>4. CASE posix
  <2>1. k = sha256str(path)
    BY <1>4 DEF createIpcKey
  <2>2. ASSUME k = KeyOf(t) PROVE cwd = t
    <3>1. TypeOK /\ Present(t) /\ sha256str(path) = KeyOf(t)
      BY <2>1, <2>2 DEF IInv, Settled
    <3>2. path = <<place[t], Kind(t)>>
      BY <1>1, <1>4, <3>1, PathKey
    <3> QED
      BY <1>2, <3>2
  <2>3. cwd = t => k = KeyOf(t)
    BY <1>3, <1>4, <2>1 DEF KeyOf, sha256str
  <2> QED
    BY <2>2, <2>3
<1>5. CASE ~posix
  <2>1. PICK u \in Trees : /\ Present(u) /\ place[u] = path[1]
                           /\ \/ KeyOf(u) = k
                              \/ path[2] = "gitfile" /\ Kind(u) = "config" /\ k = ftokDir(path[1])
    BY <1>1, <1>5, KeyOfPath
  <2>2. ASSUME k = KeyOf(t) PROVE cwd = t
    <3>1. k # ftokDir(path[1])
      BY <1>5, <2>2 DEF KeyOf, ftokDir, Settled
    <3> QED BY <1>2, <2>1, <2>2, <3>1, SettledAlone
  <2>3. ASSUME cwd = t PROVE k = KeyOf(t)
    <3>1. u = t
      BY <1>2, <2>1, <2>3 DEF IInv, Apart
    <3> QED BY <1>3, <2>1, <2>3, <3>1
  <2> QED
    BY <2>2, <2>3
<1> QED
  BY <1>4, <1>5

LEMMA FollowsRun == IInv /\ Run => SettledFollows'
<1> SUFFICES ASSUME IInv, Run, NEW t \in Trees, Settled(t)' PROVE Follows(t)'
  BY DEF SettledFollows
<1>1. UNCHANGED trees
  BY RunTrees
<1>2. Settled(t) /\ KeyOf(t)' = KeyOf(t) /\ place' = place
  BY <1>1, TreesSame DEF trees
<1>3. Follows(t) /\ Present(t)
  BY <1>2 DEF IInv, SettledFollows, Settled
<1>4. KeyOf(t) \in Keys
  BY <1>2, KeyTypes DEF IInv, Settled
<1>5. Kind(t)' = Kind(t)
  BY DEF Kind
<1>6. t # None /\ memory \in [Keys -> Trees \cup {Blank, Gone, None}]
  BY IpcKeysAssumption DEF IInv, TypeOK
<1> USE <1>2, <1>3, <1>5 DEF Follows, HasPath, HasKey
<1>7. CASE Start \/ Option \/ Usage \/ EndOfOptions \/ Leave \/ ChangeDir \/ OpenFails \/ CreateKeyFails
  BY <1>7 DEF Start, Option, NextOption, Usage, EndOfOptions, Leave, ChangeDir, OpenFails,
     CreateKeyFails, Ends, cache, IInv, Shape
<1>8. CASE Open
  <2>1. path' = <<place[cwd], "gitfile">> /\ cwd \in Trees /\ Present(cwd) /\ cwd' = cwd
    BY <1>8 DEF Open, InTree, dotGitPath, IInv, TypeOK
  <2>2. place[cwd] = place[t] => cwd = t
    BY <2>1 DEF IInv, Apart
  <2> QED
    BY <1>8, <2>1, <2>2 DEF Open, cache, IInv, Shape
<1>s. CASE StatDotGit
  <2>1. stage = "stat" /\ path' = gitGetConfigPath(path) /\ path \in Paths \X Kinds /\ cwd' = cwd
    BY <1>s DEF StatDotGit, IInv, Shape
  <2>2. path[2] = "gitfile"
    BY <2>1 DEF IInv, KeysNamed
  <2>3. path'[1] = path[1] /\ path'[2] = IF isDirectory(path) THEN "config" ELSE "gitfile"
    BY <2>1, <2>2 DEF gitGetConfigPath
  <2>4. path[1] = place[t] <=> cwd = t
    BY <2>1
  <2>5. cwd = t => path'[2] = Kind(t)
    <3>1. cwd = t => \A u \in Trees : place[u] = path[1] <=> u = t
      BY <2>4 DEF IInv, Apart
    <3>2. cwd = t => (isDirectory(path) <=> Kind(t) = "config")
      BY <3>1 DEF isDirectory, TreeAt
    <3> QED BY <2>3, <3>2 DEF Kind
  <2> QED
    BY <1>s, <2>1, <2>3, <2>4, <2>5 DEF StatDotGit, cache, IInv, Shape
<1>9. CASE NoCache
  <2>1. cwd = t => Subject = {t}
    BY <1>9, SubjectOfSettled DEF NoCache
  <2>2. shown = None
    BY <1>9 DEF NoCache, IInv, Shape
  <2> QED
    BY <1>9, <2>1, <2>2 DEF NoCache, Ends, cache, IInv, Shape
<1>10. CASE CreateKey
  <2>1. key' = KeyOf(t) <=> cwd = t
    BY <1>10, KeyOfSettled DEF CreateKey
  <2> QED
    BY <1>10, <2>1 DEF CreateKey, cache, IInv, Shape
<1>11. CASE Clean
  <2>1. key = KeyOf(t) <=> cwd = t
    BY <1>11 DEF Clean
  <2>2. memory'[KeyOf(t)] = IF cwd = t THEN None ELSE memory[KeyOf(t)]
    BY <1>4, <1>6, <1>11, <2>1 DEF Clean
  <2>3. t \in cached' => t \in cached /\ cwd # t
    BY <1>11 DEF Clean
  <2>4. UNCHANGED <<cwd, path, key, child, shown>> /\ stage' = "ended" /\ stage = "clean"
    BY <1>11 DEF Clean, Ends
  <2> QED
    BY <2>2, <2>3, <2>4 DEF IInv, Shape
<1>12. CASE Attach
  <2>1. memory'[KeyOf(t)] = memory[KeyOf(t)] \/ (memory[KeyOf(t)] = None /\ memory'[KeyOf(t)] = Blank)
    BY <1>4, <1>6, <1>12 DEF Attach
  <2> QED
    BY <1>6, <1>12, <2>1 DEF Attach
<1>13. CASE Store
  <2>1. key = KeyOf(t) <=> cwd = t
    BY <1>13 DEF Store
  <2>2. IF cwd = t THEN Subject = {t} ELSE t \notin Subject
    BY <1>13, SubjectOfSettled DEF Store
  <2>3. memory'[KeyOf(t)] = IF cwd = t THEN t ELSE memory[KeyOf(t)]
    BY <1>4, <1>6, <1>13, <2>1, <2>2 DEF Store
  <2>4. t \in cached' => t \in cached \/ cwd = t
    BY <1>13, <2>2 DEF Store
  <2>5. ~child' /\ UNCHANGED <<stage, shown>> /\ (stage = "idle" \/ UNCHANGED <<cwd, path, key>>)
    BY <1>13 DEF Store
  <2> QED
    BY <2>3, <2>4, <2>5
<1>14. CASE Show
  <2>1. cwd = t => shown' = None \/ shown' = memory[KeyOf(t)]
    BY <1>14 DEF Show, IInv, Shape
  <2> QED
    BY <1>14, <2>1 DEF Show, Ends, cache
<1> QED
  BY <1>7, <1>8, <1>s, <1>9, <1>10, <1>11, <1>12, <1>13, <1>14 DEF Run

-----------------------------------------------------------------------------
LEMMA StepOK == IInv /\ [Next]_vars => IInv'
<1> SUFFICES ASSUME IInv, [Next]_vars PROVE IInv'
  OBVIOUS
<1>1. TypeOK' /\ Shape'
  BY TypeStep, ShapeStep
<1>2. CASE Run
  <2>1. UNCHANGED trees
    BY <1>2, RunTrees
  <2> QED
    BY <1>1, <1>2, <2>1, TreesSame, NamedRun, FollowsRun DEF IInv
<1>3. CASE World
  BY <1>1, <1>3, ApartStep, NamedWorld, FollowsWorld DEF IInv
<1>4. CASE UNCHANGED vars
  <2>1. UNCHANGED trees /\ UNCHANGED <<main, cache>>
    BY <1>4 DEF vars
  <2>2. SettledFollows'
    BY <2>1, TreesSame DEF IInv, SettledFollows, Follows, HasPath, HasKey, Kind, main, cache, trees
  <2>3. KeysNamed'
    <3>1. UNCHANGED <<posix, named, touched, place>>
      BY <2>1 DEF trees
    <3>2. \A k : HasOrigin(k) => HasOrigin(k)'
      BY <3>1, OriginStays
    <3>3. NamesTrue'
      BY <2>1, <3>1, TreesSame DEF IInv, KeysNamed, NamesTrue, sha256str, Kind
    <3> QED
      BY <2>1, <3>1, <3>2, <3>3 DEF IInv, KeysNamed, HasPath, HasKey, sha256str, Kind, main, cache
  <2> QED
    BY <1>1, <2>1, <2>2, <2>3, TreesSame DEF IInv
<1> QED
  BY <1>2, <1>3, <1>4 DEF Next, Terminating

\* IInv holds in every reachable state.
LEMMA Invariance == Spec => []IInv
<1>1. IInv /\ [Next]_vars => IInv'
  BY StepOK
<1> QED
  BY InitOK, <1>1, PTL DEF Spec

\* Every variable keeps its type, exit statuses and keys included: a run never
\* goes on with a path or a key it did not get.
THEOREM TypeCorrect == Spec => []TypeOK
<1>1. IInv => TypeOK
  BY DEF IInv
<1> QED
  BY <1>1, Invariance, PTL

\* The memory and the prompts of a settled tree show this tree only, for any
\* trees, paths, files and range of ftok() (gitGetConfigPath, createIpcKey).
THEOREM SettledIsItself == Spec => []SettledShowsItself
<1>1. IInv => SettledShowsItself
  BY DEF IInv, SettledFollows, Follows, SettledShowsItself
<1> QED
  BY <1>1, Invariance, PTL

\* What a settled tree cached stays until it is cleaned in this tree.
THEOREM SettledIsKept == Spec => []SettledKeepsCache
<1>1. IInv => SettledKeepsCache
  BY DEF IInv, SettledFollows, Follows, SettledKeepsCache
<1> QED
  BY <1>1, Invariance, PTL

\* Memory out of reach was left by a tree that was moved, removed or had its
\* file replaced, for any trees and whenever they change: also between the two
\* looks of gitGetConfigPath() and between the path and the key.
THEOREM OrphansHadTrees == Spec => []OrphansWereMoved
<1>1. IInv => OrphansWereMoved
  <2> SUFFICES ASSUME IInv, NEW k \in Keys, memory[k] # None
               PROVE  \/ \E t \in Trees : Present(t) /\ KeyOf(t) = k
                      \/ \E x \in named : x[1] \in touched /\ (x[2] = k \/ k \in DotGitKeys(x[3]))
    BY DEF OrphansWereMoved
  <2>1. PICK x \in named : x[2] = k \/ (x[1] \in touched /\ k \in DotGitKeys(x[3]))
    BY DEF IInv, KeysNamed, HasOrigin
  <2>2. x[1] \in Trees
    BY DEF IInv, TypeOK, TreesTypeOK
  <2> QED
    BY <2>1, <2>2 DEF IInv, KeysNamed, NamesTrue
<1> QED
  BY <1>1, Invariance, PTL
-----------------------------------------------------------------------------
(* Options.                                                                *)

\* While main() is at the options: none of those before optind stops it, and
\* they say what is in param.
AtOptions == stage \in {"options", "usage", "chdir"}

CommandLineOK ==
  /\ argv \in Seq(Options)
  /\ \A i \in 1 .. Len(argv) : argv[i].name = "wait" => argv[i].arg \in {NoArg} \cup Seq(Nat)

OptionsInv ==
  /\ AtOptions => /\ CommandLineOK
                  /\ optind \in 1 .. Len(argv) + 1
                  /\ \A i \in 1 .. optind - 1 : ~Stops(argv[i])
                  /\ SaidBy(argv, optind - 1, param)
  /\ stage = "chdir" => optind = Len(argv) + 1
  /\ stage = "usage" => optind <= Len(argv) /\ Stops(argv[optind]) /\ exit = Exit(argv[optind])

LEMMA OptionsStep == TypeOK /\ OptionsInv /\ [Next]_vars => OptionsInv'
<1> SUFFICES ASSUME TypeOK, OptionsInv, [Next]_vars PROVE OptionsInv'
  OBVIOUS
<1>1. CASE Start
  <2>1. runs + 1 \in 1 .. MaxRuns
    BY <1>1, StartupAssumption DEF Start, TypeOK
  <2>2. argv' \in Argvs[runs + 1] /\ stage' = "options" /\ optind' = 1 /\ param' = DefaultParam
    BY <1>1 DEF Start
  <2>3. CommandLineOK'
    BY <2>1, <2>2, StartupAssumption DEF CommandLineOK
  <2>4. optind' \in 1 .. Len(argv') + 1 /\ 1 .. optind' - 1 = {} /\ optind' - 1 = 0
    BY <2>2, <2>3 DEF CommandLineOK
  <2>5. SaidBy(argv', 0, DefaultParam)
    BY NothingSaid
  <2> QED BY <2>2, <2>3, <2>4, <2>5 DEF OptionsInv
<1>2. CASE Option
  <2> DEFINE n == optind - 1
  <2>1. stage = "options" /\ stage' = stage /\ argv' = argv /\ optind <= Len(argv) /\ ~Stops(argv[optind])
        /\ optind' = optind + 1 /\ param' = Apply(argv[optind], param)
    BY <1>2 DEF Option, NextOption
  <2>2. CommandLineOK /\ optind \in 1 .. Len(argv) + 1 /\ (\A i \in 1 .. n : ~Stops(argv[i])) /\ SaidBy(argv, n, param)
    BY <2>1 DEF OptionsInv, AtOptions
  <2>3. Len(argv) \in Nat /\ CommandLineOK'
    BY <2>1, <2>2 DEF CommandLineOK
  <2>4. n \in Nat /\ optind = n + 1 /\ optind' - 1 = n + 1 /\ optind' \in 1 .. Len(argv') + 1
        /\ 1 .. n + 1 = (1 .. n) \cup {n + 1}
    BY <2>1, <2>2, <2>3
  <2> HIDE DEF n
  <2>5. SaidBy(argv, n + 1, param')
    BY <2>1, <2>2, <2>4, SaidStep
  <2>6. \A i \in 1 .. n + 1 : ~Stops(argv[i])
    BY <2>1, <2>2, <2>4
  <2> QED BY <2>1, <2>3, <2>4, <2>5, <2>6 DEF OptionsInv
<1>3. CASE Usage
  BY <1>3 DEF Usage, NextOption, OptionsInv, AtOptions, CommandLineOK
<1>4. CASE EndOfOptions
  <2>1. stage = "options" /\ stage' = "chdir" /\ UNCHANGED <<argv, optind, param>> /\ optind > Len(argv)
    BY <1>4 DEF EndOfOptions
  <2>2. optind = Len(argv) + 1
    BY <2>1 DEF OptionsInv, AtOptions, CommandLineOK
  <2> QED BY <2>1, <2>2 DEF OptionsInv, AtOptions, CommandLineOK
<1>5. CASE World \/ UNCHANGED vars
  BY <1>5 DEF World, vars, main, OptionsInv, AtOptions, CommandLineOK
<1>6. CASE Store
  BY <1>6 DEF Store, OptionsInv, AtOptions, CommandLineOK
<1>7. CASE Run /\ ~(Start \/ Option \/ Usage \/ EndOfOptions \/ Store)
  <2>1. ~AtOptions'
    BY <1>7 DEF Run, Leave, ChangeDir, Open, StatDotGit, OpenFails, NoCache, CreateKey, CreateKeyFails,
       Clean, Attach, Show, Ends, AtOptions
  <2> QED BY <2>1 DEF OptionsInv, AtOptions
<1> QED BY <1>1, <1>2, <1>3, <1>4, <1>5, <1>6, <1>7 DEF Next, Run, Terminating

\* However the options are combined and ordered, the program ends at the first
\* that must end it, with its status, and otherwise goes on with what the
\* command line says as a whole: for all command lines of any length, and all
\* texts for the wait time (parseArguments, tryParseInt).
THEOREM OptionsMeanWhatIsWritten == Spec => []OptionsAsWritten
<1>1. Init => OptionsInv
  BY DEF Init, OptionsInv, AtOptions
<1>2. OptionsInv => OptionsAsWritten
  <2> SUFFICES ASSUME OptionsInv PROVE OptionsAsWritten
    OBVIOUS
  <2>1. ASSUME CommandLineOK, NEW i \in 1 .. Len(argv), ~Disputed(argv[i])
        PROVE  /\ Stops(argv[i]) <=> Ending(argv[i])
               /\ Recognised(argv[i]) <=> Documented(argv[i])
    <3> DEFINE o == argv[i]
    <3>1. (o.name = "wait" => o.arg \in {NoArg} \cup Seq(Nat)) /\ ~Disputed(o)
      BY <2>1 DEF CommandLineOK
    <3>2. o \in Options
      <4>1. argv \in Seq(Options) /\ i \in 1 .. Len(argv)
        BY <2>1 DEF CommandLineOK
      <4> QED BY <4>1
    <3>3. o.dashes \in {1, 2}
      BY <3>2 DEF Options
    <3> HIDE DEF o
    <3>4. (Stops(o) <=> Ending(o)) /\ (Recognised(o) <=> Documented(o))
      BY <3>1, <3>3, StopsIsEnding, RecognisedIsDocumented
    <3> QED BY <3>4 DEF o
  <2>2. ASSUME stage = "chdir"
        PROVE  (\A i \in 1 .. Len(argv) : Disputed(argv[i]) \/ ~Ending(argv[i])) /\ Means(argv, param)
    <3> DEFINE n == Len(argv)
    <3>1. CommandLineOK /\ optind = n + 1 /\ (\A i \in 1 .. optind - 1 : ~Stops(argv[i]))
          /\ SaidBy(argv, optind - 1, param)
      BY <2>2 DEF OptionsInv, AtOptions
    <3>2. n \in Nat /\ optind - 1 = n
      BY <3>1 DEF CommandLineOK
    <3>3. \A i \in 1 .. n : argv[i].name = "wait" => argv[i].arg \in {NoArg} \cup Seq(Nat)
      BY <3>1 DEF CommandLineOK
    <3>4. n = Len(argv)
      OBVIOUS
    <3> HIDE DEF n
    <3>5. Means(argv, param)
      BY <3>1, <3>2, <3>3, <3>4, SaidIsMeant
    <3>6. \A i \in 1 .. Len(argv) : Disputed(argv[i]) \/ ~Ending(argv[i])
      BY <2>1, <3>1, <3>2, <3>4
    <3> QED BY <3>5, <3>6
  <2>3. ASSUME stage = "usage"
        PROVE  /\ \A i \in 1 .. optind - 1 : Disputed(argv[i]) \/ ~Ending(argv[i])
               /\ ~Disputed(argv[optind]) =>
                    /\ Ending(argv[optind])
                    /\ exit = 0 <=> Documented(argv[optind]) /\ argv[optind].name \in {"help", "version"}
    <3>1. CommandLineOK /\ optind \in 1 .. Len(argv) + 1 /\ (\A i \in 1 .. optind - 1 : ~Stops(argv[i]))
          /\ optind <= Len(argv) /\ Stops(argv[optind]) /\ exit = Exit(argv[optind])
      BY <2>3 DEF OptionsInv, AtOptions
    <3>2. Len(argv) \in Nat
      BY <3>1 DEF CommandLineOK
    <3>3. optind \in 1 .. Len(argv) /\ \A i \in 1 .. optind - 1 : i \in 1 .. Len(argv)
      BY <3>1, <3>2
    <3>4. exit = 0 <=> Recognised(argv[optind]) /\ argv[optind].name \in {"help", "version"}
      BY <3>1 DEF Stops, Exit, EINVAL
    <3> QED BY <2>1, <3>1, <3>3, <3>4
  <2> QED BY <2>2, <2>3 DEF OptionsAsWritten
<1> QED
  BY <1>1, <1>2, OptionsStep, TypeCorrect, PTL DEF Spec
=============================================================================
