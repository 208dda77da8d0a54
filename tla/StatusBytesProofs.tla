-------------------------- MODULE StatusBytesProofs --------------------------
(***************************************************************************)
(* What unsynchronised copies of the status can do to a prompt, for any    *)
(* number of refreshers, admitted together or not, and of prompts.         *)
(***************************************************************************)
EXTENDS StatusBytes, TLAPS

\* The strings a refresher may store, and what a prompt may print.
Strings == {getGitStatString(c) : c \in Checks}
Prompts == {printPs1(p, n, d) : p \in PromptTypes, n \in NameTypes, d \in [Offsets -> Bytes]}

-----------------------------------------------------------------------------
(* Facts of the strings and the printers.                                  *)

\* A status string: marks in this order, then a NUL, at most four bytes.
LEMMA StringShape ==
  ASSUME NEW c \in Checks
  PROVE  /\ getGitStatString(c) \in Seq(Bytes)
         /\ Len(getGitStatString(c)) \in Offsets
         /\ Len(getGitStatString(c)) = 4 => getGitStatString(c)[4] = NUL
         /\ getGitStatString(c)[1] = "*" => Len(getGitStatString(c)) > 1
<1> USE DEF Mark, getGitStatString, Bytes, Offsets, NUL
<1>1. c.changed \in BOOLEAN /\ c.staged \in BOOLEAN /\ c.untracked \in BOOLEAN
  BY DEF Checks
<1>2. CASE c.changed
  <2>1. CASE c.staged /\ c.untracked
    BY <1>2, <2>1
  <2>2. CASE c.staged /\ ~c.untracked
    BY <1>2, <2>2
  <2>3. CASE ~c.staged /\ c.untracked
    BY <1>2, <2>3
  <2>4. CASE ~c.staged /\ ~c.untracked
    BY <1>2, <2>4
  <2> QED BY <1>1, <2>1, <2>2, <2>3, <2>4
<1>3. CASE ~c.changed
  <2>1. CASE c.staged /\ c.untracked
    BY <1>3, <2>1
  <2>2. CASE c.staged /\ ~c.untracked
    BY <1>3, <2>2
  <2>3. CASE ~c.staged /\ c.untracked
    BY <1>3, <2>3
  <2>4. CASE ~c.staged /\ ~c.untracked
    BY <1>3, <2>4
  <2> QED BY <1>1, <2>1, <2>2, <2>3, <2>4
<1> QED BY <1>1, <1>2, <1>3

LEMMA CleanString == getGitStatString(Clean) = <<NUL>> /\ Clean \in Checks
BY DEF getGitStatString, Mark, Clean, Checks

LEMMA InRange ==
  ASSUME NEW m \in 1 .. 4
  PROVE  1 .. m \subseteq 1 .. 4 /\ \A i \in 1 .. m : i = 4 => m = 4
OBVIOUS

\* A printer begins with the colour.
LEMMA PromptShape ==
  ASSUME NEW p \in PromptTypes, NEW n \in NameTypes, NEW d
  PROVE  printPs1(p, n, d) = <<>> \/ (Len(printPs1(p, n, d)) = 4 /\ printPs1(p, n, d)[1] = Colour(d))
<1>n. n \in {"none", "branch"} \/ n = "tag" \/ n = "commitHash"
  BY DEF NameTypes
<1> DEFINE Shape(s) == Len(s) = 4 /\ s[1] = Colour(d)
<1>1. Shape(printDefaultPs1(n, d))
  BY DEF printDefaultPs1
<1>2. Shape(printZshPs1(n, d))
  <2>1. CASE n \in {"none", "branch"}
    BY <2>1 DEF printZshPs1
  <2>2. CASE n = "tag"
    BY <2>2 DEF printZshPs1
  <2>3. CASE n = "commitHash"
    BY <2>3 DEF printZshPs1
  <2> QED BY <1>n, <2>1, <2>2, <2>3
<1>3. Shape(printTmuxPs1(n, d))
  <2>1. CASE n \in {"none", "branch"}
    BY <2>1 DEF printTmuxPs1
  <2>2. CASE n = "tag"
    BY <2>2 DEF printTmuxPs1
  <2>3. CASE n = "commitHash"
    BY <2>3 DEF printTmuxPs1
  <2> QED BY <1>n, <2>1, <2>2, <2>3
<1>4. printPs1(p, n, d) \in {printDefaultPs1(n, d), printZshPs1(n, d), printTmuxPs1(n, d), <<>>}
  BY DEF printPs1, PromptTypes
<1> QED BY <1>1, <1>2, <1>3, <1>4

\* Only red and magenta depend on the second byte.
LEMMA FirstByteDecides ==
  ASSUME NEW s, NEW t, s[1] \in Bytes, s[1] = t[1]
  PROVE  Colour(s) = Colour(t) \/ {Colour(s), Colour(t)} = {"red", "magenta"}
BY DEF Colour, Bytes, NUL

LEMMA TwoBytesDecide ==
  ASSUME NEW s, NEW t, s[1] \in Bytes, s[1] = t[1], s[1] = "*" => s[2] = t[2]
  PROVE  Colour(s) = Colour(t)
BY DEF Colour, Bytes, NUL

-----------------------------------------------------------------------------
(* Types and the last byte.                                                *)

\* What a refresher copies is the string of a refresh that began.
Copying(w) ==
  wpc[w] = "copy" =>
    \E c \in computed : wdata[w] = getGitStatString(c) /\ wtodo[w] \subseteq 1 .. Len(getGitStatString(c))

IInv ==
  /\ TypeOK
  /\ shown \in [Readers -> {<<>>} \cup Prompts]
  /\ \A w \in Refreshers : Copying(w)
  /\ shm[4] = NUL
  /\ \A r \in Readers : rdata[r][4] = NUL

LEMMA InitInv == Init => IInv
<1> SUFFICES ASSUME Init PROVE IInv
  OBVIOUS
<1> USE DEF Init, Offsets, Bytes, NUL
<1>1. \A r \in Readers : Len(shown[r]) \in {0, 4}
  OBVIOUS
<1>2. last \subseteq Checks
  BY CleanString
<1>3. \A r \in Readers : rpc[r] = "start"
  OBVIOUS
<1>4. TypeOK
  BY <1>1, <1>2 DEF TypeOK
<1> QED BY <1>4 DEF IInv, Copying

\* A byte a refresher copies is in range, and the fourth is NUL.
LEMMA ByteCopied ==
  ASSUME IInv, NEW w \in Refreshers, wpc[w] = "copy", NEW i \in wtodo[w]
  PROVE  i \in Offsets /\ wdata[w][i] \in Bytes /\ (i = 4 => wdata[w][i] = NUL)
<1>1. PICK c \in computed : wdata[w] = getGitStatString(c) /\ wtodo[w] \subseteq 1 .. Len(getGitStatString(c))
  BY DEF IInv, Copying
<1>2. c \in Checks
  BY DEF IInv, TypeOK
<1> DEFINE s == getGitStatString(c)
<1>3. s \in Seq(Bytes) /\ Len(s) \in Offsets /\ (Len(s) = 4 => s[4] = NUL)
  BY <1>2, StringShape
<1>4. i \in 1 .. Len(s) /\ wdata[w] = s
  BY <1>1
<1> HIDE DEF s
<1>5. Len(s) \in 1 .. 4
  BY <1>3 DEF Offsets
<1>6. i \in 1 .. 4 /\ (i = 4 => Len(s) = 4)
  BY <1>4, <1>5, InRange
<1>7. s[i] \in Bytes
  BY <1>3, <1>4
<1>8. i = 4 => s[i] = NUL
  BY <1>3, <1>6
<1>9. wdata[w][i] = s[i]
  BY <1>4
<1> QED BY <1>6, <1>7, <1>8, <1>9 DEF Offsets

LEMMA RefresherKeeps ==
  ASSUME IInv, NEW w \in Refreshers, WriteBegin(w) \/ WriteByte(w)
  PROVE  IInv'
<1>t. TypeOK
  BY DEF IInv
<1>1. CASE WriteBegin(w)
  <2>1. PICK c \in Checks :
          /\ wdata' = [wdata EXCEPT ![w] = getGitStatString(c)]
          /\ wtodo' = [wtodo EXCEPT ![w] = 1 .. Len(getGitStatString(c))]
          /\ computed' = computed \cup {c}
          /\ last' = IF Refreshing = {} THEN {c} ELSE {}
    BY <1>1 DEF WriteBegin
  <2>2. /\ wpc' = [wpc EXCEPT ![w] = "copy"]
        /\ UNCHANGED <<shm, rpc, rdata, rtodo, shown>>
    BY <1>1 DEF WriteBegin
  <2> DEFINE s == getGitStatString(c)
  <2>3. s \in Strings /\ 1 .. Len(s) \subseteq Offsets
    <3>1. s \in Strings
      BY DEF Strings
    <3>2. Len(s) \in Offsets
      BY StringShape
    <3> HIDE DEF s
    <3>3. Len(s) \in 1 .. 4
      BY <3>2 DEF Offsets
    <3>4. 1 .. Len(s) \subseteq 1 .. 4
      BY <3>3, InRange
    <3> QED BY <3>1, <3>4 DEF Offsets
  <2> HIDE DEF s
  <2>4. wdata' = [wdata EXCEPT ![w] = s] /\ wtodo' = [wtodo EXCEPT ![w] = 1 .. Len(s)]
    BY <2>1 DEF s
  <2>5. TypeOK'
    <3>1. wdata' \in [Refreshers -> {<<>>} \cup {getGitStatString(x) : x \in Checks}]
      BY <1>t, <2>3, <2>4 DEF TypeOK, Strings
    <3>2. wtodo' \in [Refreshers -> SUBSET Offsets]
      BY <1>t, <2>3, <2>4 DEF TypeOK
    <3>3. wpc' \in [Refreshers -> {"start", "copy", "done"}]
      BY <1>t, <2>2 DEF TypeOK
    <3>4. computed' \subseteq Checks /\ last' \subseteq Checks
      BY <1>t, <2>1 DEF TypeOK
    <3> QED BY <1>t, <2>2, <3>1, <3>2, <3>3, <3>4 DEF TypeOK
  <2>6. ASSUME NEW v \in Refreshers PROVE Copying(v)'
    <3>1. CASE v = w
      <4>1. c \in computed' /\ wdata'[w] = s /\ wtodo'[w] = 1 .. Len(s)
        BY <1>t, <2>1, <2>4 DEF TypeOK
      <4>2. wdata'[w] = getGitStatString(c) /\ wtodo'[w] \subseteq 1 .. Len(getGitStatString(c))
        BY <4>1 DEF s
      <4> QED BY <3>1, <4>1, <4>2 DEF Copying
    <3>2. CASE v # w
      <4>1. wpc'[v] = wpc[v] /\ wdata'[v] = wdata[v] /\ wtodo'[v] = wtodo[v]
        BY <1>t, <2>2, <2>4, <3>2 DEF TypeOK
      <4> QED BY <2>1, <4>1 DEF IInv, Copying
    <3> QED BY <3>1, <3>2
  <2> QED BY <2>2, <2>5, <2>6 DEF IInv
<1>2. CASE WriteByte(w)
  <2>1. PICK i \in wtodo[w] :
          /\ shm' = [shm EXCEPT ![i] = wdata[w][i]]
          /\ wtodo' = [wtodo EXCEPT ![w] = @ \ {i}]
          /\ wpc' = [wpc EXCEPT ![w] = IF wtodo[w] = {i} THEN "done" ELSE "copy"]
    BY <1>2 DEF WriteByte
  <2>2. wpc[w] = "copy" /\ UNCHANGED <<wdata, rpc, rdata, rtodo, shown, computed, last>>
    BY <1>2 DEF WriteByte
  <2>3. i \in Offsets /\ wdata[w][i] \in Bytes /\ (i = 4 => wdata[w][i] = NUL)
    BY <2>2, ByteCopied
  <2>4. shm' \in [Offsets -> Bytes] /\ shm'[4] = NUL
    BY <1>t, <2>1, <2>3 DEF TypeOK, IInv, Offsets
  <2>5. TypeOK'
    <3>1. wtodo' \in [Refreshers -> SUBSET Offsets]
      BY <1>t, <2>1 DEF TypeOK
    <3>2. wpc' \in [Refreshers -> {"start", "copy", "done"}]
      BY <1>t, <2>1 DEF TypeOK
    <3> QED BY <1>t, <2>2, <2>4, <3>1, <3>2 DEF TypeOK
  <2>6. ASSUME NEW v \in Refreshers PROVE Copying(v)'
    <3>1. wtodo'[v] \subseteq wtodo[v] /\ (wpc'[v] = "copy" => wpc[v] = "copy")
      BY <1>t, <2>1, <2>2 DEF TypeOK
    <3> QED BY <2>2, <3>1 DEF IInv, Copying
  <2> QED BY <2>2, <2>4, <2>5, <2>6 DEF IInv
<1> QED BY <1>1, <1>2

LEMMA ReaderKeeps ==
  ASSUME IInv, NEW r \in Readers, ReadBegin(r) \/ ReadByte(r) \/ ShowPrompt(r)
  PROVE  IInv'
<1>t. TypeOK
  BY DEF IInv
<1>u. UNCHANGED <<shm, wpc, wdata, wtodo, computed, last>>
  BY DEF ReadBegin, ReadByte, ShowPrompt
<1>c. \A w \in Refreshers : Copying(w)'
  BY <1>u DEF IInv, Copying
<1>1. CASE ReadBegin(r)
  <2>1. /\ rtodo' = [rtodo EXCEPT ![r] = Offsets]
        /\ rpc' = [rpc EXCEPT ![r] = "copy"]
        /\ UNCHANGED <<rdata, shown>>
    BY <1>1 DEF ReadBegin
  <2>2. TypeOK'
    BY <1>t, <1>u, <2>1 DEF TypeOK
  <2> QED BY <1>u, <1>c, <2>1, <2>2 DEF IInv
<1>2. CASE ReadByte(r)
  <2>1. PICK i \in rtodo[r] :
          /\ rdata' = [rdata EXCEPT ![r][i] = shm[i]]
          /\ rtodo' = [rtodo EXCEPT ![r] = @ \ {i}]
          /\ rpc' = [rpc EXCEPT ![r] = IF rtodo[r] = {i} THEN "print" ELSE "copy"]
          /\ UNCHANGED shown
    BY <1>2 DEF ReadByte
  <2>2. i \in Offsets /\ shm[i] \in Bytes /\ (i = 4 => shm[i] = NUL)
    BY <1>t, <2>1 DEF TypeOK, IInv
  <2>3. rdata' \in [Readers -> [Offsets -> Bytes]] /\ \A q \in Readers : rdata'[q][4] = NUL
    BY <1>t, <2>1, <2>2 DEF TypeOK, IInv, Offsets
  <2>4. rtodo' \in [Readers -> SUBSET Offsets] /\ rpc' \in [Readers -> {"start", "copy", "print", "done"}]
    BY <1>t, <2>1 DEF TypeOK
  <2>5. TypeOK'
    BY <1>t, <1>u, <2>1, <2>3, <2>4 DEF TypeOK
  <2> QED BY <1>u, <1>c, <2>1, <2>3, <2>5 DEF IInv
<1>3. CASE ShowPrompt(r)
  <2>1. PICK p \in PromptTypes, n \in NameTypes : shown' = [shown EXCEPT ![r] = printPs1(p, n, rdata[r])]
    BY <1>3 DEF ShowPrompt
  <2>2. rpc' = [rpc EXCEPT ![r] = "done"] /\ UNCHANGED <<rdata, rtodo>>
    BY <1>3 DEF ShowPrompt
  <2> DEFINE q == printPs1(p, n, rdata[r])
  <2>3. q \in Prompts
    BY <1>t DEF TypeOK, Prompts
  <2>4. Len(q) \in {0, 4}
    BY PromptShape
  <2>5. shown' = [shown EXCEPT ![r] = q]
    BY <2>1
  <2> HIDE DEF q
  <2>6. shown' \in [Readers -> {<<>>} \cup Prompts] /\ \A x \in Readers : Len(shown'[x]) \in {0, 4}
    BY <1>t, <2>3, <2>4, <2>5 DEF IInv, TypeOK
  <2>7. rpc' \in [Readers -> {"start", "copy", "print", "done"}]
    BY <1>t, <2>2 DEF TypeOK
  <2>8. TypeOK'
    BY <1>t, <1>u, <2>2, <2>6, <2>7 DEF TypeOK
  <2> QED BY <1>u, <1>c, <2>2, <2>6, <2>8 DEF IInv
<1> QED BY <1>1, <1>2, <1>3

LEMMA StepKeeps == IInv /\ [Next]_vars => IInv'
<1> SUFFICES ASSUME IInv, [Next]_vars PROVE IInv'
  OBVIOUS
<1>1. CASE UNCHANGED vars
  BY <1>1 DEF vars, IInv, TypeOK, Copying
<1> QED BY <1>1, RefresherKeeps, ReaderKeeps DEF Next, Terminating

LEMMA AlwaysIInv == Spec => []IInv
BY InitInv, StepKeeps, PTL DEF Spec

\* Every reachable state is well typed.
THEOREM TypeCorrect == Spec => []TypeOK
<1>1. IInv => TypeOK
  BY DEF IInv
<1> QED BY <1>1, AlwaysIInv, PTL

\* However many refreshers and prompts copy at the same time, the status a
\* prompt works with ends inside the bytes a refresher may write.
THEOREM StatusAlwaysEnds == Spec => []StatusEnds
<1>1. IInv => StatusEnds
  BY DEF IInv, StatusEnds
<1> QED BY <1>1, AlwaysIInv, PTL

-----------------------------------------------------------------------------
(* Torn copies.  The first byte anybody can read is the first byte of a    *)
(* status some refresh computed, or of the blank segment.                  *)

First == {getGitStatString(c)[1] : c \in Known}

TornInv ==
  /\ IInv
  /\ shm[1] \in First
  /\ \A r \in Readers : rdata[r][1] \in First
  /\ TornOnlyRedMagenta

LEMMA TornInit == Init => TornInv
<1> SUFFICES ASSUME Init PROVE TornInv
  OBVIOUS
<1>1. NUL \in First
  BY CleanString DEF First, Known
<1> QED BY <1>1, InitInv DEF Init, TornInv, TornOnlyRedMagenta, Offsets

\* What is known stays known.
LEMMA KnownGrows ==
  ASSUME TornInv, computed \subseteq computed', UNCHANGED shown
  PROVE  First \subseteq First' /\ TornOnlyRedMagenta'
<1>1. Known \subseteq Known'
  BY DEF Known
<1> QED BY <1>1 DEF First, TornInv, TornOnlyRedMagenta, ColourOf

LEMMA RefresherTears ==
  ASSUME TornInv, IInv', NEW w \in Refreshers, WriteBegin(w) \/ WriteByte(w)
  PROVE  TornInv'
<1>1. computed \subseteq computed' /\ UNCHANGED <<shown, rdata>>
  BY DEF WriteBegin, WriteByte
<1>2. First \subseteq First' /\ TornOnlyRedMagenta'
  BY <1>1, KnownGrows
<1>3. shm'[1] \in First
  <2>1. CASE WriteBegin(w)
    BY <2>1 DEF WriteBegin, TornInv
  <2>2. CASE WriteByte(w)
    <3>1. PICK i \in wtodo[w] : shm' = [shm EXCEPT ![i] = wdata[w][i]]
      BY <2>2 DEF WriteByte
    <3>2. CASE i = 1
      <4>1. PICK c \in computed : wdata[w] = getGitStatString(c)
        BY <2>2 DEF WriteByte, TornInv, IInv, Copying
      <4>2. wdata[w][1] \in First
        BY <4>1 DEF First, Known
      <4> QED BY <3>1, <3>2, <4>2 DEF TornInv, IInv, TypeOK, Offsets
    <3>3. CASE i # 1
      BY <3>1, <3>3 DEF TornInv, IInv, TypeOK, Offsets
    <3> QED BY <3>2, <3>3
  <2> QED BY <2>1, <2>2
<1> QED BY <1>1, <1>2, <1>3 DEF TornInv

LEMMA ReaderTears ==
  ASSUME TornInv, IInv', NEW r \in Readers, ReadBegin(r) \/ ReadByte(r) \/ ShowPrompt(r)
  PROVE  TornInv'
<1>t. TypeOK
  BY DEF TornInv, IInv
<1>u. UNCHANGED <<shm, computed>>
  BY DEF ReadBegin, ReadByte, ShowPrompt
<1>f. First' = First /\ Known' = Known
  BY <1>u DEF First, Known
<1>1. CASE ReadBegin(r)
  <2>1. UNCHANGED <<rdata, shown>>
    BY <1>1 DEF ReadBegin
  <2> QED BY <1>u, <1>f, <2>1, KnownGrows DEF TornInv
<1>2. CASE ReadByte(r)
  <2>1. PICK i \in rtodo[r] : rdata' = [rdata EXCEPT ![r][i] = shm[i]] /\ UNCHANGED shown
    BY <1>2 DEF ReadByte
  <2>2. i \in Offsets
    BY <1>t, <2>1 DEF TypeOK
  <2>3. \A q \in Readers : rdata'[q][1] \in First
    BY <1>t, <2>1, <2>2 DEF TornInv, TypeOK, Offsets
  <2> QED BY <1>u, <1>f, <2>1, <2>3, KnownGrows DEF TornInv
<1>3. CASE ShowPrompt(r)
  <2>1. PICK p \in PromptTypes, n \in NameTypes : shown' = [shown EXCEPT ![r] = printPs1(p, n, rdata[r])]
    BY <1>3 DEF ShowPrompt
  <2>2. UNCHANGED rdata
    BY <1>3 DEF ShowPrompt
  <2> DEFINE d == rdata[r]
             q == printPs1(p, n, d)
  <2>3. q = <<>> \/ q[1] = Colour(d)
    BY PromptShape
  <2>4. PICK c \in Known : d[1] = getGitStatString(c)[1]
    BY DEF TornInv, First
  <2>5. d[1] \in Bytes
    BY <1>t DEF TypeOK, Offsets
  <2>6. ColourOf(c) = Colour(d) \/ {ColourOf(c), Colour(d)} = {"red", "magenta"}
    BY <2>4, <2>5, FirstByteDecides DEF ColourOf
  <2>7. shown' = [shown EXCEPT ![r] = q] /\ shown \in [Readers -> {<<>>} \cup Prompts]
    BY <2>1 DEF TornInv, IInv
  <2> HIDE DEF d, q
  <2>8. ASSUME NEW x \in Readers, shown'[x] # <<>>
        PROVE  \E b \in Known : ColourOf(b) = shown'[x][1] \/ {ColourOf(b), shown'[x][1]} = {"red", "magenta"}
    <3>1. CASE x = r
      BY <2>3, <2>6, <2>7, <2>8, <3>1
    <3>2. CASE x # r
      BY <2>7, <2>8, <3>2 DEF TornInv, TornOnlyRedMagenta
    <3> QED BY <3>1, <3>2
  <2>9. TornOnlyRedMagenta'
    BY <1>f, <2>8 DEF TornOnlyRedMagenta, ColourOf
  <2> QED BY <1>u, <1>f, <2>2, <2>9 DEF TornInv
<1> QED BY <1>1, <1>2, <1>3

LEMMA TornStep == TornInv /\ IInv' /\ [Next]_vars => TornInv'
<1> SUFFICES ASSUME TornInv, IInv', [Next]_vars PROVE TornInv'
  OBVIOUS
<1>1. CASE UNCHANGED vars
  BY <1>1 DEF vars, TornInv, First, Known, TornOnlyRedMagenta
<1> QED BY <1>1, RefresherTears, ReaderTears DEF Next, Terminating

\* A prompt that copies while any number of refreshers store shows a colour
\* of a status that was computed, except that red and magenta may be mixed up.
THEOREM TornColours == Spec => []TornOnlyRedMagenta
<1>1. TornInv => TornOnlyRedMagenta
  BY DEF TornInv
<1> QED BY <1>1, TornInit, TornStep, AlwaysIInv, PTL DEF Spec

-----------------------------------------------------------------------------
(* The settled segment.  While the last status has no rival, everything    *)
(* its refresher has copied is in the segment.                             *)

Stored(c, todo) ==
  \A i \in 1 .. Len(getGitStatString(c)) : i \notin todo => shm[i] = getGitStatString(c)[i]

SettledInv ==
  \A c \in last :
    /\ last = {c}
    /\ Refreshing = {} => Stored(c, {})
    /\ \A w \in Refreshing :
         /\ Refreshing = {w} /\ wdata[w] = getGitStatString(c)
         /\ Stored(c, wtodo[w])

LEMMA SettledInit == Init => SettledInv
<1> SUFFICES ASSUME Init PROVE SettledInv
  OBVIOUS
<1>1. last = {Clean} /\ Refreshing = {}
  BY DEF Init, Refreshing
<1>2. Stored(Clean, {})
  BY CleanString DEF Init, Stored, Offsets
<1> QED BY <1>1, <1>2 DEF SettledInv

LEMMA RefresherSettles ==
  ASSUME IInv, SettledInv, NEW w \in Refreshers, WriteBegin(w) \/ WriteByte(w)
  PROVE  SettledInv'
<1>t. TypeOK
  BY DEF IInv
<1>1. CASE WriteBegin(w)
  <2>1. PICK c \in Checks :
          /\ wdata' = [wdata EXCEPT ![w] = getGitStatString(c)]
          /\ wtodo' = [wtodo EXCEPT ![w] = 1 .. Len(getGitStatString(c))]
          /\ last' = IF Refreshing = {} THEN {c} ELSE {}
          /\ wpc' = [wpc EXCEPT ![w] = "copy"]
    BY <1>1 DEF WriteBegin
  <2>2. CASE Refreshing = {}
    <3>1. Refreshing' = {w}
      BY <1>t, <2>1, <2>2 DEF TypeOK, Refreshing
    <3>2. wdata'[w] = getGitStatString(c) /\ wtodo'[w] = 1 .. Len(getGitStatString(c)) /\ last' = {c}
      BY <1>t, <2>1, <2>2 DEF TypeOK
    <3>3. Stored(c, wtodo[w])'
      BY <3>2 DEF Stored
    <3> QED BY <3>1, <3>2, <3>3 DEF SettledInv
  <2>3. CASE Refreshing # {}
    BY <2>1, <2>3 DEF SettledInv
  <2> QED BY <2>2, <2>3
<1>2. CASE WriteByte(w)
  <2>1. PICK i \in wtodo[w] :
          /\ shm' = [shm EXCEPT ![i] = wdata[w][i]]
          /\ wtodo' = [wtodo EXCEPT ![w] = @ \ {i}]
          /\ wpc' = [wpc EXCEPT ![w] = IF wtodo[w] = {i} THEN "done" ELSE "copy"]
    BY <1>2 DEF WriteByte
  <2>2. wpc[w] = "copy" /\ UNCHANGED <<wdata, last>>
    BY <1>2 DEF WriteByte
  <2>3. w \in Refreshing
    BY <2>2 DEF Refreshing
  <2> SUFFICES ASSUME NEW c \in last
               PROVE  /\ last = {c}
                      /\ Refreshing' = {} => Stored(c, {})'
                      /\ \A v \in Refreshing' :
                           /\ Refreshing' = {v} /\ wdata'[v] = getGitStatString(c)
                           /\ Stored(c, wtodo[v])'
    BY <2>2 DEF SettledInv
  <2>4. last = {c} /\ Refreshing = {w} /\ wdata[w] = getGitStatString(c) /\ Stored(c, wtodo[w])
    BY <2>3 DEF SettledInv
  <2>5. Refreshing' = IF wtodo[w] = {i} THEN {} ELSE {w}
    BY <1>t, <2>1, <2>4 DEF TypeOK, Refreshing
  <2>6. i \in Offsets /\ wtodo'[w] = wtodo[w] \ {i}
    BY <1>t, <2>1 DEF TypeOK
  <2> DEFINE s == getGitStatString(c)
  <2>7. \A j \in 1 .. Len(s) : j \in Offsets
    <3>1. PICK x \in computed : wdata[w] = getGitStatString(x)
      BY <2>2 DEF IInv, Copying
    <3>2. getGitStatString(x) = s /\ x \in Checks
      BY <1>t, <2>4, <3>1 DEF TypeOK
    <3>3. Len(s) \in 1 .. 4
      BY <3>2, StringShape DEF Offsets
    <3> HIDE DEF s
    <3> QED BY <3>3, InRange DEF Offsets
  <2>8. Stored(c, wtodo[w])'
    <3> SUFFICES ASSUME NEW j \in 1 .. Len(s), j \notin wtodo'[w] PROVE shm'[j] = s[j]
      BY DEF Stored
    <3>1. j \in Offsets /\ wdata[w] = s
      BY <2>4, <2>7
    <3>2. CASE j = i
      BY <1>t, <2>1, <3>1, <3>2 DEF TypeOK
    <3>3. CASE j # i
      <4>1. shm[j] = s[j]
        BY <2>4, <2>6, <3>3 DEF Stored
      <4> QED BY <1>t, <2>1, <3>1, <3>3, <4>1 DEF TypeOK
    <3> QED BY <3>2, <3>3
  <2>9. wtodo[w] = {i} => Stored(c, {})'
    BY <2>6, <2>8 DEF Stored
  <2> QED BY <2>2, <2>4, <2>5, <2>8, <2>9
<1> QED BY <1>1, <1>2

LEMMA SettledStep == IInv /\ SettledInv /\ [Next]_vars => SettledInv'
<1> SUFFICES ASSUME IInv, SettledInv, [Next]_vars PROVE SettledInv'
  OBVIOUS
<1>1. ASSUME UNCHANGED <<shm, wpc, wdata, wtodo, last>> PROVE SettledInv'
  BY <1>1 DEF SettledInv, Refreshing, Stored
<1>2. CASE UNCHANGED vars
  BY <1>1, <1>2 DEF vars
<1>3. ASSUME NEW r \in Readers, ReadBegin(r) \/ ReadByte(r) \/ ShowPrompt(r) PROVE SettledInv'
  BY <1>1, <1>3 DEF ReadBegin, ReadByte, ShowPrompt
<1> QED BY <1>2, <1>3, RefresherSettles DEF Next, Terminating

\* When nobody stores, the segment has the colour of the last status, unless
\* another refresher was storing when that one began or before it ended.
THEOREM SettledColour == Spec => []SettledIsLast
<1>1. IInv /\ SettledInv => SettledIsLast
  <2> SUFFICES ASSUME IInv, SettledInv, Refreshing = {}, NEW c \in last PROVE ColourOf(c) = Colour(shm)
    BY DEF SettledIsLast
  <2> DEFINE s == getGitStatString(c)
  <2>1. c \in Checks /\ Stored(c, {})
    BY DEF IInv, TypeOK, SettledInv
  <2>2. Len(s) \in 1 .. 4 /\ (s[1] = "*" => Len(s) > 1)
    BY <2>1, StringShape DEF Offsets
  <2>3. \A j \in 1 .. Len(s) : shm[j] = s[j]
    BY <2>1 DEF Stored
  <2> HIDE DEF s
  <2>4. s[1] = shm[1]
    BY <2>2, <2>3
  <2>5. s[1] = "*" => s[2] = shm[2]
    BY <2>2, <2>3
  <2>6. s[1] \in Bytes
    BY <2>4 DEF IInv, TypeOK, Offsets
  <2>7. Colour(s) = Colour(shm)
    BY <2>4, <2>5, <2>6, TwoBytesDecide
  <2> QED BY <2>7 DEF ColourOf, s
<1> QED BY <1>1, SettledInit, SettledStep, AlwaysIInv, PTL DEF Spec

-----------------------------------------------------------------------------
(* The terminal after a prompt.                                            *)

\* Every attribute among the control sequences is cleared by a later one.
Restores(codes) ==
  \A i \in 1 .. Len(codes) : codes[i] \in Attributes =>
    \E j \in i + 1 .. Len(codes) : codes[i] \in Clears(codes[j])

\* What a prompt sets is cleared by its third or its last control sequence.
LEMMA FourCodes ==
  ASSUME NEW colour, NEW start, NEW stop, NEW end, colour \in Clears(end),
         start \in Attributes => start \in Clears(stop) \/ start \in Clears(end),
         stop \notin Attributes, end \notin Attributes
  PROVE  Restores(<<colour, start, stop, end>>)
<1> SUFFICES ASSUME NEW s, s = <<colour, start, stop, end>> PROVE Restores(s)
  OBVIOUS
<1>1. Len(s) = 4 /\ s[1] = colour /\ s[2] = start /\ s[3] = stop /\ s[4] = end
  OBVIOUS
<1>2. 4 \in 1 + 1 .. 4 /\ 3 \in 2 + 1 .. 4 /\ 4 \in 2 + 1 .. 4 /\ 1 .. 4 = {1, 2, 3, 4}
  OBVIOUS
<1> SUFFICES ASSUME NEW i \in {1, 2, 3, 4}, s[i] \in Attributes
             PROVE  \E j \in i + 1 .. 4 : s[i] \in Clears(s[j])
  BY <1>1, <1>2 DEF Restores
<1>3. CASE i = 1
  BY <1>1, <1>2, <1>3
<1>4. CASE i = 2
  BY <1>1, <1>2, <1>4
<1> QED BY <1>1, <1>3, <1>4

LEMMA Joined ==
  ASSUME NEW a, NEW b, NEW c, NEW e
  PROVE  <<a>> \o <<b, c>> \o <<e>> = <<a, b, c, e>>
<1> DEFINE s == <<a>> \o <<b, c>> \o <<e>>
           t == <<a, b, c, e>>
           D == {a, b, c, e}
<1>1. s \in Seq(D) /\ t \in Seq(D)
  OBVIOUS
<1>2. Len(s) = 4 /\ s[1] = a /\ s[2] = b /\ s[3] = c /\ s[4] = e
  OBVIOUS
<1>3. Len(t) = 4 /\ t[1] = a /\ t[2] = b /\ t[3] = c /\ t[4] = e
  OBVIOUS
<1> HIDE DEF s, t, D
<1>4. s = t
  BY <1>1, <1>2, <1>3
<1> QED BY <1>4 DEF s, t

\* Which control sequences set and clear attributes.
LEMMA CodeFacts ==
  /\ \A c \in Colours : c \in Clears("reset") /\ c \in Clears("nofg")
  /\ "underline" \in Clears("reset") /\ "reverse" \in Clears("reset")
  /\ "underline" \in Clears("nounderline") /\ "reverse" \in Clears("noreverse")
  /\ {"", "reset", "nofg", "nounderline", "noreverse"} \cap Attributes = {}
BY DEF Clears, Colours, Attributes

LEMMA PrintersRestore ==
  ASSUME NEW p \in PromptTypes, NEW n \in NameTypes, NEW d \in [Offsets -> Bytes]
  PROVE  Restores(printPs1(p, n, d))
<1>c. Colour(d) \in Colours
  BY DEF Colour, Colours, Offsets, Bytes, NUL
<1>n. n \in {"none", "branch"} \/ n = "tag" \/ n = "commitHash"
  BY DEF NameTypes
<1>a. \A code \in {"", "reset", "nofg", "nounderline", "noreverse"} : code \notin Attributes
  BY CodeFacts
<1>1. Restores(printDefaultPs1(n, d))
  <2> DEFINE m == CASE n = "tag" -> "underline" [] n = "commitHash" -> "reverse"
                    [] n \in {"none", "branch"} -> ""
  <2>1. printDefaultPs1(n, d) = <<Colour(d), m, "", "reset">>
    BY DEF printDefaultPs1
  <2>2. m \in {"", "underline", "reverse"}
    BY <1>n
  <2> HIDE DEF m
  <2>3. Restores(<<Colour(d), m, "", "reset">>)
    BY <1>c, <1>a, <2>2, CodeFacts, FourCodes
  <2> QED BY <2>1, <2>3
<1>z. /\ Restores(<<Colour(d), "", "", "nofg">>)
      /\ Restores(<<Colour(d), "underline", "nounderline", "nofg">>)
      /\ Restores(<<Colour(d), "underline", "reset", "nofg">>)
      /\ Restores(<<Colour(d), "reverse", "noreverse", "nofg">>)
      /\ Restores(<<Colour(d), "reverse", "reset", "nofg">>)
  <2>1. Restores(<<Colour(d), "", "", "nofg">>)
    BY <1>c, <1>a, CodeFacts, FourCodes
  <2>2. Restores(<<Colour(d), "underline", "nounderline", "nofg">>)
    BY <1>c, <1>a, CodeFacts, FourCodes
  <2>3. Restores(<<Colour(d), "underline", "reset", "nofg">>)
    BY <1>c, <1>a, CodeFacts, FourCodes
  <2>4. Restores(<<Colour(d), "reverse", "noreverse", "nofg">>)
    BY <1>c, <1>a, CodeFacts, FourCodes
  <2>5. Restores(<<Colour(d), "reverse", "reset", "nofg">>)
    BY <1>c, <1>a, CodeFacts, FourCodes
  <2> QED BY <2>1, <2>2, <2>3, <2>4, <2>5
<1>2. Restores(printZshPs1(n, d))
  <2>1. CASE n \in {"none", "branch"}
    <3>1. printZshPs1(n, d) = <<Colour(d), "", "", "nofg">>
      BY <2>1, Joined, Zenon DEF printZshPs1
    <3> QED BY <1>z, <3>1, Zenon
  <2>2. CASE n = "tag"
    <3>1. printZshPs1(n, d) = <<Colour(d), "underline", "nounderline", "nofg">>
      BY <2>2, Joined, Zenon DEF printZshPs1
    <3> QED BY <1>z, <3>1, Zenon
  <2>3. CASE n = "commitHash"
    <3>1. printZshPs1(n, d) = <<Colour(d), "reverse", "noreverse", "nofg">>
      BY <2>3, Joined, Zenon DEF printZshPs1
    <3> QED BY <1>z, <3>1, Zenon
  <2> QED BY <1>n, <2>1, <2>2, <2>3
<1>3. Restores(printTmuxPs1(n, d))
  <2>1. CASE n \in {"none", "branch"}
    <3>1. printTmuxPs1(n, d) = <<Colour(d), "", "", "nofg">>
      BY <2>1, Joined, Zenon DEF printTmuxPs1
    <3> QED BY <1>z, <3>1, Zenon
  <2>2. CASE n = "tag"
    <3>1. printTmuxPs1(n, d) = <<Colour(d), "underline", "reset", "nofg">>
      BY <2>2, Joined, Zenon DEF printTmuxPs1
    <3> QED BY <1>z, <3>1, Zenon
  <2>3. CASE n = "commitHash"
    <3>1. printTmuxPs1(n, d) = <<Colour(d), "reverse", "reset", "nofg">>
      BY <2>3, Joined, Zenon DEF printTmuxPs1
    <3> QED BY <1>z, <3>1, Zenon
  <2> QED BY <1>n, <2>1, <2>2, <2>3
<1>4. Restores(<<>>)
  BY DEF Restores
<1>5. printPs1(p, n, d) \in {printDefaultPs1(n, d), printZshPs1(n, d), printTmuxPs1(n, d), <<>>}
  BY DEF printPs1, PromptTypes
<1> QED BY <1>1, <1>2, <1>3, <1>4, <1>5

\* Whatever bytes a prompt has read, torn or not, it leaves no colour and no
\* decoration behind for what the user types.
THEOREM TerminalRestored == Spec => []PromptRestoresTerminal
<1>1. IInv => PromptRestoresTerminal
  <2> SUFFICES ASSUME IInv, NEW r \in Readers PROVE Restores(shown[r])
    BY DEF PromptRestoresTerminal, Restores
  <2>1. shown[r] = <<>> \/ shown[r] \in Prompts
    BY DEF IInv
  <2>2. Restores(<<>>)
    BY DEF Restores
  <2>3. ASSUME shown[r] \in Prompts PROVE Restores(shown[r])
    BY <2>3, PrintersRestore DEF Prompts
  <2> QED BY <2>1, <2>2, <2>3
<1> QED BY <1>1, AlwaysIInv, PTL

=============================================================================
