----------------------------- MODULE StatusBytes -----------------------------
(***************************************************************************)
(* The status string on its way from getGitStatString() through shared     *)
(* memory to the colour of a prompt (native/git-ps1/main.c), byte by byte. *)
(* GitPs1 copies a status in one step; here the memcpy() of a refresher    *)
(* and the memcpy() of a prompt run at the same time, and nothing orders   *)
(* the bytes they copy.  The lock is meant to admit one refresher; the     *)
(* model takes the number it admits as a constant.                         *)
(***************************************************************************)
EXTENDS Naturals, Sequences, FiniteSets

CONSTANTS
  Refreshers,     \* the children that store a status, each once
  Readers,        \* the parents that print a prompt, each once
  MaxRefreshers   \* how many children refresh at a time

ASSUME StatusBytesAssumption ==
  /\ IsFiniteSet(Refreshers) /\ IsFiniteSet(Readers)
  /\ MaxRefreshers \in Nat \ {0}

NUL == "NUL"
Bytes == {"*", "+", "%", NUL}

\* The longest string is "*+%" and its NUL.  No refresher writes behind it,
\* so the other 28 bytes of the segment are 0 for ever and are left out.
Offsets == 1 .. 4

VARIABLES
  shm,       \* the segment
  wpc, wdata, wtodo,   \* of a refresher: label, its string, the offsets to copy
  rpc, rdata, rtodo,   \* of a reader
  shown,     \* the control sequences a reader printed, <<>> for none
  computed,  \* history: the checks' results of every refresh that began
  last       \* history: those of the last one, {} when another was storing

vars == <<shm, wpc, wdata, wtodo, rpc, rdata, rtodo, shown, computed, last>>

Checks == [changed : BOOLEAN, staged : BOOLEAN, untracked : BOOLEAN]

\* A status with no marks: a clean repository, or a segment nobody stored to.
Clean == [changed |-> FALSE, staged |-> FALSE, untracked |-> FALSE]

\* One if (isX) { buf[i] = m; i++; }.
Mark(isX, m) == IF isX THEN <<m>> ELSE <<>>

\* Mutant: the final NUL is forgotten, an old byte of the buffer follows.
getGitStatString_NoNul(c) ==
  Mark(c.changed, "*") \o Mark(c.staged, "+") \o Mark(c.untracked, "%") \o <<"%">>

\* The bytes getGitStatString() leaves in its buffer, NUL included.
getGitStatString(c) ==
  Mark(c.changed, "*") \o Mark(c.staged, "+") \o Mark(c.untracked, "%") \o <<NUL>>

\* Mutant: the second byte decides about blue as well.
Colour_MoreBytes(s) ==
  CASE s[1] = "*" -> IF s[2] = "+" THEN "magenta" ELSE "red"
    [] s[1] = "+" -> IF s[2] = "%" THEN "yellow" ELSE "blue"
    [] s[1] = "%" -> "yellow"
    [] s[1] = NUL -> "green"

\* The colour that the printers choose from the first two bytes.
Colour(s) ==
  CASE s[1] = "*" -> IF s[2] = "+" THEN "magenta" ELSE "red"
    [] s[1] = "+" -> "blue"
    [] s[1] = "%" -> "yellow"
    [] s[1] = NUL -> "green"

PromptTypes == {"default", "zsh", "tmux", "nocolor"}
NameTypes == {"none", "branch", "tag", "commitHash"}

\* The control sequences of a prompt, in order; "" where the code has none.
\* A start sequence sets an attribute; "nofg", "nounderline" and "noreverse"
\* clear one attribute, "reset" clears all of them.
printDefaultPs1(nameType, s) ==
  << Colour(s),
     CASE nameType = "tag" -> "underline" [] nameType = "commitHash" -> "reverse"
       [] nameType \in {"none", "branch"} -> "",
     "", "reset" >>

\* Mutant: underlining is not switched off.
printZshPs1_NoReset(nameType, s) ==
  LET modify == CASE nameType = "tag"        -> <<"underline", "">>
                  [] nameType = "commitHash" -> <<"reverse", "noreverse">>
                  [] nameType \in {"none", "branch"} -> <<"", "">>
  IN  <<Colour(s)>> \o modify \o <<"nofg">>

printZshPs1(nameType, s) ==
  LET modify == CASE nameType = "tag"        -> <<"underline", "nounderline">>
                  [] nameType = "commitHash" -> <<"reverse", "noreverse">>
                  [] nameType \in {"none", "branch"} -> <<"", "">>
  IN  <<Colour(s)>> \o modify \o <<"nofg">>

printTmuxPs1(nameType, s) ==
  LET modify == CASE nameType = "tag"        -> <<"underline", "reset">>
                  [] nameType = "commitHash" -> <<"reverse", "reset">>
                  [] nameType \in {"none", "branch"} -> <<"", "">>
  IN  <<Colour(s)>> \o modify \o <<"nofg">>

printPs1(promptType, nameType, s) ==
  CASE promptType = "default" -> printDefaultPs1(nameType, s)
    [] promptType = "zsh"     -> printZshPs1(nameType, s)
    [] promptType = "tmux"    -> printTmuxPs1(nameType, s)
    [] promptType = "nocolor" -> <<>>

-----------------------------------------------------------------------------
TypeOK ==
  /\ shm \in [Offsets -> Bytes]
  /\ wpc \in [Refreshers -> {"start", "copy", "done"}]
  /\ wdata \in [Refreshers -> {<<>>} \cup {getGitStatString(c) : c \in Checks}]
  /\ wtodo \in [Refreshers -> SUBSET Offsets]
  /\ rpc \in [Readers -> {"start", "copy", "print", "done"}]
  /\ rdata \in [Readers -> [Offsets -> Bytes]]
  /\ rtodo \in [Readers -> SUBSET Offsets]
  /\ \A r \in Readers : Len(shown[r]) \in {0, 4}
  /\ computed \subseteq Checks
  /\ last \subseteq Checks

Init ==
  /\ shm = [i \in Offsets |-> NUL]
  /\ wpc = [w \in Refreshers |-> "start"]
  /\ wdata = [w \in Refreshers |-> <<>>]
  /\ wtodo = [w \in Refreshers |-> {}]
  /\ rpc = [r \in Readers |-> "start"]
  /\ rdata = [r \in Readers |-> [i \in Offsets |-> NUL]]
  /\ rtodo = [r \in Readers |-> {}]
  /\ shown = [r \in Readers |-> <<>>]
  /\ computed = {}
  /\ last = {Clean}

Refreshing == {w \in Refreshers : wpc[w] = "copy"}

\* Mutants: the copy starts one byte too early, and leaves out the NUL.
WriteBegin_FromZero(w) ==
  /\ wpc[w] = "start"
  /\ Cardinality(Refreshing) < MaxRefreshers
  /\ \E c \in Checks :
       /\ wdata' = [wdata EXCEPT ![w] = getGitStatString(c)]
       /\ wtodo' = [wtodo EXCEPT ![w] = 0 .. Len(getGitStatString(c)) - 1]
       /\ computed' = computed \cup {c}
       /\ last' = IF Refreshing = {} THEN {c} ELSE {}
  /\ wpc' = [wpc EXCEPT ![w] = "copy"]
  /\ UNCHANGED <<shm, rpc, rdata, rtodo, shown>>

WriteBegin_NoNul(w) ==
  /\ wpc[w] = "start"
  /\ Cardinality(Refreshing) < MaxRefreshers
  /\ \E c \in Checks :
       /\ wdata' = [wdata EXCEPT ![w] = getGitStatString(c)]
       /\ wtodo' = [wtodo EXCEPT ![w] = 1 .. Len(getGitStatString(c)) - 1]
       /\ computed' = computed \cup {c}
       /\ last' = IF Refreshing = {} THEN {c} ELSE {}
  /\ wpc' = [wpc EXCEPT ![w] = "copy"]
  /\ UNCHANGED <<shm, rpc, rdata, rtodo, shown>>

\* getGitStatString(), then writeSharedMemory() of strlen + 1 bytes.
WriteBegin(w) ==
  /\ wpc[w] = "start"
  /\ Cardinality(Refreshing) < MaxRefreshers
  /\ \E c \in Checks :
       /\ wdata' = [wdata EXCEPT ![w] = getGitStatString(c)]
       /\ wtodo' = [wtodo EXCEPT ![w] = 1 .. Len(getGitStatString(c))]
       /\ computed' = computed \cup {c}
       /\ last' = IF Refreshing = {} THEN {c} ELSE {}
  /\ wpc' = [wpc EXCEPT ![w] = "copy"]
  /\ UNCHANGED <<shm, rpc, rdata, rtodo, shown>>

\* memcpy() copies one more byte; the last one ends the refresh.
WriteByte(w) ==
  /\ wpc[w] = "copy"
  /\ \E i \in wtodo[w] :
       /\ shm' = [shm EXCEPT ![i] = wdata[w][i]]
       /\ wtodo' = [wtodo EXCEPT ![w] = @ \ {i}]
       /\ wpc' = [wpc EXCEPT ![w] = IF wtodo[w] = {i} THEN "done" ELSE "copy"]
  /\ UNCHANGED <<wdata, rpc, rdata, rtodo, shown, computed, last>>

\* readSharedMemory() of the whole segment.
ReadBegin(r) ==
  /\ rpc[r] = "start"
  /\ rtodo' = [rtodo EXCEPT ![r] = Offsets]
  /\ rpc' = [rpc EXCEPT ![r] = "copy"]
  /\ UNCHANGED <<shm, wpc, wdata, wtodo, rdata, shown, computed, last>>

ReadByte(r) ==
  /\ rpc[r] = "copy"
  /\ \E i \in rtodo[r] :
       /\ rdata' = [rdata EXCEPT ![r][i] = shm[i]]
       /\ rtodo' = [rtodo EXCEPT ![r] = @ \ {i}]
       /\ rpc' = [rpc EXCEPT ![r] = IF rtodo[r] = {i} THEN "print" ELSE "copy"]
  /\ UNCHANGED <<shm, wpc, wdata, wtodo, shown, computed, last>>

ShowPrompt(r) ==
  /\ rpc[r] = "print"
  /\ \E promptType \in PromptTypes, nameType \in NameTypes :
       shown' = [shown EXCEPT ![r] = printPs1(promptType, nameType, rdata[r])]
  /\ rpc' = [rpc EXCEPT ![r] = "done"]
  /\ UNCHANGED <<shm, wpc, wdata, wtodo, rdata, rtodo, computed, last>>

Terminating ==
  /\ \A w \in Refreshers : wpc[w] = "done"
  /\ \A r \in Readers : rpc[r] = "done"
  /\ UNCHANGED vars

Next ==
  \/ \E w \in Refreshers : WriteBegin(w) \/ WriteByte(w)
  \/ \E r \in Readers : ReadBegin(r) \/ ReadByte(r) \/ ShowPrompt(r)
  \/ Terminating

Spec == Init /\ [][Next]_vars

-----------------------------------------------------------------------------
\* The status a reader works with always ends inside the bytes a refresher
\* may write, however the copies interleave: printing never runs on.
StatusEnds == \A r \in Readers : rpc[r] = "print" => rdata[r][4] = NUL

Known == computed \cup {Clean}
ColourOf(c) == Colour(getGitStatString(c))

\* A torn read mixes up red and magenta only: every other colour is one that
\* a refresh computed, and red or magenta still mean "changed".
TornOnlyRedMagenta ==
  \A r \in Readers : shown[r] # <<>> =>
    \E c \in Known : \/ ColourOf(c) = shown[r][1]
                     \/ {ColourOf(c), shown[r][1]} = {"red", "magenta"}

\* When nobody is storing, the segment has the colour of the last status,
\* whatever longer or shorter status it held before, unless two refreshers
\* stored at the same time.
SettledIsLast ==
  Refreshing = {} => \A c \in last : ColourOf(c) = Colour(shm)

Colours == {"red", "magenta", "blue", "yellow", "green"}
Attributes == Colours \cup {"underline", "reverse"}

\* The attributes that a control sequence clears.
Clears(code) ==
  CASE code = "reset" -> Attributes
    [] code = "nofg" -> Colours
    [] code = "nounderline" -> {"underline"}
    [] code = "noreverse" -> {"reverse"}
    [] OTHER -> {}

\* A prompt leaves no colour or decoration behind for what the user types:
\* every attribute that it sets is cleared later in the prompt.
PromptRestoresTerminal ==
  \A r \in Readers : \A i \in 1 .. Len(shown[r]) :
    shown[r][i] \in Attributes =>
      \E j \in i + 1 .. Len(shown[r]) : shown[r][i] \in Clears(shown[r][j])

=============================================================================
