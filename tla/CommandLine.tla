---------------------------- MODULE CommandLine ----------------------------
(***************************************************************************)
(* parseArguments() of git-ps1 (native/git-ps1/main.c): what the options   *)
(* of a command line make of CmdParam, and the numbers of tryParseInt().   *)
(* A character is its ASCII code. getopt_long() is external: it has split  *)
(* the command line into options, and operands are not looked at.          *)
(***************************************************************************)
EXTENDS Integers, Sequences

CONSTANTS
  NoArg,    \* no argument, or NULL
  IntMax,   \* INT_MAX
  LongMax   \* LONG_MAX

ASSUME CommandLineAssumption ==
  IntMax \in Nat /\ LongMax \in Nat /\ IntMax <= LongMax

EINVAL == 22
ERANGE == 34

-----------------------------------------------------------------------------
(* Numbers.                                                                *)

Spaces == {9, 10, 11, 12, 13, 32}
Digits == 48 .. 57
Plus == 43
Minus == 45

\* How many of the first characters of str are in chars.
Prefix(str, chars) ==
  CHOOSE n \in 0 .. Len(str) :
    /\ \A i \in 1 .. n : str[i] \in chars
    /\ n < Len(str) => str[n + 1] \notin chars

Drop(str, n) == SubSeq(str, n + 1, Len(str))

skipSpace(str) == Drop(str, Prefix(str, Spaces))

\* The value of the first n digits of str.
Number(str, n) ==
  LET value[i \in 0 .. n] == IF i = 0 THEN 0 ELSE 10 * value[i - 1] + str[i] - 48
  IN  value[n]

\* strtol(): the number at the start of str and what follows it, which is str
\* where there is no number.
strtol(str) ==
  LET signed == str[1] \in {Plus, Minus}
      body == IF signed THEN Tail(str) ELSE str
      n == Prefix(body, Digits)
  IN  IF n = 0 THEN [value |-> 0, rest |-> str]
      ELSE [value |-> IF str[1] = Minus THEN -Number(body, n) ELSE Number(body, n),
            rest |-> Drop(body, n)]

Failed(errno) == [errno |-> errno, value |-> 0]

\* Mutant: what follows the number is not looked at.
tryParseInt_Rest(numstr) ==
  LET str == skipSpace(numstr)
      n == strtol(str).value
  IN  IF str = <<>> THEN Failed(EINVAL)
      ELSE IF n > IntMax \/ n < -IntMax - 1 THEN Failed(ERANGE)
      ELSE [errno |-> 0, value |-> n]

tryParseInt(numstr) ==
  LET str == skipSpace(numstr)
      n == strtol(str).value
      beyond(limit) == n > limit \/ n < -limit - 1
  IN  IF str = <<>> THEN Failed(EINVAL)
      ELSE IF beyond(LongMax) THEN Failed(ERANGE)
      ELSE IF skipSpace(strtol(str).rest) # <<>> THEN Failed(EINVAL)
      ELSE IF beyond(IntMax) THEN Failed(ERANGE)
      ELSE [errno |-> 0, value |-> n]

-----------------------------------------------------------------------------
(* Options: [dashes |-> 1 or 2, name |-> its name, arg |-> its argument or   *)
(* NoArg]. The short form of an option has the name of the long one.       *)

ShortOptions == {"clean", "workdir", "help", "read", "version", "wait",
                 "no-color", "zsh", "tmux"}
LongOptions == {"clean", "help", "no-cache", "read", "version", "wait",
                "no-color", "zsh", "tmux"}
WithArgument == {"workdir", "wait"}

\* getopt_long() finds the option in its table, with an argument if it must
\* have one. The string of short options has no n.
Recognised(o) ==
  /\ o.name \in IF o.dashes = 1 THEN ShortOptions ELSE LongOptions
  /\ (o.arg # NoArg) <=> o.name \in WithArgument

kDefaultWaitTime == 200
DefaultParam ==
  [waitTime |-> kDefaultWaitTime, workDir |-> NoArg, doReflesh |-> FALSE,
   doReadOnly |-> FALSE, noCache |-> FALSE, promptType |-> "no-color"]

\* The option ends the program, with exit status Exit(o).
Stops(o) ==
  \/ ~Recognised(o)
  \/ o.name \in {"help", "version"}
  \/ o.name = "wait" /\ tryParseInt(o.arg).errno # 0

Exit(o) ==
  IF ~Recognised(o) THEN EINVAL
  ELSE IF o.name \in {"help", "version"} THEN 0 ELSE tryParseInt(o.arg).errno

\* What any other option makes of the parameters.
Apply(o, param) ==
  CASE o.name = "clean" -> [param EXCEPT !.doReflesh = TRUE]
    [] o.name = "workdir" -> [param EXCEPT !.workDir = o.arg]
    [] o.name = "no-cache" -> [param EXCEPT !.noCache = TRUE]
    [] o.name = "read" -> [param EXCEPT !.doReadOnly = TRUE]
    [] o.name = "wait" -> [param EXCEPT !.waitTime = tryParseInt(o.arg).value]
    [] OTHER -> [param EXCEPT !.promptType = o.name]

-----------------------------------------------------------------------------
(* The reference: what a command line says, read as a whole, after the text *)
(* of showUsage() and the comments at the cases of parseArguments().       *)

\* The digits of v, leading zeros allowed: dividing v by ten again and again
\* leaves them as remainders, the last digit first.
Written(digits, v) ==
  LET n == Len(digits)
      left[i \in 0 .. n] == IF i = 0 THEN v ELSE left[i - 1] \div 10
  IN  n > 0 /\ left[n] = 0 /\ \A i \in 1 .. n : digits[n + 1 - i] = 48 + (left[i - 1] % 10)

\* str is white space, perhaps a sign, the digits of v and white space.
Denotes(str, v) ==
  \E a, c \in 0 .. Len(str) :
    /\ \A i \in (1 .. a) \cup (c + 1 .. Len(str)) : str[i] \in Spaces
    /\ \/ v >= 0 /\ Written(SubSeq(str, a + 1, c), v)
       \/ a < c /\ str[a + 1] = Plus /\ v >= 0 /\ Written(SubSeq(str, a + 2, c), v)
       \/ a < c /\ str[a + 1] = Minus /\ v <= 0 /\ Written(SubSeq(str, a + 2, c), -v)

Number_OK(str) == \E v \in -IntMax - 1 .. IntMax : Denotes(str, v)

\* The positions of the options with one of the names, and the last of them.
Given(argv, names) == {i \in 1 .. Len(argv) : argv[i].name \in names}
Last(positions) == CHOOSE i \in positions : \A j \in positions : j <= i

\* The parameters of a command line that ends normally: a switch is on if it
\* was given, and of several values the last one counts. Without --wait the
\* wait time is the one the program starts with: it is 200, the usage text has
\* 1000.
Means(argv, param) ==
  /\ param.doReflesh = (Given(argv, {"clean"}) # {})
  /\ param.doReadOnly = (Given(argv, {"read"}) # {})
  /\ param.noCache = (Given(argv, {"no-cache"}) # {})
  /\ LET w == Given(argv, {"workdir"})
     IN  param.workDir = IF w = {} THEN NoArg ELSE argv[Last(w)].arg
  /\ LET w == Given(argv, {"wait"})
     IN  IF w = {} THEN param.waitTime = DefaultParam.waitTime
                   ELSE Denotes(argv[Last(w)].arg, param.waitTime)
  /\ LET w == Given(argv, {"no-color", "zsh", "tmux"})
     IN  param.promptType = IF w = {} THEN "no-color" ELSE argv[Last(w)].name

\* The options that are written about, with an argument where one is named.
Documented(o) ==
  CASE o.name \in {"clean", "help", "no-cache", "read", "version"} -> o.arg = NoArg
    [] o.name = "wait" -> o.arg # NoArg
    [] o.name = "workdir" -> o.dashes = 1 /\ o.arg # NoArg
    [] o.name \in {"no-color", "zsh", "tmux"} -> o.dashes = 2 /\ o.arg = NoArg
    [] OTHER -> FALSE

\* Where the program and its words differ: -n is not accepted, and the control
\* characters 1 to 3 are, as short forms of three long options.
Disputed(o) == o.dashes = 1 /\ o.name \in {"no-cache", "no-color", "zsh", "tmux"}

\* An option that ends the program, as the reference sees it.
Ending(o) ==
  \/ ~Documented(o)
  \/ o.name \in {"help", "version"}
  \/ o.name = "wait" /\ ~Number_OK(o.arg)
=============================================================================
