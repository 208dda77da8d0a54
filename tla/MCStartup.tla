----------------------------- MODULE MCStartup -----------------------------
(***************************************************************************)
(* Instances of Startup for TLC. INT_MAX is 12 and LONG_MAX is 99.         *)
(***************************************************************************)
EXTENDS Startup, TLC

\* Any injective function will do.
HashValue == [x \in Paths \X Kinds |-> x]
PathSymmetry == Permutations(Paths)

FileNumbers == 0 .. 2

opt(dashes, name, arg) == [dashes |-> dashes, name |-> name, arg |-> arg]

\* "5", " -13 ", "+012", "", " ", "-", "1x", "13", "100", "--1", "- 1"
Texts == {<<53>>, <<32, 45, 49, 51, 9>>, <<43, 48, 49, 50>>, <<>>, <<32>>, <<45>>,
          <<49, 120>>, <<49, 51>>, <<49, 48, 48>>, <<45, 45, 49>>, <<45, 32, 49>>}

Waits == {opt(1, "wait", s) : s \in Texts}
Dirs == {opt(1, "workdir", d) : d \in Paths \cup {Plain}}
Modes == {opt(1, "clean", NoArg), opt(1, "read", NoArg), opt(2, "no-cache", NoArg)}
Others == {opt(2, "zsh", NoArg), opt(2, "tmux", NoArg), opt(2, "help", NoArg),
           opt(1, "no-cache", NoArg), opt(1, "workdir", NoArg),
           opt(1, "wait", <<53>>), opt(2, "wait", <<49, 120>>)}

Pairs(os, ps) == {<<o, p>> : o \in os, p \in ps}

\* Runs with one option or two, then runs in any mode.
CommandLines ==
  <<{<<o>> : o \in Waits} \cup Pairs(Dirs, Dirs \cup Modes) \cup Pairs(Modes, Modes)
       \cup Pairs(Others, Others)>>
    \o [n \in 1 .. MaxRuns |-> {<<>>} \cup {<<o>> : o \in Dirs \cup Modes}]
=============================================================================
