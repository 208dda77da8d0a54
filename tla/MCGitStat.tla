------------------------------ MODULE MCGitStat ------------------------------
(***************************************************************************)
(* Instances of GitStat for TLC: errno is 0, or left over from a failed    *)
(* call (2 is ENOENT).                                                     *)
(***************************************************************************)
EXTENDS GitStat

ErrnoValues == {0, 2}
BothBuilds == BOOLEAN

\* One commit, with both files.
OneCommit == {[x \in Files |-> CHOOSE v \in Contents : TRUE]}

\* A plain work tree, and one where files are hard to see and scanDir() may come
\* to files that git does not look for.
PlainAndNot ==
  LET one == CHOOSE x \in Files : TRUE
  IN  {[dangling |-> {}, unreadable |-> {}, foreign |-> FALSE],
       [dangling |-> {one}, unreadable |-> Files \ {one}, foreign |-> TRUE]}

=============================================================================
