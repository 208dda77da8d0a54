---------------------------- MODULE GitPs1Cache ----------------------------
(***************************************************************************)
(* GitPs1 implements PromptCache as long as nobody cleans: the segment     *)
(* that the key names is the cache, what a parent copied out of it is the  *)
(* answer of its run.                                                      *)
(***************************************************************************)
EXTENDS GitPs1

cachedStatus == IF shmKey = None THEN Blank ELSE shmVal[shmKey]

runState == [r \in Runs |-> IF pc[Parent(r)] \in Ended THEN "ended" ELSE "asked"]

answerOf == [r \in Runs |-> buf[Parent(r)]]

Cache == INSTANCE PromptCache
           WITH cell <- cachedStatus, state <- runState, answer <- answerOf

\* Every run answers from the one segment of its repository, at most once,
\* and ends, however children, signals and polling interleave, unless a git
\* command of its own keeps it for ever.
ImplementsPromptCache ==
  Cache!Safety /\ \A r \in Runs : <>[]InGit(r) \/ Cache!Served(r)

=============================================================================
