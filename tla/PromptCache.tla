---------------------------- MODULE PromptCache ----------------------------
(***************************************************************************)
(* What git-ps1 promises to the shells that call it for one repository     *)
(* ("a utility that caches Git status in shared memory and retrieves it"): *)
(* there is one cached status; a run asks once and is answered at most     *)
(* once, with the status that is cached at that moment or, when it was     *)
(* told to go without the cache, with a status of its own; and a run that  *)
(* is served fairly ends.  How a status comes into the cache is left open. *)
(***************************************************************************)
CONSTANTS Runs, Statuses, Blank, None

VARIABLES
  cell,    \* the cached status, Blank before the first one
  state,   \* state[r]: "asked" or "ended"
  answer   \* answer[r]: the status that run r shows, or None

vars == <<cell, state, answer>>

Init ==
  /\ cell = Blank
  /\ state = [r \in Runs |-> "asked"]
  /\ answer = [r \in Runs |-> None]

Store ==
  /\ cell' \in Statuses
  /\ UNCHANGED <<state, answer>>

Answer(r) ==
  /\ state[r] = "asked" /\ answer[r] = None
  /\ answer' = [answer EXCEPT ![r] = cell]
  /\ UNCHANGED <<cell, state>>

AnswerUncached(r) ==
  /\ state[r] = "asked" /\ answer[r] = None
  /\ \E v \in Statuses : answer' = [answer EXCEPT ![r] = v]
  /\ state' = [state EXCEPT ![r] = "ended"]
  /\ UNCHANGED cell

End(r) ==
  /\ state[r] = "asked"
  /\ state' = [state EXCEPT ![r] = "ended"]
  /\ UNCHANGED <<cell, answer>>

Serve(r) == Answer(r) \/ AnswerUncached(r) \/ End(r)

Next == Store \/ \E r \in Runs : Serve(r)

Safety == Init /\ [][Next]_vars

\* Run r is answered, if it is, and ends.
Served(r) == WF_vars(Serve(r))

=============================================================================
