------------------------------ MODULE MCGitPs1 ------------------------------
(***************************************************************************)
(* Instances of GitPs1 for TLC.                                            *)
(***************************************************************************)
EXTENDS GitPs1Cache, TLC

ParentOnly == {"parent"}
ChildOnly == {"child"}
Nobody == {}
AllRoles == Roles

RefreshOnly == {"refresh"}
Prompts == {"refresh", "readonly"}
WithClean == {"refresh", "clean"}
Cached == {"refresh", "readonly", "nocache"}
AllModes == {"refresh", "readonly", "clean", "nocache"}

\* Runs are interchangeable, and so are statuses: nothing orders them.
RunSymmetry == Permutations(Runs) \cup Permutations(Statuses)
=============================================================================
