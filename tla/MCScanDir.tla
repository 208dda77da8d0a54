----------------------------- MODULE MCScanDir -----------------------------
(***************************************************************************)
(* An instance of ScanDir for TLC: two entries in the work tree, one of    *)
(* which may be a directory that holds the third.                          *)
(***************************************************************************)
EXTENDS ScanDir

CONSTANTS a, d, b

ThreeNodes == {a, d, b}
ThreePlaces == [n \in ThreeNodes |-> IF n = b THEN d ELSE Root]

AllKinds == {"absent", "file", "dir", "link", "dangling", "submodule"}
Linked == {"absent", "file", "dir", "link"}
=============================================================================
