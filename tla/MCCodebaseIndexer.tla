-------------------------- MODULE MCCodebaseIndexer --------------------------
(***************************************************************************)
(* Instances of CodebaseIndexer for TLC.  Calls named d are directory      *)
(* refreshes, calls named f refresh single files.                          *)
(***************************************************************************)
EXTENDS CodebaseIndexer, TLC

CONSTANTS w1, w2, d1, d2, f1

\* Every window runs one directory refresh.
OneEach == [c \in Calls |-> IF c = d2 THEN w2 ELSE w1]

\* All calls run in the first window.
OneWindow == [c \in Calls |-> w1]

\* Then the directory refreshes are alike.
AlikeRefreshes == Permutations(DirCalls)
=============================================================================
