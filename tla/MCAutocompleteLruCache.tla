------------------------ MODULE MCAutocompleteLruCache ------------------------
(***************************************************************************)
(* Values for AutocompleteLruCache.                                        *)
(***************************************************************************)
EXTENDS AutocompleteLruCache

CONSTANTS w1, k1, v1
===============================================================================
