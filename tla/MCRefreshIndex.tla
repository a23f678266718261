--------------------------- MODULE MCRefreshIndex ---------------------------
(***************************************************************************)
(* Instances of RefreshIndex for TLC.                                      *)
(***************************************************************************)
EXTENDS RefreshIndex, TLC

CONSTANTS p1, p2, a1, a2, b1, m, n, j1, j2, j3, j4

\* Different files never have the same content.
Distinct == [p \in Paths |-> IF p = p1 THEN {a1, a2} ELSE {b1}]

\* Both files may have the same content.
Shared == [p \in Paths |-> Contents]

\* The whole directory each time, or the first file in the second run.
WholeDirectory == [j \in Jobs |-> None]
OneFileSecond == [j \in Jobs |-> IF j = j2 THEN p1 ELSE None]

\* Runs over the whole directory are alike, and so are the branches.
JobSymmetry == Permutations(Jobs) \cup Permutations(Branches)

\* With Distinct, the contents of the first file are alike too.
DistinctSymmetry == JobSymmetry \cup Permutations({a1, a2})

\* ChunkCodebaseIndex, FullTextSearchCodebaseIndex and LanceDbIndex.
ChunkOrder == [l \in Lists |-> CASE l = "compute" -> 1 [] l = "addTag" -> 2
                                 [] l = "removeTag" -> 3 [] l = "del" -> 4]

\* CodeSnippetsCodebaseIndex
SnippetOrder == [l \in Lists |-> CASE l = "compute" -> 1 [] l = "del" -> 2
                                   [] l = "addTag" -> 3 [] l = "removeTag" -> 4]
=============================================================================
