----------------------------- MODULE MCChunkIndex -----------------------------
(***************************************************************************)
(* Instances of ChunkIndex for TLC.                                        *)
(***************************************************************************)
EXTENDS ChunkIndex, MCRefreshIndex

\* Both contents of the first file are one chunk, that of the second is two.
OneOrTwoChunks == [c \in Contents \cup {None} |->
                     CASE c = None -> 0 [] c = b1 -> 2 [] OTHER -> 1]

\* The first content has two.
TwoChunks == [c \in Contents \cup {None} |->
                CASE c = None -> 0 [] c = a1 -> 2 [] OTHER -> 1]
===============================================================================
