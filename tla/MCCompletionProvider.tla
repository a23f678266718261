------------------------ MODULE MCCompletionProvider ------------------------
(***************************************************************************)
(* Instances of CompletionProvider for TLC.                                *)
(***************************************************************************)
EXTENDS CompletionProvider

CONSTANTS r1, r2, r3, x, nl

\* A text, and the same with one character more.
Typing == {<<x>>, <<x, x>>}
=============================================================================
