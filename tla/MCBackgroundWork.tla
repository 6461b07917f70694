------------------------- MODULE MCBackgroundWork -------------------------
(* Small instances of BackgroundWork for TLC. *)
EXTENDS BackgroundWork

\* Local files and semantic indexing with two workers; local files alone; nothing.
Both == [local |-> TRUE, semantic |-> TRUE, workers |-> 2]
LocalOnly == [Both EXCEPT !.semantic = FALSE]
Off == [LocalOnly EXCEPT !.local = FALSE]
OnOff == {Both, Off}
OnlyBoth == {Both}
LocalOrOff == {LocalOnly, Off}

\* Nothing is left over, or one location to verify, or one vector to compute.
Nothing == {None}
OneLocation == {None, [None EXCEPT !["content_verification"] = 1]}
OneVector == {[None EXCEPT !["embeddings"] = 1]}
===========================================================================
