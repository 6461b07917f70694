---------------------------- MODULE MCLocalMedia ----------------------------
(* Small instances of LocalMedia for TLC. *)
EXTENDS LocalMedia, TLC

\* One directory; every version of a file holds the same pictures.
OneDirectory == [p \in Path |-> "dir"]
OneContent == [f \in File |-> CHOOSE c \in Content : TRUE]

Symmetric == Permutations(File) \cup Permutations(Root)
=============================================================================
