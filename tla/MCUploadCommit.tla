--------------------------- MODULE MCUploadCommit ---------------------------
(* Small instances of UploadCommit for TLC. *)
EXTENDS UploadCommit, TLC

CONSTANTS d1, a1, a2, c1, c2

\* One device and one source identity of one chunk: sessions compete for the
\* identity, another program holds the base path with the same bytes.
OwnerOne == a1 :> d1
SizeOne == a1 :> 1
BaseOne == a1 :> <<7>>
ForeignOne == {[path |-> <<7>>, data |-> <<c1>>]}

Symmetric == Permutations(Request) \cup Permutations(UploadId)

\* One source identity of two chunks.
SizeLong == a1 :> 2

NoForeign == {}
=============================================================================
