--------------------------- MODULE MCIndexRebuild ---------------------------
(* Three block names and two clients: a whole and a partial batch.         *)
EXTENDS IndexRebuild, TLC

CONSTANTS b1, b2, n1, n2, n3

\* n3 is the name of a block that nobody writes; it may hold a copy of another.
MCBlock == {b1, b2}
MCName == {n1, n2, n3}
MCPathOf == b1 :> n1 @@ b2 :> n2
=============================================================================
