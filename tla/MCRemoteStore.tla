--------------------------- MODULE MCRemoteStore ---------------------------
(***************************************************************************)
(* Constants for the model checking of RemoteStore: put p1 stores block b1 *)
(* and every other put stores b2.  The workers are interchangeable.        *)
(***************************************************************************)
EXTENDS RemoteStore, TLC

CONSTANTS p1, b1, b2

MCHash == [p \in Put |-> IF p = p1 THEN b1 ELSE b2]

Symmetry == Permutations(Worker)
=============================================================================
