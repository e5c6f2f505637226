--------------------------- MODULE MCPointerTable ---------------------------
(***************************************************************************)
(* Four objects and two slots, so that two objects may look for a slot     *)
(* while the table is full; the counter overflows after four numbers.      *)
(***************************************************************************)
EXTENDS PointerTable

CONSTANTS o1, o2, o3, o4

Objects == {o1, o2, o3, o4}
=============================================================================
