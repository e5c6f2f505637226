--------------------------- MODULE MCBlockFetch ---------------------------
(* Gets and blocks for checking BlockFetch.                                *)
EXTENDS BlockFetch

CONSTANTS g1, g2, g3, \* gets
          b1, b2      \* blocks

MCGet == {g1, g2, g3}
MCBlock == {b1, b2}

\* One get of b1 and two of b2.
MCBlockOf == [g \in MCGet |-> IF g = g1 THEN b1 ELSE b2]

===========================================================================
