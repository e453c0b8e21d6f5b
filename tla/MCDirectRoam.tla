---------------------------- MODULE MCDirectRoam ----------------------------
(* DirectRoam for TLC: one receiver at home on site a. *)
EXTENDS DirectRoam

CONSTANTS a, b, c      \* model values: the sites

MCSites      == {a, b, c}
MCReceivers  == {Primary}
MCHomeOf     == [r \in MCReceivers |-> a]
TwoCCAtHome  == [s \in MCSites |-> IF s = a THEN 2 ELSE 1]
PlaceholderC == [s \in MCSites |-> IF s = c THEN 0 ELSE 1]
AllAdjacent  == [s \in MCSites |-> MCSites \ {s}]
=============================================================================
