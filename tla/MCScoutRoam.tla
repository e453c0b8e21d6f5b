---------------------------- MODULE MCScoutRoam -----------------------------
(* ScoutRoam for TLC: three sites, one primary at home on site a, a scout. *)
EXTENDS ScoutRoam

CONSTANTS a, b, c      \* model values: the sites

MCSites      == {a, b, c}
MCReceivers  == {Primary, Scout}
MCHomeOf     == [r \in MCReceivers |-> IF r = Primary THEN a ELSE NoSite]
OneCC        == [s \in MCSites |-> 1]
Ring         == [s \in MCSites |-> IF s = a THEN {b} ELSE IF s = b THEN {c} ELSE {a}]
AllAdjacent  == [s \in MCSites |-> MCSites \ {s}]
=============================================================================
