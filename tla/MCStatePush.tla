----------------------------- MODULE MCStatePush ----------------------------
(* StatePush for TLC: two sites. *)
EXTENDS StatePush

CONSTANTS a, b      \* model values

MCSites == {a, b}
=============================================================================
