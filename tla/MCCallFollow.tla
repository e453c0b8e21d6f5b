---------------------------- MODULE MCCallFollow ----------------------------
(* CallFollow for TLC: one site, t1 before t2 in priority. *)
EXTENDS CallFollow

CONSTANTS a, t1, t2      \* model values

MCSites      == {a}
TwoReceivers == {1, 2}
MCHomeOf     == [r \in Receivers |-> a]
OneCC        == [s \in MCSites |-> 1]
MCPrio       == [t \in Tgids |-> IF t = t1 THEN 1 ELSE 2]
=============================================================================
