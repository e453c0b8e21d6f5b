--------------------------- MODULE MCSystemTables ----------------------------
(* SystemTables for TLC: two addresses, the two local units that own them, *)
(* and a roaming unit; two talkgroups, one of them in the tag set.         *)
EXTENDS SystemTables

CONSTANTS u1, u2, u3, w1, w2, t1, t2      \* model values

MCLocal == [w \in Addrs |-> IF w = w1 THEN u1 ELSE u2]
=============================================================================
