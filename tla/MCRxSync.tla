------------------------------ MODULE MCRxSync ------------------------------
(* RxSync for TLC: MODE_DATA scaled down, the order of its lengths kept. *)
EXTENDS RxSync

MCMode ==
    [ t \in Types |->
        CASE t = "NONE"  -> [half |-> 0, offset |-> 0, frag |-> 0, life |-> 0]
          [] t = "P25P1" -> [half |-> 1, offset |-> 0, frag |-> 2, life |-> 6]
          [] t = "P25P2" -> [half |-> 1, offset |-> 0, frag |-> 2, life |-> 3]
          [] t = "DMR"   -> [half |-> 1, offset |-> 1, frag |-> 2, life |-> 3]
          [] OTHER       -> [half |-> 1, offset |-> 0, frag |-> 2, life |-> 3] ]

MCBodyLen == [LDU |-> 4, TSBK |-> 1]
=============================================================================
