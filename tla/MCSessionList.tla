--------------------------- MODULE MCSessionList ---------------------------
(* A list of sessions of any kind for TLC: one tag of PLC "b", the         *)
(* others of PLC "a".                                                      *)
EXTENDS ModbusPlcList

CONSTANTS t1, t2, t3
TwoPlcs == [t \in Tags |-> IF t = t2 THEN "b" ELSE "a"]

=============================================================================
