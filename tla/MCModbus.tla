------------------------------ MODULE MCModbus ------------------------------
(* Instances of Modbus for TLC: the tags of one PLC. *)
EXTENDS Modbus, TLC

Patient  == [read |-> {"ok", "slow"}, write |-> {"ok", "error"}]
Lossy    == [read |-> {"ok", "error", "none"}, write |-> {"ok", "error"}]

CONSTANTS t1, t2

AllStay   == [t \in Tags |-> {}]
AllAbort  == [t \in Tags |-> {"aborting"}]
OneLeaves == [t \in Tags |-> IF t = t1 THEN {} ELSE {"destroying"}]

(* What the operations did to a tag's data and status decides no step: the *)
(* states that differ only there are taken together.                       *)
Control ==
  <<[t \in Tags |-> [tag[t] EXCEPT !.status = "OK"]], app, state, lists, cur, slots, seqId, link, faults>>

=============================================================================
