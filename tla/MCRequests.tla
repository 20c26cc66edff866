----------------------------- MODULE MCRequests -----------------------------
(* Two protocols' requests for TLC, in one run: "slots", those of the tags *)
(* of a Modbus PLC, and "calls", those that two application threads cause  *)
(* on one CIP tag.  "look" chooses one; the other stays in one initial     *)
(* state.  The CIP tag comes with the theorems about it.                   *)
EXTENDS MCModbus

CONSTANTS Clients, CipCalls, Answers, Fragments, Builds, Connected, CipAutoRead, AutoWrite,
          Timeouts

VARIABLES look, cipTag, cond, pc, call, rc, answered

Ops == INSTANCE TagOpsProofs WITH tag <- cipTag, Calls <- CipCalls, AutoRead <- CipAutoRead

ASSUME OpsAssumption == /\ Ops!CallAssumption /\ Ops!AnswerAssumption
                        /\ Ops!SizeAssumption /\ Ops!ModeAssumption

opsVars  == <<cipTag, cond, pc, call, rc, answered>>
lookVars == <<look, vars, opsVars>>

LookInit ==
  /\ look \in {"slots", "calls"}
  /\ Init /\ Ops!Init
  /\ look = "slots" => \A c \in Clients : pc[c] = "idle"
  /\ look = "calls" => todo = CHOOSE s \in SetToSeqs(Tags) : TRUE

LookNext ==
  /\ UNCHANGED look
  /\ \/ look = "slots" /\ Next /\ UNCHANGED opsVars
     \/ look = "calls" /\ Ops!Next /\ UNCHANGED vars

LookSpec == LookInit /\ [][LookNext]_lookVars

(* What decides the steps: in TagOps neither the data nor the local result *)
(* codes nor the ghost do.                                                 *)
LookControl ==
  IF look = "slots" THEN <<look, Control>>
                    ELSE <<look, [cipTag EXCEPT !.data = "plc"], cond, pc, call>>

(* TagOps.tla: a request and the flags of its operation stay together. *)
RequestFits == Ops!RequestFits

=============================================================================
