------------------------------ MODULE MCTagUse ------------------------------
(* Four uses of tags that have nothing to do with each other, in one run:  *)
(* "calls", a thread alone on a tag whose PLC refuses nothing; "auto", one *)
(* that only sets data, on a tag that is written automatically; "modbus",  *)
(* two Modbus tags that are read automatically; and "end",                 *)
(* plc_tag_shutdown() among the threads of TagTable.  "use" chooses one;   *)
(* the others stay in one initial state.  The tags of "modbus" are alike,  *)
(* so that one order of them in the PLC's list is enough.                  *)
EXTENDS TagOps

CONSTANTS Callers, Tickler, Tags, NoTag, TagIdMask, MaxAttempts, StartId, EarlyHandles,
          Size, RequestPayload, ResponsePayload, MaxInFlight, SeqIds, MaxWire, MaxFaults

VARIABLES use, mem, count, table, tagId, nextId, published, tablePc, ptr, doomed, todo,
          terminating, libUp,
          mbTag, app, moved, state, mbTodo, active, idle, cur, slots, seqId, out, in, ready,
          wire, faults

Auto   == INSTANCE TagOps WITH Calls <- {"read", "set"}, Answers <- {"good", "refused"},
                               Fragments <- 2, AutoWrite <- TRUE, Timeouts <- FALSE
Table  == INSTANCE TagTable WITH Clients <- Callers, pc <- tablePc
Modbus == INSTANCE Modbus WITH tag <- mbTag, todo <- mbTodo, ReadOnly <- {}, Kinds <- {},
            Outcomes <- [read |-> {"ok", "slow"}, write |-> {"ok", "error"}],
            SeqWraps <- TRUE, AutoRead <- TRUE, Calls <- [t \in Tags |-> {}]

tableVars  == <<mem, count, table, tagId, nextId, published, tablePc, ptr, doomed, todo,
                terminating, libUp>>
modbusVars == <<mbTag, app, moved, state, mbTodo, active, idle, cur, slots, seqId, out, in, ready,
                wire, faults>>
useVars    == <<use, vars, tableVars, modbusVars>>

UseInit ==
  /\ use \in {"calls", "auto", "modbus", "end"}
  /\ Init /\ Table!Init /\ Modbus!Init
  /\ use \notin {"calls", "auto"} => \A c \in Clients : pc[c] = "idle"
  /\ mbTodo = CHOOSE s \in Modbus!SetToSeqs(Tags) : TRUE

Using(u) ==
  /\ use = u /\ UNCHANGED use
  /\ u \notin {"calls", "auto"} => UNCHANGED vars
  /\ u # "modbus" => UNCHANGED modbusVars
  /\ u # "end" => UNCHANGED tableVars

UseNext ==
  \/ Using("calls") /\ Next
  \/ Using("auto") /\ Auto!Next
  \/ Using("modbus") /\ Modbus!Next
  \/ Using("end") /\ Table!Next

(* The fairness of the four specifications *)
UseFairness ==
  /\ WF_useVars(\/ Using("calls") /\ \E b \in Builds : Tick(TRUE, b)
                \/ Using("auto") /\ \E b \in Builds : Auto!Tick(TRUE, b))
  /\ WF_useVars(\/ Using("calls") /\ \E answer \in Answers : Respond(answer)
                \/ Using("auto") /\ \E answer \in {"good", "refused"} : Auto!Respond(answer))
  /\ \A c \in Clients : WF_useVars(\/ Using("calls") /\ Finish(c)
                                   \/ Using("auto") /\ Auto!Finish(c))
  /\ WF_useVars(Using("modbus") /\ Modbus!Handler)
  /\ SF_useVars(Using("modbus") /\ Modbus!Progress)
  /\ \A t \in Callers : WF_useVars(Using("end") /\ (Table!ClientStep(t) \/ Table!ShutdownStep(t)))
  /\ WF_useVars(Using("end") /\ (Table!Release(Tickler) \/ Table!Cleanup(Tickler)))
  /\ SF_useVars(Using("end") /\ Table!TicklerStop)

UseSpec == UseInit /\ [][UseNext]_useVars /\ UseFairness

(* TagOps.tla: a synchronous call that returns OK has read the tag, as     *)
(* long as the PLC refuses nothing, or has written it.                     *)
CallsMeanDone == (use = "calls" => OkMeansRead) /\ OkMeansWritten

(* TagOps.tla: waits end, if nothing is aborted and no wait runs out.      *)
(* Operations end, of a CIP tag if moreover requests can be built and      *)
(* replies are accepted, and the automatic reads of two Modbus tags, over  *)
(* one fault, with three request slots and no calls (Unaided).             *)
WaitsEnd      == use \in {"calls", "auto"} => WaitEnds
OperationsEnd == /\ use \in {"calls", "auto"} => OperationEnds
                 /\ use = "modbus" => Modbus!OperationEnds

(* TagTable.tla: plc_tag_shutdown() returns. *)
ShutdownReturns == Table!ShutdownReturns

(* Modbus.tla: a read that ends with OK has moved the whole tag.           *)
OkMovesAll == Modbus!OkMovesAll

=============================================================================
