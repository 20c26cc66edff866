--------------------------- MODULE ModbusPlcList ----------------------------
(***************************************************************************)
(* The list of Modbus PLCs (modbus.c), and ListSpec, a list of any of the  *)
(* three kinds.  A PLC is what a session is in SessionList; here the whole *)
(* search is one block under mb_mutex that releases no reference, there is *)
(* no mark for a PLC that did not start, and mb_teardown() marks nothing.  *)
(***************************************************************************)
EXTENDS OmronConnList

VARIABLE kind   \* "ab", "omron" or "modbus"
listVars == <<vars, kind>>

Wanted(s, t) == Key[s] = Key[t]

(* find_or_create_plc() finds a PLC that somebody holds. *)
FindPlc(t) ==
  /\ pc[t] = "start" /\ teardown = "idle"
  /\ \E s \in ToSet(list) :
       /\ Wanted(s, t) /\ count[s] > 0
       /\ count' = [count EXCEPT ![s] = @ + 1]
       /\ sess' = [sess EXCEPT ![t] = s]
  /\ pc' = [pc EXCEPT ![t] = "using"]
  /\ UNCHANGED <<lock, list, mem, handler, terminating, failed, at, cand, teardown, passed>>

(* It finds one whose last holder has left and which is not off the list   *)
(* yet: rc_inc() gives NULL, the function OK, and mb_tag_create() takes    *)
(* the mutex of no PLC, which ends the program.                            *)
FindDyingPlc(t) ==
  /\ pc[t] = "start" /\ teardown = "idle"
  /\ \E s \in ToSet(list) : Wanted(s, t) /\ count[s] = 0
  /\ pc' = [pc EXCEPT ![t] = "crashed"]
  /\ UNCHANGED <<lock, list, sessions, places, teardown, passed>>

(* It finds none, and puts a new one in front of the list. *)
CreatePlc(t) ==
  /\ pc[t] = "start" /\ teardown = "idle"
  /\ \A s \in ToSet(list) : ~Wanted(s, t)
  /\ mem' = [mem EXCEPT ![t] = "alive"]
  /\ count' = [count EXCEPT ![t] = 1]
  /\ list' = <<t>> \o list
  /\ sess' = [sess EXCEPT ![t] = t]
  /\ pc' = [pc EXCEPT ![t] = "init"]
  /\ UNCHANGED <<lock, handler, terminating, failed, at, cand, teardown, passed>>

(* No memory or no mutex for it: it is freed before it is listed. *)
CreatePlcFail(t) ==
  /\ pc[t] = "start" /\ teardown = "idle" /\ Failures
  /\ \A s \in ToSet(list) : ~Wanted(s, t)
  /\ pc' = [pc EXCEPT ![t] = "gone"]
  /\ UNCHANGED <<lock, list, sessions, places, teardown, passed>>

(* The handler thread is created; a failure leaves no mark on the PLC. *)
InitPlc(t) == Start(t) \/ StartFailQuiet(t)

(* modbus_plc_destructor() *)
DestroyPlc(t) == RemoveSession(t) \/ Free(t)

(* Nothing happens after a crash. *)
Alive == \A t \in Tags : pc[t] # "crashed"

PlcInside(t) == Alive /\ (InitPlc(t) \/ GiveUp(t) \/ DestroyPlc(t))
PlcNext ==
  /\ Alive
  /\ \/ \E t \in Tags : \/ FindPlc(t) \/ FindDyingPlc(t) \/ CreatePlc(t) \/ CreatePlcFail(t)
                        \/ PlcInside(t) \/ Leave(t) \/ HandlerExit(t)
     \/ Shutdown \/ ConnTeardown

-----------------------------------------------------------------------------
(* A list of any kind *)

ListInit == Init /\ kind \in {"ab", "omron", "modbus"}

ListNext ==
  /\ \/ kind = "ab" /\ Next
     \/ kind = "omron" /\ ConnNext
     \/ kind = "modbus" /\ PlcNext
  /\ UNCHANGED kind

ListInside(t) ==
  /\ \/ kind # "modbus" /\ Inside(t)
     \/ kind = "modbus" /\ PlcInside(t)
  /\ UNCHANGED kind

ListTeardown ==
  /\ \/ kind = "ab" /\ (MarkAll \/ TeardownEnd)
     \/ kind # "ab" /\ Alive /\ ConnTeardown
  /\ UNCHANGED kind

(* The fairness of SessionList *)
ListSpec ==
  /\ ListInit /\ [][ListNext]_listVars
  /\ \A t \in Tags : /\ WF_listVars(ListInside(t))
                     /\ WF_listVars(Alive /\ HandlerExit(t) /\ UNCHANGED kind)
                     /\ WF_listVars(Alive /\ teardown # "idle" /\ Leave(t) /\ UNCHANGED kind)
  /\ WF_listVars(ListTeardown)

(* A tag never stays with a session or connection that nobody serves and   *)
(* that does not count as failed (SessionList.tla).  A Modbus PLC whose    *)
(* thread was not created has no mark, so its tags are not included.       *)
ServedOrMarked == kind # "modbus" => UsersServed

(* The teardown returns unless a crash has ended the program. *)
ListTeardownReturns == []Alive => TeardownReturns

(* modbus.c:506-509 expects that rc_inc() may give NULL for the PLC that   *)
(* was found: a tag still gets a PLC or an error.                          *)
PlcOrError == Alive

=============================================================================
