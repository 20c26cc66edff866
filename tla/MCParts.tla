------------------------------- MODULE MCParts -------------------------------
(* Four parts that have nothing to do with each other, in one run: the     *)
(* table of handles, the buffer of a tag, a session's thread and a PLC's   *)
(* socket.  "part" chooses one; the others stay in one initial state.      *)
EXTENDS HashTable

CONSTANTS Users, Systems, Packet, MaxCalls, MaxFaults,
          ByteBits, Buffers, StringCapacity, Overrides, BitTags, Numbers, Strings,
          Sizes, Offsets, MaxChanges, Allocs

VARIABLES part,
  tag, changes,
  workerOs, has, mutex, flag, queue, terminating, workerPc, workerCalls, workerFaults,
  os, sock, open, winsock, net, inbox, woken, owed, state, ticked, ready, have, left,
  work, caller, calls, faults

Buffer == INSTANCE TagData WITH Capacity <- StringCapacity
Thread == INSTANCE Worker WITH os <- workerOs, pc <- workerPc, calls <- workerCalls,
                               faults <- workerFaults
Socket == INSTANCE PlcSocket

ASSUME PartsAssumption ==
  Buffer!TagDataAssumption /\ Thread!WorkerAssumption /\ Socket!SocketAssumption

(* Keys that collide in tables of two, four and seven places, or not at all *)
MCHashes == {f \in [Keys -> 0 .. 3] : f[1] = 1 /\ f[2] \in {1, 3}}

(* Bytes of two bits; types and overrides scaled to buffers of eight bytes. *)
MCBuffers   == {<<>>, <<1, 2, 3, 0, 3, 2, 1, 0>>}
MCOverrides == {[x \in {} |-> 0],
                [int32 |-> <<1, 0, 3, 2>>, int64 |-> <<2, 3, 1, 0, 6, 7, 5, 4>>],
                [int16 |-> <<1, 1>>], [count |-> 1, fixed |-> 0], [fixed |-> 0]}
MCNumbers   == {0, 1, -1, 27}
MCStrings   == {<<>>, <<2, 3>>, <<3, 1, 2>>}
MCSizes     == {-1, 0, 2, 8}
MCOffsets   == {-1, 0, 3}
MCBitTags   == {-1, 3}

bufferVars == <<tag, changes>>
threadVars == <<workerOs, has, mutex, flag, queue, terminating, workerPc, workerCalls, workerFaults>>
socketVars == <<os, sock, open, winsock, net, inbox, woken, owed, state, ticked, ready, have, left,
                work, caller, calls, faults>>
partsVars  == <<part, vars, bufferVars, threadVars, socketVars>>

PartsInit ==
  /\ part \in {"table", "buffer", "thread", "socket"}
  /\ part # "table" => hash = CHOOSE f \in Hashes : TRUE
  /\ part # "thread" => workerOs = CHOOSE s \in Systems : TRUE
  /\ part # "socket" => os = CHOOSE s \in Systems : TRUE
  /\ Init /\ Buffer!Init /\ Thread!Init /\ Socket!Init

Only(p) ==
  /\ part = p /\ UNCHANGED part
  /\ p # "table" => UNCHANGED vars
  /\ p # "buffer" => UNCHANGED bufferVars
  /\ p # "thread" => UNCHANGED threadVars
  /\ p # "socket" => UNCHANGED socketVars

PartsNext ==
  \/ Only("table") /\ Next
  \/ Only("buffer") /\ Buffer!Next
  \/ Only("thread") /\ Thread!Next
  \/ Only("socket") /\ Socket!Next

(* The fairness of Worker and PlcSocket *)
PartsFairness ==
  /\ WF_partsVars(Only("thread") /\ Thread!OwnerStep)
  /\ WF_partsVars(Only("thread") /\ Thread!HandlerStep)
  /\ \A u \in Users : WF_partsVars(Only("thread") /\ Thread!UserStep(u))
  /\ WF_partsVars(Only("socket") /\ (Socket!TickleTags \/ Socket!Stopped))
  /\ WF_partsVars(Only("socket") /\ Socket!Step)
  /\ SF_partsVars(Only("socket") /\ Socket!ConnectStart /\ state' = "READY")
  /\ SF_partsVars(Only("socket") /\ Socket!SocketWrite /\ left' = 0)
  /\ WF_partsVars(Only("socket") /\ Socket!Application)
  /\ WF_partsVars(Only("socket") /\ Socket!Establish)
  /\ WF_partsVars(Only("socket") /\ Socket!Deliver)

PartsSpec == PartsInit /\ [][PartsNext]_partsVars /\ PartsFairness

(* TagData.tla: what is stored is read back.       *)
RoundTrip    == Buffer!RoundTrip
(* TagData.tla: storing changes nothing else.      *)
OnlyItsBytes == Buffer!OnlyItsBytes
(* Worker.tla: no signal is lost.                  *)
WorkTaken    == Thread!WorkTaken
(* Worker.tla: session_destroy() leaves nothing.   *)
NothingLeft  == Thread!NothingLeft
(* PlcSocket.tla: no descriptor stays open.        *)
NothingOpen  == Socket!NothingOpen
(* PlcSocket.tla: a closed connection is noticed.  *)
CloseNoticed == Socket!CloseNoticed
(* PlcSocket.tla: no wake-up is lost.              *)
WakeSeen     == Socket!WakeSeen

=============================================================================
