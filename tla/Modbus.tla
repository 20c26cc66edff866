------------------------------- MODULE Modbus -------------------------------
(***************************************************************************)
(* The Modbus protocol: the tags of one PLC, their read, write, abort and  *)
(* destroy operations, and the handler thread that gives them request      *)
(* slots, sends one packet at a time, and offers each reply to every tag.  *)
(*                                                                         *)
(* The handler holds plc->mutex while it goes through the tag list, and    *)
(* each tag's api_mutex only while it works on that tag; an abort request  *)
(* is flagged outside both.  Sizes are counted in units of registers.      *)
(***************************************************************************)
EXTENDS Integers, Sequences, FiniteSets, FiniteSetsExt, SequencesExt

CONSTANTS
  Tags,             \* tag objects on the PLC's list, each with its handle
  NoTag,            \* the zero handle of a free slot
  ReadOnly,         \* tags of discrete inputs and input registers
  Kinds,            \* operations the application starts
  Outcomes,         \* what the server may answer to each kind of request
  Size,             \* tag->size
  RequestPayload,   \* MAX_MODBUS_REQUEST_PAYLOAD
  ResponsePayload,  \* MAX_MODBUS_RESPONSE_PAYLOAD
  MaxInFlight,      \* plc->max_requests_in_flight
  SeqIds,           \* how many values plc->seq_id takes, 2^16 in the code
  SeqWraps,         \* FALSE is a bound: no more packets than sequence numbers
  AutoRead,         \* TRUE: tags may have auto_sync_read_ms > 0
  Calls,            \* the calls with which the application ends each tag's operation
  MaxWire,          \* bound: packets sent and not answered yet
  MaxFaults         \* bound: failures of the network and late or lost answers

Verdicts    == {"ok", "error", "slow"}
AllOutcomes == Verdicts \cup {"none"}

ASSUME TagAssumption  == NoTag \notin Tags /\ ReadOnly \subseteq Tags
ASSUME KindAssumption == /\ Kinds \subseteq {"read", "write"}
                         /\ Outcomes \in [{"read", "write"} -> SUBSET AllOutcomes]
ASSUME SizeAssumption == /\ {Size, MaxInFlight, MaxWire, RequestPayload} \subseteq Nat \ {0}
                         /\ ResponsePayload \in Nat /\ RequestPayload <= ResponsePayload
                         /\ SeqIds \in Nat /\ SeqIds > 2 /\ MaxFaults \in Nat
ASSUME ModeAssumption == {SeqWraps, AutoRead} \subseteq BOOLEAN
ASSUME CallAssumption == Calls \in [Tags -> SUBSET {"aborting", "destroying"}]

VARIABLES
  tag,     \* the tag objects
  app,     \* what the application is doing with each tag
  moved,   \* ghost: units of a tag's data moved since its operation began
  state,   \* plc->state
  todo,    \* plc->tag_list, or what tickle_all_tags() has left of it
  active,  \* its active_list
  idle,    \* its idle_list
  cur,     \* the tag whose generic tickler is due, or NoTag
  slots,   \* plc->tags_with_requests
  seqId,   \* plc->seq_id
  out,     \* the packet in write_data, with request_ready, or NoPacket
  in,      \* the packet in read_data, or NoPacket
  ready,   \* plc->flags.response_ready
  wire,    \* packets sent on the open socket that the server will answer
  faults   \* failures so far

lists == <<todo, active, idle>>
link  == <<out, in, ready, wire>>
vars  == <<tag, app, moved, state, lists, cur, slots, seqId, link, faults>>

ReadOps   == {"READ_REQUEST", "READ_RESPONSE"}
Requests  == {"READ_REQUEST", "WRITE_REQUEST"}
Responses == {"READ_RESPONSE", "WRITE_RESPONSE"}
Kind(op)     == IF op \in ReadOps THEN "read" ELSE "write"
Request(op)  == IF op \in ReadOps THEN "READ_REQUEST" ELSE "WRITE_REQUEST"
Response(op) == IF op \in ReadOps THEN "READ_RESPONSE" ELSE "WRITE_RESPONSE"
Unconnected  == {"CONNECT_START", "CONNECT_WAIT", "ERR_WAIT"}
States       == Unconnected \cup {"READY", "SEND_REQUEST", "RECEIVE_RESPONSE"}

NoPacket == [seq |-> 0]

(* mb_tag_create() starts a read, for which no in-flight flag is set. *)
Init ==
  /\ tag = [t \in Tags |-> [op |-> "READ_REQUEST", num |-> 0, seq |-> 0, flight |-> "none",
                            status |-> "OK", abortReq |-> FALSE]]
  /\ app = [t \in Tags |-> "idle"]
  /\ moved = [t \in Tags |-> {}]
  /\ state = "CONNECT_START"
  /\ todo \in SetToSeqs(Tags) /\ active = <<>> /\ idle = <<>>
  /\ cur = NoTag
  /\ slots = [s \in 1..MaxInFlight |-> NoTag]
  /\ seqId = 0
  /\ out = NoPacket /\ in = NoPacket /\ ready = FALSE /\ wire = <<>>
  /\ faults = 0

-----------------------------------------------------------------------------
(* Operations and request slots *)

(* plc_tag_read() and plc_tag_write(), mb_read_start() and mb_write_start() *)
Started(r, kind) == [r EXCEPT !.op = IF kind = "read" THEN "READ_REQUEST" ELSE "WRITE_REQUEST",
                              !.flight = kind,
                              !.status = IF kind = "read" THEN "PENDING" ELSE "OK"]

FreeSlots == {s \in DOMAIN slots : slots[s] = NoTag}

(* Mutant of Cleared: only the first slot is looked at. *)
ClearedFirst(t) == [slots EXCEPT ![1] = IF @ = t THEN NoTag ELSE @]

(* clear_request_slot(): every slot that holds the tag. *)
Cleared(t) == [s \in DOMAIN slots |-> IF slots[s] = t THEN NoTag ELSE slots[s]]

(* Mutant of Ended: the place in the tag is kept. *)
EndedKeepsPlace(r, code) == [r EXCEPT !.op = "IDLE", !.seq = 0, !.status = code]

(* A tag whose operation is over, in check_*_response() and mb_abort() *)
Ended(r, code) == [r EXCEPT !.op = "IDLE", !.seq = 0, !.num = 0, !.status = code]

(* The in-flight flag that goes with the operation is cleared. *)
Landed(r, kind) == [r EXCEPT !.flight = IF @ = kind THEN "none" ELSE @]

-----------------------------------------------------------------------------
(* tickle_all_tags() and tickle_tag(): one tag after the other is popped,  *)
(* goes on with its operation, and is pushed onto the active list if it    *)
(* waits for something, or onto the idle list.                             *)

Push(t, pending) ==
  /\ todo # <<>> /\ cur = NoTag /\ Head(todo) = t
  /\ todo' = Tail(todo)
  /\ cur' = t
  /\ active' = IF pending THEN Append(active, t) ELSE active
  /\ idle' = IF pending THEN idle ELSE Append(idle, t)
  /\ UNCHANGED <<app, state, wire, faults>>

(* An abort flag frees the slot, and the operation rests for this turn. *)
TickleAbort(t) ==
  /\ tag[t].abortReq
  /\ Push(t, FALSE)
  /\ tag' = [tag EXCEPT ![t].abortReq = FALSE]
  /\ slots' = Cleared(t)
  /\ UNCHANGED <<moved, seqId, out, in, ready>>

TickleIdle(t) ==
  /\ ~tag[t].abortReq /\ tag[t].op = "IDLE"
  /\ Push(t, FALSE)
  /\ UNCHANGED <<tag, moved, slots, seqId, out, in, ready>>

(* Mutant of NextSeq: every packet has the same number. *)
NextSeqStuck == 1

(* ++plc->seq_id, where zero is left out *)
NextSeq == IF seqId + 1 = SeqIds THEN 1 ELSE seqId + 1

CanRequest == /\ out = NoPacket /\ state = "READY" /\ FreeSlots # {}
              /\ SeqWraps \/ seqId + 1 < SeqIds

(* find_request_slot() and create_read_request() or create_write_request() *)
TickleRequest(t) ==
  LET op == tag[t].op IN
  /\ ~tag[t].abortReq /\ op \in Requests /\ CanRequest
  /\ op = "READ_REQUEST" \/ t \notin ReadOnly
  /\ Push(t, TRUE)
  /\ slots' = [slots EXCEPT ![Min(FreeSlots)] = t]
  /\ seqId' = NextSeq
  /\ tag' = [tag EXCEPT ![t].op = Response(op), ![t].seq = NextSeq]
  /\ out' = [seq |-> NextSeq, tag |-> t, kind |-> Kind(op), num |-> tag[t].num]
  /\ UNCHANGED <<moved, in, ready>>

(* A write to a read-only register is refused when its packet is built. *)
TickleRefused(t) ==
  /\ ~tag[t].abortReq /\ tag[t].op = "WRITE_REQUEST" /\ CanRequest
  /\ t \in ReadOnly
  /\ Push(t, FALSE)
  /\ seqId' = NextSeq
  /\ tag' = [tag EXCEPT ![t] = Landed([@ EXCEPT !.op = "IDLE", !.status = "UNSUPPORTED"], "write")]
  /\ slots' = Cleared(t)
  /\ UNCHANGED <<moved, out, in, ready>>

(* No slot yet, or no reply, or a reply to a read of another tag *)
TickleWait(t) ==
  LET op == tag[t].op IN
  /\ ~tag[t].abortReq
  /\ \/ op \in Requests /\ ~CanRequest
     \/ op \in Responses /\ state \notin Unconnected
        /\ (ready => op = "READ_RESPONSE" /\ in.seq # tag[t].seq)
  /\ Push(t, TRUE)
  /\ UNCHANGED <<tag, moved, slots, seqId, out, in, ready>>

(* Mutant of TickleRestart: the tag waits for the reply that was lost. *)
TickleRestartWaits(t) ==
  /\ ~tag[t].abortReq /\ tag[t].op \in Responses /\ state \in Unconnected
  /\ Push(t, FALSE)
  /\ UNCHANGED <<tag, moved, slots, seqId, out, in, ready>>

(* The connection was lost: the fragment is requested again, from another  *)
(* slot.                                                                   *)
TickleRestart(t) ==
  /\ ~tag[t].abortReq /\ tag[t].op \in Responses /\ state \in Unconnected
  /\ Push(t, FALSE)
  /\ tag' = [tag EXCEPT ![t].op = Request(@)]
  /\ UNCHANGED <<moved, slots, seqId, out, in, ready>>

(* The reply carries the sequence number of the tag's request. *)
Answered(t, op) ==
  /\ ~tag[t].abortReq /\ tag[t].op = op /\ state \notin Unconnected
  /\ ready /\ in.seq = tag[t].seq

(* The units of data that a packet moves *)
Payload(p) == IF p.kind = "read" THEN ResponsePayload ELSE RequestPayload
Units(p) == (p.num * Payload(p)) .. (Min({Size, (p.num + 1) * Payload(p)}) - 1)

(* Both checks count the fragments by the payload of a response. *)
IsLast(t) == (tag[t].num + 1) * ResponsePayload >= Size

Consume == in' = NoPacket /\ ready' = FALSE
Fragment(t, op) == [tag EXCEPT ![t].op = op, ![t].num = @ + 1, ![t].status = "PENDING"]

(* check_read_response() with data *)
TickleReadOk(t) ==
  /\ Answered(t, "READ_RESPONSE") /\ in.answer = "ok"
  /\ Push(t, FALSE)
  /\ slots' = Cleared(t)
  /\ moved' = [moved EXCEPT ![t] = @ \cup Units(in)]
  /\ tag' = IF IsLast(t) THEN [tag EXCEPT ![t] = Landed(Ended(@, "OK"), "read")]
                         ELSE Fragment(t, "READ_REQUEST")
  /\ Consume
  /\ UNCHANGED <<seqId, out>>

(* check_read_response() with an error, which the caller turns into OK, or *)
(* with "the server will take a long time", for which the code is PARTIAL: *)
(* the read begins again.                                                  *)
TickleReadError(t) ==
  /\ Answered(t, "READ_RESPONSE") /\ in.answer # "ok"
  /\ Push(t, FALSE)
  /\ slots' = Cleared(t)
  /\ tag' = [tag EXCEPT ![t] = IF in.answer = "error"
               THEN Landed(Ended(@, "OK"), "read")
               ELSE [Landed(Ended(@, "PARTIAL"), "read") EXCEPT !.op = "READ_REQUEST"]]
  /\ Consume
  /\ UNCHANGED <<moved, seqId, out>>

(* check_write_response(): between two packets of a write the slot is kept *)
TickleWriteOk(t) ==
  /\ Answered(t, "WRITE_RESPONSE") /\ in.answer = "ok"
  /\ Push(t, FALSE)
  /\ moved' = [moved EXCEPT ![t] = @ \cup Units(in)]
  /\ IF IsLast(t) THEN /\ tag' = [tag EXCEPT ![t] = Landed(Ended(@, "OK"), "write")]
                       /\ slots' = Cleared(t)
                  ELSE tag' = Fragment(t, "WRITE_REQUEST") /\ UNCHANGED slots
  /\ Consume
  /\ UNCHANGED <<seqId, out>>

TickleWriteError(t) ==
  /\ Answered(t, "WRITE_RESPONSE") /\ in.answer # "ok"
  /\ Push(t, FALSE)
  /\ IF in.answer = "error"
       THEN /\ tag' = [tag EXCEPT ![t] = Landed(Ended(@, "REMOTE"), "write")]
            /\ slots' = Cleared(t)
       ELSE /\ tag' = [tag EXCEPT ![t] = [Landed(Ended(@, "PARTIAL"), "write")
                                                 EXCEPT !.op = "WRITE_REQUEST"]]
            /\ UNCHANGED slots
  /\ Consume
  /\ UNCHANGED <<moved, seqId, out>>

(* A reply that is not the write's: check_write_response() says PENDING,   *)
(* which its caller takes for an error.  The reply stays in read_data.     *)
TickleWriteForeign(t) ==
  /\ ~tag[t].abortReq /\ tag[t].op = "WRITE_RESPONSE" /\ state \notin Unconnected
  /\ ready /\ in.seq # tag[t].seq
  /\ Push(t, FALSE)
  /\ slots' = Cleared(t)
  /\ tag' = [tag EXCEPT ![t] = Landed([@ EXCEPT !.op = "IDLE", !.status = "PENDING"], "write")]
  /\ ready' = FALSE
  /\ UNCHANGED <<moved, seqId, out, in>>

Tickle(t) ==
  \/ TickleAbort(t) \/ TickleIdle(t) \/ TickleRequest(t) \/ TickleRefused(t) \/ TickleWait(t)
  \/ TickleRestart(t) \/ TickleReadOk(t) \/ TickleReadError(t)
  \/ TickleWriteOk(t) \/ TickleWriteError(t) \/ TickleWriteForeign(t)

(* The rest of the tag's turn: plc_tag_generic_tickler(), which finds an   *)
(* abort flag that was set meanwhile, or starts an automatic read.         *)
Generic(t) ==
  LET r == tag[t] IN
  /\ cur = t
  /\ cur' = NoTag
  /\ \/ /\ r.abortReq
        /\ tag' = [tag EXCEPT ![t] = [Ended(@, "OK") EXCEPT !.flight = "none", !.abortReq = FALSE]]
        /\ slots' = Cleared(t)
        /\ UNCHANGED moved
     \/ ~r.abortReq /\ UNCHANGED <<tag, moved, slots>>
     \/ /\ ~r.abortReq /\ AutoRead /\ r.flight = "none"
        /\ IF r.op = "IDLE"
             THEN /\ tag' = [tag EXCEPT ![t] = Started(@, "read")]
                  /\ moved' = [moved EXCEPT ![t] = {}]
             ELSE /\ tag' = [tag EXCEPT ![t].flight = "read", ![t].status = "BUSY"]
                  /\ UNCHANGED moved
        /\ UNCHANGED slots
  /\ UNCHANGED <<app, state, lists, seqId, link, faults>>

-----------------------------------------------------------------------------
(* modbus_plc_handler(): when all tags have had their turn, the lists are  *)
(* merged and the mutex is free, and the loop goes through one state.      *)

Fault == faults < MaxFaults /\ faults' = faults + 1
NoFault == UNCHANGED faults

(* A reply that no tag took is thrown away. *)
kept == IF ready THEN NoPacket ELSE in

Turn(from, to) ==
  /\ todo = <<>> /\ cur = NoTag /\ state = from
  /\ todo' = active \o idle /\ active' = <<>> /\ idle' = <<>>
  /\ state' = to
  /\ UNCHANGED <<tag, app, moved, cur, slots, seqId>>

(* Nothing is sent or received in this turn. *)
NoTransfer == in' = kept /\ ready' = FALSE /\ UNCHANGED <<out, wire>>

(* connect_plc() starts with empty buffers. *)
Connect ==
  /\ Turn("CONNECT_START", "READY") \/ Turn("CONNECT_START", "CONNECT_WAIT")
  /\ out' = NoPacket /\ in' = NoPacket /\ ready' = FALSE
  /\ NoFault /\ UNCHANGED wire

ConnectDone == Turn("CONNECT_WAIT", "READY") /\ NoFault /\ NoTransfer

ConnectFail ==
  /\ Turn("CONNECT_START", "ERR_WAIT") \/ Turn("CONNECT_WAIT", "ERR_WAIT")
  /\ Fault /\ NoTransfer

ErrWaitOver == Turn("ERR_WAIT", "CONNECT_START") /\ NoFault /\ NoTransfer

(* Nothing happened in time, or only part of a packet could be moved. *)
Nothing ==
  /\ \E s \in States \ {"CONNECT_START"} : Turn(s, s)
  /\ NoFault /\ NoTransfer

CanSend == out # NoPacket /\ Turn("READY", "SEND_REQUEST") /\ NoFault /\ NoTransfer
CanReceive == wire # <<>> /\ Turn("READY", "RECEIVE_RESPONSE") /\ NoFault /\ NoTransfer

(* The socket is closed; the buffers are left as they are. *)
Disconnected ==
  /\ Turn("READY", "CONNECT_START") /\ Fault
  /\ wire' = <<>> /\ in' = kept /\ ready' = FALSE
  /\ UNCHANGED out

Reply(p, a) == [seq |-> p.seq, tag |-> p.tag, kind |-> p.kind, num |-> p.num, answer |-> a]

(* send_request(): the server will answer the packet in one of its ways,   *)
(* or never.                                                               *)
Send ==
  /\ Turn("SEND_REQUEST", "READY")
  /\ \E a \in Outcomes[out.kind] :
       /\ IF a \in {"slow", "none"} THEN Fault ELSE NoFault
       /\ IF a = "none" THEN UNCHANGED wire
                        ELSE Len(wire) < MaxWire /\ wire' = Append(wire, Reply(out, a))
  /\ out' = NoPacket /\ in' = kept /\ ready' = FALSE

(* receive_response(): a packet that still fills read_data is delivered    *)
(* again before the next one is read.                                      *)
Receive ==
  /\ Turn("RECEIVE_RESPONSE", "READY") /\ NoFault
  /\ ready' = TRUE
  /\ IF kept = NoPacket THEN wire # <<>> /\ in' = Head(wire) /\ wire' = Tail(wire)
                       ELSE in' = kept /\ UNCHANGED wire
  /\ UNCHANGED out

(* An error of the socket while a packet is sent or received *)
Broken ==
  /\ Turn("SEND_REQUEST", "CONNECT_START") \/ Turn("RECEIVE_RESPONSE", "CONNECT_START")
  /\ Fault
  /\ out' = NoPacket /\ in' = NoPacket /\ ready' = FALSE /\ wire' = <<>>

Handler ==
  \/ \E t \in Tags : Tickle(t) \/ Generic(t)
  \/ Connect \/ ConnectDone \/ ConnectFail \/ ErrWaitOver \/ Nothing
  \/ CanSend \/ CanReceive \/ Disconnected \/ Send \/ Receive \/ Broken

-----------------------------------------------------------------------------
(* The application's side, under the tag's api_mutex where cur # t is asked *)

Outside == UNCHANGED <<state, lists, cur, seqId, link, faults>>

Aborted(t) == /\ tag' = [tag EXCEPT ![t] = [Ended(@, "OK") EXCEPT !.flight = "none"]]
              /\ slots' = Cleared(t)

Start(t, kind) ==
  /\ app[t] = "idle" /\ cur # t /\ tag[t].flight = "none" /\ tag[t].op = "IDLE"
  /\ tag' = [tag EXCEPT ![t] = Started(@, kind)]
  /\ moved' = [moved EXCEPT ![t] = {}]
  /\ UNCHANGED <<app, slots>> /\ Outside

(* The tag still has an operation, whose flag was cleared: it is aborted.  *)
(* A read does that through plc_tag_abort_impl(), which leaves its flag.   *)
StartBusy(t, kind) ==
  /\ app[t] = "idle" /\ cur # t /\ tag[t].flight = "none" /\ tag[t].op # "IDLE"
  /\ tag' = [tag EXCEPT ![t] = [Ended(@, "OK")
                                  EXCEPT !.abortReq = tag[t].abortReq \/ kind = "read"]]
  /\ slots' = Cleared(t)
  /\ UNCHANGED <<app, moved>> /\ Outside

(* plc_tag_abort_impl() sets the flag, for plc_tag_abort(), for a call     *)
(* whose wait is over, or for plc_tag_destroy() ...                        *)
AbortFlag(t) ==
  /\ app[t] = "idle"
  /\ \E call \in Calls[t] : app' = [app EXCEPT ![t] = call]
  /\ tag' = [tag EXCEPT ![t].abortReq = TRUE]
  /\ UNCHANGED <<moved, slots>> /\ Outside

(* ... and aborts under the mutex, unless the handler has seen the flag.   *)
AbortRun(t) ==
  /\ app[t] \in {"aborting", "destroying"} /\ cur # t
  /\ app' = [app EXCEPT ![t] = IF @ = "aborting" THEN "idle" ELSE "dying"]
  /\ IF tag[t].abortReq THEN Aborted(t)
                        ELSE tag' = [tag EXCEPT ![t].flight = "none"] /\ UNCHANGED slots
  /\ UNCHANGED moved /\ Outside

(* modbus_tag_destructor() aborts once more, without the mutex ...         *)
Destroy(t) ==
  /\ app[t] = "dying"
  /\ app' = [app EXCEPT ![t] = "unlinking"]
  /\ tag' = [tag EXCEPT ![t] = Ended(@, "OK")]
  /\ slots' = Cleared(t)
  /\ UNCHANGED moved /\ Outside

(* ... and takes the tag off the list when plc->mutex is free.             *)
Unlink(t) ==
  /\ app[t] = "unlinking" /\ active = <<>> /\ idle = <<>> /\ cur = NoTag
  /\ app' = [app EXCEPT ![t] = "gone"]
  /\ todo' = SelectSeq(todo, LAMBDA u : u # t)
  /\ UNCHANGED <<tag, moved, slots, state, active, idle, cur, seqId, link, faults>>

Application(t) ==
  \/ \E kind \in Kinds : Start(t, kind) \/ StartBusy(t, kind)
  \/ AbortFlag(t) \/ AbortRun(t) \/ Destroy(t) \/ Unlink(t)

Next == Handler \/ \E t \in Tags : Application(t)

Spec == Init /\ [][Next]_vars

(* The handler thread loops for ever, and what it waits for comes in the   *)
(* end: a connection, the end of a delay, room to send, a packet.          *)
Progress == Connect \/ ConnectDone \/ ErrWaitOver \/ CanSend \/ CanReceive \/ Send \/ Receive

Fairness == WF_vars(Handler) /\ SF_vars(Progress)

FairSpec == Spec /\ Fairness

-----------------------------------------------------------------------------
Packets == {NoPacket} \cup [seq : 1..(SeqIds - 1), tag : Tags, kind : {"read", "write"}, num : Nat]
Replies == {NoPacket} \cup [seq : 1..(SeqIds - 1), tag : Tags, kind : {"read", "write"}, num : Nat,
                            answer : Verdicts]

TagRecord ==
  [op : {"IDLE"} \cup Requests \cup Responses, num : Nat, seq : 0..(SeqIds - 1),
   flight : {"none", "read", "write"},
   status : {"OK", "PENDING", "BUSY", "PARTIAL", "REMOTE", "UNSUPPORTED"}, abortReq : BOOLEAN]

AppStates == {"idle", "aborting", "destroying", "dying", "unlinking", "gone"}

(* Types: the variables hold what their types allow. *)
Types ==
  /\ tag \in [Tags -> TagRecord]
  /\ app \in [Tags -> AppStates]
  /\ state \in States
  /\ cur \in Tags \cup {NoTag}
  /\ slots \in [1..MaxInFlight -> Tags \cup {NoTag}]
  /\ seqId \in 0..(SeqIds - 1) /\ out \in Packets /\ in \in Replies /\ ready \in BOOLEAN
  /\ wire \in Seq(Replies)
TypeOK ==
  /\ Types
  /\ moved \in [Tags -> SUBSET (0..(Size - 1))]
  /\ lists \in Seq(Tags) \X Seq(Tags) \X Seq(Tags)
  /\ faults \in 0..MaxFaults

(* A request slot is held only by a tag that is still on the PLC's list    *)
(* and has an operation: slots are not leaked to idle or destroyed tags,   *)
(* which would keep the other tags of the PLC from ever being served.      *)
SlotsOwned ==
  \A s \in DOMAIN slots : slots[s] # NoTag => /\ tag[slots[s]].op # "IDLE"
                                             /\ app[slots[s]] # "gone"

(* A reply that carries a waiting tag's sequence number is the reply to    *)
(* that tag's last packet, whatever was aborted, lost or sent again since. *)
ReplyFits ==
  \A t \in Tags :
    (ready /\ tag[t].op \in Responses /\ in.seq = tag[t].seq)
      => in.tag = t /\ in.kind = Kind(tag[t].op) /\ in.num = tag[t].num

(* The inductive invariant behind these two.  The handler sends only when  *)
(* it has a packet to send.  What is sent and not yet                      *)
(* taken has a number that was given out, and that of a waiting tag's last *)
(* packet belongs to no other, until the numbers start again.  A tag whose *)
(* destructor has run has no operation: its PLC's handler, which may still *)
(* come by before the tag is off the list, starts one only for an          *)
(* automatic read.                                                         *)
Flying    == {out, in} \cup {wire[i] : i \in DOMAIN wire}
Sending   == state = "SEND_REQUEST" => out # NoPacket
Waiting   == \A t \in Tags : tag[t].op \in Responses => tag[t].seq # 0
Numbered  == /\ \A p \in Flying : p.seq <= seqId
             /\ \A t \in Tags : tag[t].seq <= seqId
Matched   == \A t \in Tags, p \in Flying :
               (tag[t].op \in Responses /\ p.seq = tag[t].seq)
                 => p.tag = t /\ p.kind = Kind(tag[t].op) /\ p.num = tag[t].num
AtRest    == \A t \in Tags : app[t] \in {"unlinking", "gone"} => tag[t].op = "IDLE"
AutoStays == AutoRead => \A t \in Tags : "destroying" \notin Calls[t]
NoneLeaves == AutoRead => \A t \in Tags : app[t] \in {"idle", "aborting"}
IInv == /\ Types /\ Sending /\ Waiting
        /\ ~SeqWraps => Numbered /\ Matched
        /\ AutoStays => NoneLeaves /\ AtRest /\ SlotsOwned

(* An operation that the handler ends with PLCTAG_STATUS_OK has moved the  *)
(* whole of the tag's data.                                                *)
OkMovesAll ==
  [][\A t \in Tags :
       (cur = NoTag /\ cur' = t /\ tag[t].op \in Responses
          /\ tag'[t].op = "IDLE" /\ tag'[t].status = "OK")
         => moved'[t] = 0..(Size - 1)]_vars

(* A tag whose operation is over does not report it as pending. *)
ResultKnown ==
  \A t \in Tags : (tag[t].op = "IDLE" /\ tag[t].flight = "none") => tag[t].status # "PENDING"

(* An operation that was started ends, over reconnections too: the tags of *)
(* a PLC take turns, and none waits for ever for a slot or an answer.  Two *)
(* conditions, without each of which it is false: there are more slots     *)
(* than tags, because a restart after a reconnect and a write in several   *)
(* packets take a second slot while they hold the first (modbus.c:459;     *)
(* max_requests_in_flight is 1 by default), and the application calls      *)
(* nothing, because an abort's flag can be lost (modbus.c:1316).           *)
Unaided       == MaxInFlight > Cardinality(Tags) /\ \A t \in Tags : Calls[t] = {}
OperationEnds == Unaided => \A t \in Tags : tag[t].op # "IDLE" ~> tag[t].op = "IDLE"

=============================================================================
