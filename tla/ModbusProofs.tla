---------------------------- MODULE ModbusProofs ----------------------------
(* Proofs about Modbus: no request slot is lost to an idle or destroyed    *)
(* tag, a reply is taken only for the packet it answers, and an operation  *)
(* that ends with OK has moved the whole tag, for any number of tags and   *)
(* slots and whatever is aborted, lost or sent again.  The last theorem is *)
(* about the run that looks at a CIP tag beside it.                        *)
EXTENDS MCRequests, TLAPS

-----------------------------------------------------------------------------
(* What nearly all steps have in common *)

(* p answers or repeats a packet that flies already, or is none. *)
Flew(p) ==
  \/ p.seq = 0
  \/ \E q \in Flying : q.seq = p.seq /\ q.tag = p.tag /\ q.kind = p.kind /\ q.num = p.num

(* A step that sends nothing new: no tag begins to wait for a reply, and   *)
(* one that waits goes on to wait for the same.                            *)
SendsNothing ==
  /\ \A p \in Flying' : p.seq \in Nat /\ Flew(p)
  /\ seqId' = seqId \/ (seqId' \in Nat /\ (~SeqWraps => seqId' >= seqId))
  /\ \A u \in Tags :
       /\ tag'[u].seq \in {0, tag[u].seq}
       /\ tag'[u].op \in Responses => /\ tag'[u].op = tag[u].op /\ tag'[u].seq = tag[u].seq
                                     /\ tag'[u].num = tag[u].num

LEMMA NumbersKept ==
  ASSUME Types, Waiting, ~SeqWraps => Numbered /\ Matched, SendsNothing
  PROVE  Waiting' /\ (~SeqWraps => Numbered' /\ Matched')
<1>1. \A u \in Tags : tag[u].seq \in Nat
  BY SizeAssumption DEF Types, TagRecord
<1>2. seqId \in Nat /\ seqId' \in Nat
  BY SizeAssumption DEF Types, SendsNothing
<1>3. Waiting'
  BY DEF Waiting, SendsNothing
<1>4. ASSUME ~SeqWraps PROVE Numbered'
  <2>1. ASSUME NEW p \in Flying' PROVE p.seq <= seqId'
    BY <1>2, <1>4, <2>1 DEF SendsNothing, Flew, Numbered
  <2>2. ASSUME NEW u \in Tags PROVE tag'[u].seq <= seqId'
    BY <1>1, <1>2, <1>4, <2>2 DEF SendsNothing, Numbered
  <2> QED BY <2>1, <2>2 DEF Numbered
<1>5. ASSUME ~SeqWraps PROVE Matched'
  <2> SUFFICES ASSUME NEW t \in Tags, NEW p \in Flying', tag'[t].op \in Responses,
                      p.seq = tag'[t].seq
               PROVE  p.tag = t /\ p.kind = Kind(tag'[t].op) /\ p.num = tag'[t].num
    BY DEF Matched
  <2>1. /\ tag'[t].op = tag[t].op /\ tag'[t].seq = tag[t].seq /\ tag'[t].num = tag[t].num
        /\ tag[t].seq # 0
    BY DEF SendsNothing, Waiting
  <2>2. PICK q \in Flying : q.seq = p.seq /\ q.tag = p.tag /\ q.kind = p.kind /\ q.num = p.num
    BY <2>1 DEF SendsNothing, Flew
  <2> QED BY <1>5, <2>1, <2>2 DEF Matched
<1> QED BY <1>3, <1>4, <1>5

(* clear_request_slot() leaves the tag no slot and the others theirs. *)
LEMMA ClearedSlots ==
  ASSUME Types, NEW t \in Tags
  PROVE  /\ Cleared(t) \in [1..MaxInFlight -> Tags \cup {NoTag}]
         /\ \A s \in DOMAIN Cleared(t) :
              s \in DOMAIN slots /\ Cleared(t)[s] \in {NoTag, slots[s]} /\ Cleared(t)[s] # t
BY TagAssumption DEF Types, Cleared

(* What flies flew before, when nothing is put on the wire. *)
LEMMA SameFlying ==
  ASSUME Types, NEW p \in Flying
  PROVE  p.seq \in Nat /\ Flew(p)
<1>1. p \in Packets \/ p \in Replies
  BY DEF Types, Flying
<1>2. p.seq \in Nat
  BY <1>1, SizeAssumption DEF Packets, Replies, NoPacket
<1> QED BY <1>2 DEF Flew

LEMMA NoPacketFlew == NoPacket.seq \in Nat /\ Flew(NoPacket)
BY DEF NoPacket, Flew

(* A step that puts nothing on the wire *)
LEMMA NothingFlies ==
  ASSUME Types, UNCHANGED <<out, wire>>, in' \in {in, NoPacket}
  PROVE  \A p \in Flying' : p.seq \in Nat /\ Flew(p)
<1>1. \A p \in Flying' : p \in Flying \/ p = NoPacket
  BY DEF Flying
<1> QED BY <1>1, SameFlying, NoPacketFlew

(* The numbers follow each other until they start again. *)
LEMMA NextNumber ==
  ASSUME Types, CanRequest
  PROVE  /\ NextSeq \in 1..(SeqIds - 1)
         /\ ~SeqWraps => NextSeq = seqId + 1
BY SizeAssumption DEF Types, CanRequest, NextSeq

(* A step of one tag that sends nothing: its slots are freed when it has   *)
(* no operation left, and it has none when it leaves the list.             *)
LEMMA TagStepKeeps ==
  ASSUME IInv, NEW t \in Tags, NEW r \in TagRecord, NEW a \in AppStates,
         tag' = [tag EXCEPT ![t] = r], app' = [app EXCEPT ![t] = a],
         r.seq \in {0, tag[t].seq},
         r.op \in Responses => r.op = tag[t].op /\ r.seq = tag[t].seq /\ r.num = tag[t].num,
         slots' = Cleared(t) \/ (slots' = slots /\ (r.op = "IDLE" => tag[t].op = "IDLE")),
         AutoStays => /\ AutoRead => a \in {"idle", "aborting"}
                      /\ a \in {"unlinking", "gone"} => r.op = "IDLE",
         seqId' = seqId \/ (CanRequest /\ seqId' = NextSeq),
         cur' \in Tags \cup {NoTag}, in' \in {in, NoPacket}, ready' \in BOOLEAN,
         UNCHANGED <<state, out, wire>>
  PROVE  IInv'
<1>1. Types
  BY DEF IInv
<1>2. \A u \in Tags : /\ tag'[u] = IF u = t THEN r ELSE tag[u]
                      /\ app'[u] = IF u = t THEN a ELSE app[u]
  BY <1>1 DEF Types
<1>3. /\ slots' \in [1..MaxInFlight -> Tags \cup {NoTag}]
      /\ \A s \in DOMAIN slots' : s \in DOMAIN slots /\ slots'[s] \in {NoTag, slots[s]}
      /\ r.op = "IDLE" => tag[t].op = "IDLE" \/ \A s \in DOMAIN slots' : slots'[s] # t
  BY <1>1, ClearedSlots DEF Types
<1>4. /\ seqId' \in 0..(SeqIds - 1)
      /\ seqId' = seqId \/ (seqId' \in Nat /\ (~SeqWraps => seqId' >= seqId))
  BY <1>1, NextNumber, SizeAssumption DEF Types
<1>5. Types'
  <2>1. tag' \in [Tags -> TagRecord] /\ app' \in [Tags -> AppStates]
    BY <1>1 DEF Types
  <2>2. in' \in Replies
    BY <1>1 DEF Types, Replies
  <2> QED BY <1>1, <1>3, <1>4, <2>1, <2>2 DEF Types
<1>6. SendsNothing
  BY <1>1, <1>2, <1>4, NothingFlies DEF SendsNothing
<1>7. Waiting' /\ (~SeqWraps => Numbered' /\ Matched')
  BY <1>1, <1>6, NumbersKept DEF IInv
<1>8. Sending'
  BY DEF IInv, Sending
<1>9. ASSUME AutoStays PROVE NoneLeaves' /\ AtRest' /\ SlotsOwned'
  <2>1. NoneLeaves /\ AtRest /\ SlotsOwned
    BY <1>9 DEF IInv
  <2>2. NoneLeaves'
    BY <1>2, <1>9, <2>1 DEF NoneLeaves
  <2>3. AtRest'
    BY <1>2, <1>9, <2>1 DEF AtRest
  <2>4. SlotsOwned'
    <3> SUFFICES ASSUME NEW s \in DOMAIN slots', slots'[s] # NoTag
                 PROVE  tag'[slots'[s]].op # "IDLE" /\ app'[slots'[s]] # "gone"
      BY DEF SlotsOwned
    <3>1. s \in DOMAIN slots /\ slots'[s] = slots[s] /\ slots[s] \in Tags
      BY <1>1, <1>3 DEF Types
    <3>2. tag[slots[s]].op # "IDLE" /\ app[slots[s]] # "gone"
      BY <2>1, <3>1 DEF SlotsOwned
    <3> QED BY <1>2, <1>3, <1>9, <3>1, <3>2
  <2> QED BY <2>2, <2>3, <2>4
<1> QED BY <1>5, <1>7, <1>8, <1>9 DEF IInv, AutoStays

-----------------------------------------------------------------------------
(* The handler's turns of one tag *)

(* The next states of a tag whose turn ends without a packet of its own *)
LEMMA Records ==
  ASSUME Types, NEW t \in Tags, NEW kind \in {"read", "write"},
         NEW code \in {"OK", "PENDING", "BUSY", "PARTIAL", "REMOTE", "UNSUPPORTED"}
  PROVE  /\ Landed(Ended(tag[t], code), kind) \in TagRecord
         /\ Landed(Ended(tag[t], code), kind).op = "IDLE"
         /\ Landed(Ended(tag[t], code), kind).seq = 0
<1>1. tag[t] \in TagRecord
  BY DEF Types
<1> DEFINE e == Ended(tag[t], code)
           f == IF e.flight = kind THEN "none" ELSE e.flight
<1>2. e \in TagRecord /\ e.op = "IDLE" /\ e.seq = 0
  <2> DEFINE d == [tag[t] EXCEPT !.op = "IDLE", !.seq = 0]
  <2>1. d \in TagRecord /\ d.op = "IDLE" /\ d.seq = 0
    <3>1. 0 \in 0..(SeqIds - 1)
      BY SizeAssumption
    <3> QED BY <1>1, <3>1 DEF TagRecord
  <2>2. e = [d EXCEPT !.num = 0, !.status = code]
    BY <1>1 DEF Ended, TagRecord
  <2>3. 0 \in Nat
    OBVIOUS
  <2> HIDE DEF d, e
  <2> QED BY <2>1, <2>2, <2>3 DEF TagRecord
<1>3. Landed(e, kind) = [e EXCEPT !.flight = f]
  BY DEF Landed
<1> HIDE DEF e
<1>4. f \in {"none", "read", "write"}
  BY <1>2 DEF TagRecord
<1> HIDE DEF f
<1> QED BY <1>2, <1>3, <1>4 DEF TagRecord, e

(* A turn of a tag in tickle_tag() is a step of that tag. *)
LEMMA TurnKeeps ==
  ASSUME IInv, NEW t \in Tags, NEW pending, Push(t, pending), NEW r \in TagRecord,
         tag' = [tag EXCEPT ![t] = r],
         r.seq \in {0, tag[t].seq},
         r.op \in Responses => r.op = tag[t].op /\ r.seq = tag[t].seq /\ r.num = tag[t].num,
         r.op # "IDLE" => tag[t].op # "IDLE",
         slots' = Cleared(t) \/ (slots' = slots /\ (r.op = "IDLE" => tag[t].op = "IDLE")),
         seqId' = seqId \/ (CanRequest /\ seqId' = NextSeq),
         out' = out, in' \in {in, NoPacket}, ready' \in BOOLEAN
  PROVE  IInv'
<1>1. app' = [app EXCEPT ![t] = app[t]] /\ app[t] \in AppStates
  BY DEF Push, IInv, Types
<1>2. cur' \in Tags \cup {NoTag} /\ UNCHANGED <<state, out, wire>>
  BY DEF Push
<1>3. AutoStays => /\ AutoRead => app[t] \in {"idle", "aborting"}
                   /\ app[t] \in {"unlinking", "gone"} => r.op = "IDLE"
  BY DEF IInv, NoneLeaves, AtRest
<1> QED BY <1>1, <1>2, <1>3, TagStepKeeps

LEMMA TickleAbortKeeps ==
  ASSUME IInv, NEW t \in Tags, TickleAbort(t)
  PROVE  IInv'
<1> DEFINE r == [tag[t] EXCEPT !.abortReq = FALSE]
<1>1. tag[t] \in TagRecord
  BY DEF IInv, Types
<1>2. /\ r \in TagRecord /\ r.op = tag[t].op /\ r.seq = tag[t].seq /\ r.num = tag[t].num
  BY <1>1 DEF TagRecord
<1>3. tag' = [tag EXCEPT ![t] = r] /\ Push(t, FALSE) /\ slots' = Cleared(t)
      /\ UNCHANGED <<seqId, out, in, ready>>
  BY DEF TickleAbort, IInv, Types
<1>4. ready' \in BOOLEAN
  BY <1>3 DEF IInv, Types
<1> HIDE DEF r
<1> QED BY <1>2, <1>3, <1>4, TurnKeeps

(* A turn in which nothing happens but that the tag goes to the next list *)
LEMMA RestKeeps ==
  ASSUME IInv, NEW t \in Tags, NEW pending, Push(t, pending),
         UNCHANGED <<tag, slots, seqId, out, in, ready>>
  PROVE  IInv'
<1>1. tag' = [tag EXCEPT ![t] = tag[t]] /\ tag[t] \in TagRecord /\ ready' \in BOOLEAN
  BY DEF IInv, Types
<1> QED BY <1>1, TurnKeeps

LEMMA TickleRefusedKeeps ==
  ASSUME IInv, NEW t \in Tags, TickleRefused(t)
  PROVE  IInv'
<1> DEFINE r == Landed([tag[t] EXCEPT !.op = "IDLE", !.status = "UNSUPPORTED"], "write")
<1>1. tag[t] \in TagRecord
  BY DEF IInv, Types
<1>2. /\ r \in TagRecord /\ r.op = "IDLE" /\ r.seq = tag[t].seq
  BY <1>1 DEF TagRecord, Landed
<1>3. tag' = [tag EXCEPT ![t] = r] /\ Push(t, FALSE) /\ slots' = Cleared(t)
      /\ UNCHANGED <<out, in, ready>> /\ CanRequest /\ seqId' = NextSeq
  BY DEF TickleRefused, IInv, Types
<1>4. ready' \in BOOLEAN /\ "IDLE" \notin Responses
  BY <1>3 DEF IInv, Types, Responses
<1> HIDE DEF r
<1> QED BY <1>2, <1>3, <1>4, TurnKeeps

LEMMA TickleRestartKeeps ==
  ASSUME IInv, NEW t \in Tags, TickleRestart(t)
  PROVE  IInv'
<1> DEFINE r == [tag[t] EXCEPT !.op = Request(tag[t].op)]
<1>1. tag[t] \in TagRecord /\ tag[t].op \in Responses
  BY DEF IInv, Types, TickleRestart
<1>2. Request(tag[t].op) \in Requests
  BY DEF Request, Requests
<1>3. /\ r \in TagRecord /\ r.op \in Requests /\ r.seq = tag[t].seq
  BY <1>1, <1>2 DEF TagRecord
<1>4. tag' = [tag EXCEPT ![t] = r] /\ Push(t, FALSE)
      /\ UNCHANGED <<slots, seqId, out, in, ready>>
  BY DEF TickleRestart, IInv, Types
<1>5. ready' \in BOOLEAN /\ r.op # "IDLE" /\ r.op \notin Responses /\ tag[t].op # "IDLE"
  BY <1>1, <1>3, <1>4 DEF IInv, Types, Responses, Requests
<1> HIDE DEF r
<1> QED BY <1>3, <1>4, <1>5, TurnKeeps

(* The next fragment: the request is made anew. *)
LEMMA FragmentRecord ==
  ASSUME Types, NEW t \in Tags, NEW op \in Requests
  PROVE  \E r \in TagRecord : /\ Fragment(t, op) = [tag EXCEPT ![t] = r]
                              /\ r.op = op /\ r.seq = tag[t].seq
<1> DEFINE r == [tag[t] EXCEPT !.op = op, !.num = @ + 1, !.status = "PENDING"]
<1>1. tag[t] \in TagRecord
  BY DEF Types
<1>2. tag[t].num + 1 \in Nat
  BY <1>1 DEF TagRecord
<1>4. r \in TagRecord /\ r.op = op /\ r.seq = tag[t].seq
  <2> DEFINE d == [tag[t] EXCEPT !.op = op, !.num = tag[t].num + 1]
  <2>1. d \in TagRecord /\ d.op = op /\ d.seq = tag[t].seq
    BY <1>1, <1>2 DEF TagRecord
  <2>2. r = [d EXCEPT !.status = "PENDING"]
    BY <1>1 DEF TagRecord
  <2> HIDE DEF d, r
  <2> QED BY <2>1, <2>2 DEF TagRecord
<1>5. Fragment(t, op) = [tag EXCEPT ![t] = r]
  BY DEF Fragment, Types
<1> HIDE DEF r
<1> QED BY <1>4, <1>5

(* A reply was taken: the tag's operation is over and its slot free, or it *)
(* goes on with a request, and a slot it may keep.                         *)
LEMMA AnswerKeeps ==
  ASSUME IInv, NEW t \in Tags, Push(t, FALSE), tag[t].op \in Responses,
         NEW r \in TagRecord, tag' = [tag EXCEPT ![t] = r], r.seq \in {0, tag[t].seq},
         \/ r.op = "IDLE" /\ slots' = Cleared(t)
         \/ r.op \in Requests /\ slots' \in {slots, Cleared(t)},
         UNCHANGED <<seqId, out>>, in' \in {in, NoPacket}, ready' = FALSE
  PROVE  IInv'
<1>1. /\ r.op \notin Responses /\ tag[t].op # "IDLE"
      /\ slots' = Cleared(t) \/ (slots' = slots /\ r.op # "IDLE")
  BY DEF Responses, Requests
<1> QED BY <1>1, TurnKeeps

LEMMA TickleReadOkKeeps ==
  ASSUME IInv, NEW t \in Tags, TickleReadOk(t)
  PROVE  IInv'
<1>1. /\ Push(t, FALSE) /\ tag[t].op \in Responses /\ slots' = Cleared(t) /\ Types
      /\ UNCHANGED <<seqId, out>> /\ in' = NoPacket /\ ready' = FALSE
  BY DEF TickleReadOk, Answered, Consume, Responses, IInv
<1>2. CASE IsLast(t)
  <2> DEFINE r == Landed(Ended(tag[t], "OK"), "read")
  <2>1. r \in TagRecord /\ r.op = "IDLE" /\ r.seq = 0
    BY <1>1, Records
  <2>2. tag' = [tag EXCEPT ![t] = r]
    BY <1>1, <1>2 DEF TickleReadOk, Types
  <2> HIDE DEF r
  <2> QED BY <1>1, <2>1, <2>2, AnswerKeeps
<1>3. CASE ~IsLast(t)
  <2>1. tag' = Fragment(t, "READ_REQUEST") /\ "READ_REQUEST" \in Requests
    BY <1>3 DEF TickleReadOk, Requests
  <2>2. PICK r \in TagRecord : tag' = [tag EXCEPT ![t] = r] /\ r.op \in Requests
                               /\ r.seq = tag[t].seq
    BY <1>1, <2>1, FragmentRecord
  <2> QED BY <1>1, <2>2, AnswerKeeps
<1> QED BY <1>2, <1>3

LEMMA TickleReadErrorKeeps ==
  ASSUME IInv, NEW t \in Tags, TickleReadError(t)
  PROVE  IInv'
<1>1. /\ Push(t, FALSE) /\ tag[t].op \in Responses /\ slots' = Cleared(t) /\ Types
      /\ UNCHANGED <<seqId, out>> /\ in' = NoPacket /\ ready' = FALSE
  BY DEF TickleReadError, Answered, Consume, Responses, IInv
<1>2. CASE in.answer = "error"
  <2> DEFINE r == Landed(Ended(tag[t], "OK"), "read")
  <2>1. r \in TagRecord /\ r.op = "IDLE" /\ r.seq = 0
    BY <1>1, Records
  <2>2. tag' = [tag EXCEPT ![t] = r]
    BY <1>1, <1>2 DEF TickleReadError, Types
  <2> HIDE DEF r
  <2> QED BY <1>1, <2>1, <2>2, AnswerKeeps
<1>3. CASE in.answer # "error"
  <2> DEFINE e == Landed(Ended(tag[t], "PARTIAL"), "read")
             r == [e EXCEPT !.op = "READ_REQUEST"]
  <2>1. e \in TagRecord /\ e.op = "IDLE" /\ e.seq = 0
    BY <1>1, Records
  <2>2. tag' = [tag EXCEPT ![t] = r]
    BY <1>1, <1>3 DEF TickleReadError, Types
  <2> HIDE DEF e
  <2>3. r \in TagRecord /\ r.op \in Requests /\ r.seq = 0
    BY <2>1 DEF TagRecord, Requests
  <2> HIDE DEF r
  <2> QED BY <1>1, <2>2, <2>3, AnswerKeeps
<1> QED BY <1>2, <1>3

LEMMA TickleWriteOkKeeps ==
  ASSUME IInv, NEW t \in Tags, TickleWriteOk(t)
  PROVE  IInv'
<1>1. /\ Push(t, FALSE) /\ tag[t].op \in Responses /\ Types
      /\ UNCHANGED <<seqId, out>> /\ in' = NoPacket /\ ready' = FALSE
  BY DEF TickleWriteOk, Answered, Consume, Responses, IInv
<1>2. CASE IsLast(t)
  <2> DEFINE r == Landed(Ended(tag[t], "OK"), "write")
  <2>1. r \in TagRecord /\ r.op = "IDLE" /\ r.seq = 0
    BY <1>1, Records
  <2>2. tag' = [tag EXCEPT ![t] = r] /\ slots' = Cleared(t)
    BY <1>1, <1>2 DEF TickleWriteOk, Types
  <2> HIDE DEF r
  <2> QED BY <1>1, <2>1, <2>2, AnswerKeeps
<1>3. CASE ~IsLast(t)
  <2>1. tag' = Fragment(t, "WRITE_REQUEST") /\ "WRITE_REQUEST" \in Requests /\ slots' = slots
    BY <1>3 DEF TickleWriteOk, Requests
  <2>2. PICK r \in TagRecord : tag' = [tag EXCEPT ![t] = r] /\ r.op \in Requests
                               /\ r.seq = tag[t].seq
    BY <1>1, <2>1, FragmentRecord
  <2> QED BY <1>1, <2>1, <2>2, AnswerKeeps
<1> QED BY <1>2, <1>3

LEMMA TickleWriteErrorKeeps ==
  ASSUME IInv, NEW t \in Tags, TickleWriteError(t)
  PROVE  IInv'
<1>1. /\ Push(t, FALSE) /\ tag[t].op \in Responses /\ Types
      /\ UNCHANGED <<seqId, out>> /\ in' = NoPacket /\ ready' = FALSE
  BY DEF TickleWriteError, Answered, Consume, Responses, IInv
<1>2. CASE in.answer = "error"
  <2> DEFINE r == Landed(Ended(tag[t], "REMOTE"), "write")
  <2>1. r \in TagRecord /\ r.op = "IDLE" /\ r.seq = 0
    BY <1>1, Records
  <2>2. tag' = [tag EXCEPT ![t] = r] /\ slots' = Cleared(t)
    BY <1>1, <1>2 DEF TickleWriteError, Types
  <2> HIDE DEF r
  <2> QED BY <1>1, <2>1, <2>2, AnswerKeeps
<1>3. CASE in.answer # "error"
  <2> DEFINE e == Landed(Ended(tag[t], "PARTIAL"), "write")
             r == [e EXCEPT !.op = "WRITE_REQUEST"]
  <2>1. e \in TagRecord /\ e.op = "IDLE" /\ e.seq = 0
    BY <1>1, Records
  <2>2. tag' = [tag EXCEPT ![t] = r] /\ slots' = slots
    BY <1>1, <1>3 DEF TickleWriteError, Types
  <2> HIDE DEF e
  <2>3. r \in TagRecord /\ r.op \in Requests /\ r.seq = 0
    BY <2>1 DEF TagRecord, Requests
  <2> HIDE DEF r
  <2> QED BY <1>1, <2>2, <2>3, AnswerKeeps
<1> QED BY <1>2, <1>3

LEMMA TickleWriteForeignKeeps ==
  ASSUME IInv, NEW t \in Tags, TickleWriteForeign(t)
  PROVE  IInv'
<1> DEFINE r == Landed([tag[t] EXCEPT !.op = "IDLE", !.status = "PENDING"], "write")
<1>1. tag[t] \in TagRecord /\ tag[t].op \in Responses
  BY DEF IInv, Types, TickleWriteForeign, Responses
<1>2. r \in TagRecord /\ r.op = "IDLE" /\ r.seq = tag[t].seq
  BY <1>1 DEF TagRecord, Landed
<1>3. tag' = [tag EXCEPT ![t] = r] /\ Push(t, FALSE) /\ slots' = Cleared(t)
      /\ UNCHANGED <<seqId, out, in>> /\ ready' = FALSE
  BY DEF TickleWriteForeign, IInv, Types
<1> HIDE DEF r
<1> QED BY <1>1, <1>2, <1>3, AnswerKeeps

(* A request: its number is fresh until the numbers start again, so that   *)
(* no packet that still flies, and no other tag, has it.                   *)
LEMMA TickleRequestKeeps ==
  ASSUME IInv, NEW t \in Tags, TickleRequest(t)
  PROVE  IInv'
<1> DEFINE op == tag[t].op
           r == [tag[t] EXCEPT !.op = Response(op), !.seq = NextSeq]
           p == [seq |-> NextSeq, tag |-> t, kind |-> Kind(op), num |-> tag[t].num]
<1>1. /\ Types /\ tag[t] \in TagRecord /\ op \in Requests /\ CanRequest /\ Push(t, TRUE)
      /\ slots' = [slots EXCEPT ![Min(FreeSlots)] = t] /\ seqId' = NextSeq
      /\ tag' = [tag EXCEPT ![t] = r] /\ out' = p /\ UNCHANGED <<in, ready, wire, app, state>>
      /\ state = "READY" /\ cur' = t
  BY DEF TickleRequest, CanRequest, Push, IInv, Types
<1>2. /\ NextSeq \in 1..(SeqIds - 1) /\ (~SeqWraps => NextSeq = seqId + 1)
      /\ seqId \in Nat /\ NextSeq \in Nat /\ NextSeq # 0
  BY <1>1, NextNumber, SizeAssumption DEF Types
<1>3. /\ Response(op) \in Responses /\ Response(op) # "IDLE" /\ op # "IDLE"
      /\ Kind(op) \in {"read", "write"} /\ Kind(Response(op)) = Kind(op)
  BY <1>1 DEF Response, Responses, Requests, ReadOps, Kind
<1>4. r \in TagRecord /\ r.op = Response(op) /\ r.seq = NextSeq /\ r.num = tag[t].num
  <2>1. NextSeq \in 0..(SeqIds - 1)
    BY <1>2
  <2> DEFINE q == Response(op)
             n == NextSeq
  <2>2. n \in 0..(SeqIds - 1) /\ q \in Responses /\ r = [tag[t] EXCEPT !.op = q, !.seq = n]
    BY <1>3, <2>1
  <2> HIDE DEF q, n, r
  <2> QED BY <1>1, <2>2 DEF TagRecord, q, n
<1>5. p \in Packets
  BY <1>1, <1>2, <1>3 DEF Packets, TagRecord
<1>6. p.seq = NextSeq /\ p.tag = t /\ p.kind = Kind(op) /\ p.num = tag[t].num
  OBVIOUS
<1> HIDE DEF op, r, p
<1>7. \A u \in Tags : tag'[u] = IF u = t THEN r ELSE tag[u]
  BY <1>1 DEF Types
<1>8. /\ slots' \in [1..MaxInFlight -> Tags \cup {NoTag}]
      /\ \A s \in DOMAIN slots' : s \in DOMAIN slots /\ slots'[s] \in {t, slots[s]}
  BY <1>1 DEF Types
<1>9. Types'
  <2>1. tag' \in [Tags -> TagRecord]
    BY <1>1, <1>4 DEF Types
  <2> QED BY <1>1, <1>2, <1>5, <1>8, <2>1 DEF Types
<1>10. Sending'
  BY <1>1 DEF Sending
<1>11. Waiting'
  BY <1>2, <1>4, <1>7 DEF Waiting, IInv
<1>12. \A q \in Flying' : q = p \/ q \in Flying
  BY <1>1 DEF Flying
<1>13. ASSUME ~SeqWraps PROVE Numbered' /\ Matched'
  <2>1. /\ Numbered /\ Matched /\ \A u \in Tags : tag[u].seq \in Nat
        /\ \A q \in Flying : q.seq \in Nat
    BY <1>1, <1>13, SameFlying, SizeAssumption DEF IInv, Types, TagRecord
  <2>2. \A q \in Flying : q.seq < NextSeq
    BY <1>2, <1>13, <2>1 DEF Numbered
  <2>3. \A u \in Tags : tag[u].seq < NextSeq
    BY <1>2, <1>13, <2>1 DEF Numbered
  <2>4. Numbered'
    <3>1. \A q \in Flying' : q.seq <= seqId'
      BY <1>1, <1>2, <1>6, <1>12, <2>1, <2>2
    <3>2. \A u \in Tags : tag'[u].seq <= seqId'
      BY <1>1, <1>2, <1>4, <1>7, <2>1, <2>3
    <3> QED BY <3>1, <3>2 DEF Numbered
  <2>5. Matched'
    <3> SUFFICES ASSUME NEW u \in Tags, NEW q \in Flying', tag'[u].op \in Responses,
                        q.seq = tag'[u].seq
                 PROVE  q.tag = u /\ q.kind = Kind(tag'[u].op) /\ q.num = tag'[u].num
      BY DEF Matched
    <3>1. CASE u = t
      <4>1. q = p
        BY <1>2, <1>4, <1>7, <1>12, <2>1, <2>2, <3>1
      <4> QED BY <1>3, <1>4, <1>6, <1>7, <3>1, <4>1
    <3>2. CASE u # t
      <4>1. q # p /\ tag'[u] = tag[u]
        BY <1>2, <1>6, <1>7, <2>1, <2>3, <3>2
      <4> QED BY <1>12, <2>1, <4>1 DEF Matched
    <3> QED BY <3>1, <3>2
  <2> QED BY <2>4, <2>5
<1>14. ASSUME AutoStays PROVE NoneLeaves' /\ AtRest' /\ SlotsOwned'
  <2>1. NoneLeaves /\ AtRest /\ SlotsOwned
    BY <1>14 DEF IInv
  <2>2. NoneLeaves' /\ app[t] \notin {"unlinking", "gone"}
    BY <1>1, <1>3, <2>1 DEF NoneLeaves, AtRest, op
  <2>3. AtRest'
    BY <1>1, <1>7, <2>1, <2>2 DEF AtRest
  <2>4. SlotsOwned'
    <3> SUFFICES ASSUME NEW s \in DOMAIN slots', slots'[s] # NoTag
                 PROVE  tag'[slots'[s]].op # "IDLE" /\ app'[slots'[s]] # "gone"
      BY DEF SlotsOwned
    <3>1. CASE slots'[s] = t
      BY <1>1, <1>3, <1>4, <1>7, <2>2, <3>1
    <3>2. CASE slots'[s] # t
      <4>1. s \in DOMAIN slots /\ slots'[s] = slots[s] /\ slots[s] \in Tags
        BY <1>1, <1>8, <3>2 DEF Types
      <4>2. tag[slots[s]].op # "IDLE" /\ app[slots[s]] # "gone"
        BY <2>1, <4>1 DEF SlotsOwned
      <4> QED BY <1>1, <1>7, <3>2, <4>1, <4>2
    <3> QED BY <3>1, <3>2
  <2> QED BY <2>2, <2>3, <2>4
<1> QED BY <1>9, <1>10, <1>11, <1>13, <1>14 DEF IInv, AutoStays

LEMMA TickleKeeps ==
  ASSUME IInv, NEW t \in Tags, Tickle(t)
  PROVE  IInv'
<1>1. CASE TickleIdle(t)
  BY <1>1, RestKeeps DEF TickleIdle
<1>2. CASE TickleWait(t)
  BY <1>2, RestKeeps DEF TickleWait
<1> QED BY <1>1, <1>2, TickleAbortKeeps, TickleRequestKeeps, TickleRefusedKeeps,
           TickleRestartKeeps, TickleReadOkKeeps, TickleReadErrorKeeps, TickleWriteOkKeeps,
           TickleWriteErrorKeeps, TickleWriteForeignKeeps DEF Tickle

(* The generic part of a turn may start an automatic read; of a PLC with   *)
(* automatic reads no tag leaves, under AutoStays.                         *)
LEMMA GenericKeeps ==
  ASSUME IInv, NEW t \in Tags, Generic(t)
  PROVE  IInv'
<1>1. /\ Types /\ tag[t] \in TagRecord /\ app[t] \in AppStates
      /\ app' = [app EXCEPT ![t] = app[t]] /\ seqId' = seqId /\ cur' = NoTag
      /\ UNCHANGED <<state, out, wire>> /\ in' = in /\ ready' = ready
      /\ cur' \in Tags \cup {NoTag} /\ ready' \in BOOLEAN
  BY DEF Generic, IInv, Types, link
<1>2. /\ AutoStays => (AutoRead => app[t] \in {"idle", "aborting"})
      /\ AutoStays => (app[t] \in {"unlinking", "gone"} => tag[t].op = "IDLE")
  BY DEF IInv, NoneLeaves, AtRest
<1>3. CASE /\ tag' = [tag EXCEPT ![t] = [Ended(@, "OK") EXCEPT !.flight = "none",
                                                             !.abortReq = FALSE]]
           /\ slots' = Cleared(t)
  <2> DEFINE e == Landed(Ended(tag[t], "OK"), "read")
             r == [e EXCEPT !.flight = "none", !.abortReq = FALSE]
  <2>1. e \in TagRecord /\ e.op = "IDLE" /\ e.seq = 0
    BY <1>1, Records
  <2>2. [Ended(tag[t], "OK") EXCEPT !.flight = "none", !.abortReq = FALSE] = r
    BY <1>1 DEF Landed, Ended, TagRecord
  <2>3. tag' = [tag EXCEPT ![t] = r]
    BY <1>1, <1>3, <2>2 DEF Types
  <2> HIDE DEF e
  <2>4. r \in TagRecord /\ r.op = "IDLE" /\ r.seq = 0 /\ r.op \notin Responses
    BY <2>1 DEF TagRecord, Responses
  <2> HIDE DEF r
  <2> QED BY <1>1, <1>2, <1>3, <2>3, <2>4, TagStepKeeps
<1>4. CASE UNCHANGED <<tag, slots>>
  <2>1. tag' = [tag EXCEPT ![t] = tag[t]]
    BY <1>1, <1>4 DEF Types
  <2> QED BY <1>1, <1>2, <1>4, <2>1, TagStepKeeps
<1>5. CASE /\ AutoRead /\ tag[t].op = "IDLE" /\ tag' = [tag EXCEPT ![t] = Started(@, "read")]
           /\ slots' = slots
  <2> DEFINE r == Started(tag[t], "read")
  <2>1. r \in TagRecord /\ r.op = "READ_REQUEST" /\ r.seq = tag[t].seq
    BY <1>1, <1>5 DEF Started, TagRecord, Requests
  <2>2. tag' = [tag EXCEPT ![t] = r] /\ r.op # "IDLE" /\ r.op \notin Responses
    BY <1>1, <1>5, <2>1 DEF Types, Responses
  <2>3. AutoStays => app[t] \notin {"unlinking", "gone"}
    BY <1>2, <1>5
  <2> HIDE DEF r
  <2> QED BY <1>1, <1>2, <1>5, <2>1, <2>2, <2>3, TagStepKeeps
<1>6. CASE /\ tag' = [tag EXCEPT ![t].flight = "read", ![t].status = "BUSY"]
           /\ slots' = slots
  <2> DEFINE r == [tag[t] EXCEPT !.flight = "read", !.status = "BUSY"]
  <2>1. r \in TagRecord /\ r.op = tag[t].op /\ r.seq = tag[t].seq /\ r.num = tag[t].num
    BY <1>1 DEF TagRecord
  <2>2. tag' = [tag EXCEPT ![t] = r]
    BY <1>1, <1>6 DEF Types
  <2> HIDE DEF r
  <2> QED BY <1>1, <1>2, <1>6, <2>1, <2>2, TagStepKeeps, ZenonT(60)
<1> QED BY <1>3, <1>4, <1>5, <1>6 DEF Generic

-----------------------------------------------------------------------------
(* The handler's turns of the connection *)

(* A turn of the loop concerns no tag. *)
LEMMA LinkKeeps ==
  ASSUME IInv, NEW from, NEW to \in States, Turn(from, to), to = "SEND_REQUEST" => out' # NoPacket,
         out' \in Packets, in' \in Replies, ready' \in BOOLEAN, wire' \in Seq(Replies),
         \A p \in Flying' : p.seq \in Nat /\ Flew(p)
  PROVE  IInv'
<1>1. Types /\ UNCHANGED <<tag, app, cur, slots, seqId>> /\ state' = to
  BY DEF IInv, Turn
<1>2. Types'
  BY <1>1 DEF Types
<1>3. SendsNothing
  BY <1>1 DEF SendsNothing
<1>4. Waiting' /\ (~SeqWraps => Numbered' /\ Matched')
  BY <1>1, <1>3, NumbersKept DEF IInv
<1>5. Sending'
  BY <1>1 DEF Sending
<1>6. AutoStays => NoneLeaves' /\ AtRest' /\ SlotsOwned'
  BY <1>1 DEF IInv, NoneLeaves, AtRest, SlotsOwned
<1> QED BY <1>2, <1>4, <1>5, <1>6 DEF IInv, AutoStays

(* kept and the buffers hold nothing but what flew. *)
LEMMA KeptReply ==
  ASSUME IInv
  PROVE  /\ kept \in {in, NoPacket} /\ kept \in Replies /\ NoPacket \in Replies
         /\ NoPacket \in Packets /\ out \in Packets /\ wire \in Seq(Replies)
         /\ TRUE \in BOOLEAN /\ FALSE \in BOOLEAN
BY DEF kept, IInv, Types, Replies, Packets

(* Turns that transfer nothing *)
LEMMA NoTransferKeeps ==
  ASSUME IInv, NEW from \in States, NEW to \in States, Turn(from, to), NoTransfer,
         to = "SEND_REQUEST" => out # NoPacket
  PROVE  IInv'
<1>1. in' = kept /\ ready' = FALSE /\ UNCHANGED <<out, wire>>
  BY DEF NoTransfer
<1>2. \A p \in Flying' : p.seq \in Nat /\ Flew(p)
  BY <1>1, KeptReply, NothingFlies DEF IInv
<1> QED BY <1>1, <1>2, KeptReply, LinkKeeps

LEMMA QuietLinkKeeps ==
  ASSUME IInv, ConnectDone \/ ConnectFail \/ ErrWaitOver \/ Nothing \/ CanSend \/ CanReceive
  PROVE  IInv'
<1>1. {"CONNECT_START", "CONNECT_WAIT", "ERR_WAIT", "READY", "SEND_REQUEST", "RECEIVE_RESPONSE"}
        \subseteq States
  BY DEF States, Unconnected
<1>2. CASE ConnectDone
  BY <1>1, <1>2, NoTransferKeeps DEF ConnectDone
<1>3. CASE ConnectFail
  BY <1>1, <1>3, NoTransferKeeps DEF ConnectFail
<1>4. CASE ErrWaitOver
  BY <1>1, <1>4, NoTransferKeeps DEF ErrWaitOver
<1>5. CASE Nothing
  <2>1. PICK s \in States : Turn(s, s)
    BY <1>5 DEF Nothing
  <2>2. s = "SEND_REQUEST" => out # NoPacket
    BY <2>1 DEF Turn, IInv, Sending
  <2> QED BY <1>5, <2>1, <2>2, NoTransferKeeps DEF Nothing
<1>6. CASE CanSend
  BY <1>1, <1>6, NoTransferKeeps DEF CanSend
<1>7. CASE CanReceive
  BY <1>1, <1>7, NoTransferKeeps DEF CanReceive
<1> QED BY <1>2, <1>3, <1>4, <1>5, <1>6, <1>7

LEMMA ConnectKeeps ==
  ASSUME IInv, Connect
  PROVE  IInv'
<1>1. \E to \in {"READY", "CONNECT_WAIT"} : Turn("CONNECT_START", to)
  BY DEF Connect
<1>2. out' = NoPacket /\ in' = NoPacket /\ ready' = FALSE /\ wire' = wire
  BY DEF Connect
<1>3. \A p \in Flying' : p \in Flying \/ p = NoPacket
  BY <1>2 DEF Flying
<1>4. \A p \in Flying' : p.seq \in Nat /\ Flew(p)
  BY <1>3, SameFlying, NoPacketFlew DEF IInv
<1>5. {"READY", "CONNECT_WAIT"} \subseteq States
  BY DEF States, Unconnected
<1> QED BY <1>1, <1>2, <1>4, <1>5, KeptReply, LinkKeeps

(* The socket is closed: what was on the wire is lost. *)
LEMMA DisconnectedKeeps ==
  ASSUME IInv, Disconnected \/ Broken
  PROVE  IInv'
<1>1. \E from \in States : Turn(from, "CONNECT_START")
  BY DEF Disconnected, Broken, States, Unconnected
<1>2. out' \in {out, NoPacket} /\ in' \in {in, NoPacket} /\ ready' = FALSE /\ wire' = <<>>
  BY KeptReply DEF Disconnected, Broken
<1>3. \A p \in Flying' : p \in Flying \/ p = NoPacket
  BY <1>2 DEF Flying
<1>4. \A p \in Flying' : p.seq \in Nat /\ Flew(p)
  BY <1>3, SameFlying, NoPacketFlew DEF IInv
<1>5. "CONNECT_START" \in States /\ wire' \in Seq(Replies) /\ in' \in Replies
  BY <1>2, KeptReply DEF States, Unconnected, IInv, Types
<1> QED BY <1>1, <1>2, <1>4, <1>5, KeptReply, LinkKeeps

(* The server's answer has the packet's number and is about its fragment. *)
LEMMA SendKeeps ==
  ASSUME IInv, Send
  PROVE  IInv'
<1>1. /\ Types /\ Turn("SEND_REQUEST", "READY") /\ out # NoPacket /\ out \in Packets
      /\ out' = NoPacket /\ in' = kept /\ ready' = FALSE
  BY DEF Send, Turn, IInv, Types, Sending
<1>2. /\ out.seq \in 1..(SeqIds - 1) /\ out.tag \in Tags /\ out.kind \in {"read", "write"}
      /\ out.num \in Nat
  BY <1>1 DEF Packets
<1>3. PICK a \in Outcomes[out.kind] :
        IF a = "none" THEN wire' = wire ELSE wire' = Append(wire, Reply(out, a))
  BY DEF Send
<1>4. wire' \in Seq(Replies) /\ \A p \in Flying' : p \in Flying \/ p = NoPacket \/ p = Reply(out, a)
  <2>1. CASE a = "none"
    BY <1>1, <1>3, <2>1, KeptReply DEF Flying
  <2>2. CASE a # "none"
    <3>1. a \in Verdicts
      BY <1>2, <2>2, KindAssumption DEF AllOutcomes
    <3>2. Reply(out, a) \in Replies
      BY <1>2, <3>1 DEF Reply, Replies
    <3>3. wire' = Append(wire, Reply(out, a)) /\ wire \in Seq(Replies)
      BY <1>1, <1>3, <2>2 DEF Types
    <3>4. \A i \in DOMAIN wire' : wire'[i] = Reply(out, a) \/ (i \in DOMAIN wire /\ wire'[i] = wire[i])
      BY <3>2, <3>3
    <3>5. wire' \in Seq(Replies)
      BY <3>2, <3>3
    <3> QED BY <1>1, <3>4, <3>5, KeptReply DEF Flying
  <2> QED BY <2>1, <2>2
<1>5. Reply(out, a).seq \in Nat /\ Flew(Reply(out, a))
  BY <1>2, SizeAssumption DEF Reply, Flew, Flying
<1>6. \A p \in Flying' : p.seq \in Nat /\ Flew(p)
  BY <1>1, <1>4, <1>5, SameFlying, NoPacketFlew
<1>7. "READY" \in States
  BY DEF States
<1> QED BY <1>1, <1>4, <1>6, <1>7, KeptReply, LinkKeeps

LEMMA ReceiveKeeps ==
  ASSUME IInv, Receive
  PROVE  IInv'
<1>1. Types /\ Turn("RECEIVE_RESPONSE", "READY") /\ ready' = TRUE /\ out' = out
  BY DEF Receive, IInv
<1>2. in' \in Replies /\ wire' \in Seq(Replies) /\ \A p \in Flying' : p \in Flying \/ p = NoPacket
  <2>1. CASE kept = NoPacket
    <3>1. /\ wire \in Seq(Replies) /\ wire # <<>> /\ in' = Head(wire) /\ wire' = Tail(wire)
      BY <1>1, <2>1 DEF Receive, Types
    <3>2. /\ in' \in Replies /\ wire' \in Seq(Replies) /\ in' = wire[1] /\ 1 \in DOMAIN wire
          /\ \A i \in DOMAIN wire' : i + 1 \in DOMAIN wire /\ wire'[i] = wire[i + 1]
      BY <3>1
    <3> QED BY <1>1, <3>2 DEF Flying
  <2>2. CASE kept # NoPacket
    BY <1>1, <2>2, KeptReply DEF Receive, Flying
  <2> QED BY <2>1, <2>2
<1>3. \A p \in Flying' : p.seq \in Nat /\ Flew(p)
  BY <1>1, <1>2, SameFlying, NoPacketFlew
<1>4. "READY" \in States
  BY DEF States
<1> QED BY <1>1, <1>2, <1>3, <1>4, KeptReply, LinkKeeps

LEMMA HandlerKeeps ==
  ASSUME IInv, Handler
  PROVE  IInv'
BY TickleKeeps, GenericKeeps, ConnectKeeps, QuietLinkKeeps, DisconnectedKeeps, SendKeeps,
   ReceiveKeeps DEF Handler

-----------------------------------------------------------------------------
(* The application's calls *)

LEMMA StartKeeps ==
  ASSUME IInv, NEW t \in Tags, NEW kind \in Kinds, Start(t, kind)
  PROVE  IInv'
<1> DEFINE r == Started(tag[t], kind)
<1>1. /\ tag[t] \in TagRecord /\ app' = [app EXCEPT ![t] = "idle"] /\ app[t] = "idle"
      /\ slots' = slots /\ UNCHANGED <<state, cur, seqId, out, in, ready, wire>>
      /\ cur' \in Tags \cup {NoTag} /\ ready' \in BOOLEAN /\ "idle" \in AppStates
      /\ tag[t].op = "IDLE" /\ tag' = [tag EXCEPT ![t] = r]
  BY DEF Start, Outside, IInv, Types, link, AppStates
<1>2. r \in TagRecord /\ r.op \in Requests /\ r.seq = tag[t].seq
  <2>1. CASE kind = "read"
    BY <1>1, <2>1 DEF Started, TagRecord, Requests
  <2>2. CASE kind = "write"
    BY <1>1, <2>2 DEF Started, TagRecord, Requests
  <2> QED BY <2>1, <2>2, KindAssumption
<1>3. r.op # "IDLE" /\ r.op \notin Responses
  BY <1>2 DEF Requests, Responses
<1> HIDE DEF r
<1> QED BY <1>1, <1>2, <1>3, TagStepKeeps

(* The operation is over, with its slots, and its flags are as they may. *)
LEMMA AbortedRecord ==
  ASSUME Types, NEW t \in Tags, NEW f \in {"none", "read", "write"}, NEW b \in BOOLEAN
  PROVE  LET r == [Ended(tag[t], "OK") EXCEPT !.flight = f, !.abortReq = b]
         IN  r \in TagRecord /\ r.op = "IDLE" /\ r.seq = 0 /\ r.op \notin Responses
<1> DEFINE e == Landed(Ended(tag[t], "OK"), "read")
           r == [e EXCEPT !.flight = f, !.abortReq = b]
<1>1. e \in TagRecord /\ e.op = "IDLE" /\ e.seq = 0
  BY Records
<1>2. [Ended(tag[t], "OK") EXCEPT !.flight = f, !.abortReq = b] = r
  BY DEF Landed, Ended, Types, TagRecord
<1> HIDE DEF e
<1>3. r \in TagRecord /\ r.op = "IDLE" /\ r.seq = 0 /\ r.op \notin Responses
  BY <1>1 DEF TagRecord, Responses
<1> QED BY <1>2, <1>3

(* A call that ends the tag's operation, or finds it ended *)
LEMMA EndingKeeps ==
  ASSUME IInv, NEW t \in Tags, NEW a \in AppStates, app' = [app EXCEPT ![t] = a],
         NEW f \in {"none", "read", "write"}, NEW b \in BOOLEAN,
         tag' = [tag EXCEPT ![t] = [Ended(tag[t], "OK") EXCEPT !.flight = f, !.abortReq = b]],
         slots' = Cleared(t), AutoStays => (AutoRead => a \in {"idle", "aborting"}),
         UNCHANGED <<state, cur, seqId, out, in, ready, wire>>
  PROVE  IInv'
<1> DEFINE r == [Ended(tag[t], "OK") EXCEPT !.flight = f, !.abortReq = b]
<1>1. r \in TagRecord /\ r.op = "IDLE" /\ r.seq = 0 /\ r.op \notin Responses
  BY AbortedRecord, ZenonT(60) DEF IInv
<1>2. cur' \in Tags \cup {NoTag} /\ ready' \in BOOLEAN
  BY DEF IInv, Types
<1>3. tag' = [tag EXCEPT ![t] = r]
  OBVIOUS
<1> HIDE DEF r
<1> QED BY <1>1, <1>2, <1>3, TagStepKeeps

LEMMA StartBusyKeeps ==
  ASSUME IInv, NEW t \in Tags, NEW kind \in Kinds, StartBusy(t, kind)
  PROVE  IInv'
<1> DEFINE e == Ended(tag[t], "OK")
           b == tag[t].abortReq \/ kind = "read"
           f == tag[t].flight
<1>1. /\ tag[t] \in TagRecord /\ app' = [app EXCEPT ![t] = "idle"] /\ slots' = Cleared(t)
      /\ UNCHANGED <<state, cur, seqId, out, in, ready, wire>> /\ "idle" \in AppStates
  BY DEF StartBusy, Outside, IInv, Types, link, AppStates
<1>2. b \in BOOLEAN
  OBVIOUS
<1>3. f \in {"none", "read", "write"}
  BY <1>1 DEF TagRecord
<1>4. tag' = [tag EXCEPT ![t] = [e EXCEPT !.abortReq = b]]
  BY Zenon DEF StartBusy
<1> HIDE DEF b
<1>5. [e EXCEPT !.abortReq = b] = [e EXCEPT !.flight = f, !.abortReq = b]
  BY <1>1 DEF Ended, TagRecord
<1>6. tag' = [tag EXCEPT ![t] = [Ended(tag[t], "OK") EXCEPT !.flight = f, !.abortReq = b]]
  BY <1>4, <1>5
<1> HIDE DEF e, f
<1> QED BY <1>1, <1>2, <1>3, <1>6, EndingKeeps

LEMMA AbortFlagKeeps ==
  ASSUME IInv, NEW t \in Tags, AbortFlag(t)
  PROVE  IInv'
<1> DEFINE r == [tag[t] EXCEPT !.abortReq = TRUE]
<1>1. PICK a \in Calls[t] : app' = [app EXCEPT ![t] = a]
  BY DEF AbortFlag
<1>2. /\ a \in {"aborting", "destroying"} /\ a \in AppStates
      /\ AutoStays => (AutoRead => a \in {"idle", "aborting"})
  BY <1>1, CallAssumption DEF AppStates, AutoStays
<1>3. /\ tag[t] \in TagRecord /\ slots' = slots
      /\ UNCHANGED <<state, cur, seqId, out, in, ready, wire>>
      /\ cur' \in Tags \cup {NoTag} /\ ready' \in BOOLEAN /\ tag' = [tag EXCEPT ![t] = r]
  BY DEF AbortFlag, Outside, IInv, Types, link
<1>4. r \in TagRecord /\ r.op = tag[t].op /\ r.seq = tag[t].seq /\ r.num = tag[t].num
  BY <1>3 DEF TagRecord
<1> HIDE DEF r
<1> QED BY <1>1, <1>2, <1>3, <1>4, TagStepKeeps

LEMMA AbortRunKeeps ==
  ASSUME IInv, NEW t \in Tags, AbortRun(t)
  PROVE  IInv'
<1> DEFINE a == IF app[t] = "aborting" THEN "idle" ELSE "dying"
<1>1. /\ tag[t] \in TagRecord /\ app' = [app EXCEPT ![t] = a] /\ a \in AppStates
      /\ UNCHANGED <<state, cur, seqId, out, in, ready, wire>>
      /\ cur' \in Tags \cup {NoTag} /\ ready' \in BOOLEAN
  BY DEF AbortRun, Outside, IInv, Types, link, AppStates
<1>2. /\ AutoStays => (AutoRead => a \in {"idle", "aborting"})
      /\ a \notin {"unlinking", "gone"}
  BY DEF AbortRun, IInv, NoneLeaves
<1> HIDE DEF a
<1>3. CASE tag[t].abortReq
  <2>1. tag[t].abortReq = TRUE /\ TRUE \in BOOLEAN
    BY <1>1, <1>3 DEF TagRecord
  <2>2. [Ended(tag[t], "OK") EXCEPT !.flight = "none"]
          = [Ended(tag[t], "OK") EXCEPT !.flight = "none", !.abortReq = TRUE]
    BY <1>1, <2>1 DEF Ended, TagRecord
  <2>3. /\ tag' = [tag EXCEPT ![t] = [Ended(tag[t], "OK") EXCEPT !.flight = "none"]]
        /\ slots' = Cleared(t)
    BY <1>3 DEF AbortRun, Aborted, IInv, Types
  <2> QED BY <1>1, <1>2, <2>1, <2>2, <2>3, EndingKeeps
<1>4. CASE ~tag[t].abortReq
  <2> DEFINE r == [tag[t] EXCEPT !.flight = "none"]
  <2>1. r \in TagRecord /\ r.op = tag[t].op /\ r.seq = tag[t].seq /\ r.num = tag[t].num
    BY <1>1 DEF TagRecord
  <2>2. tag' = [tag EXCEPT ![t] = r] /\ slots' = slots
    BY <1>1, <1>4 DEF AbortRun, IInv, Types
  <2> HIDE DEF r
  <2> QED BY <1>1, <1>2, <2>1, <2>2, TagStepKeeps
<1> QED BY <1>3, <1>4

LEMMA DestroyKeeps ==
  ASSUME IInv, NEW t \in Tags, Destroy(t)
  PROVE  IInv'
<1> DEFINE b == tag[t].abortReq
           f == tag[t].flight
<1>1. /\ tag[t] \in TagRecord /\ app' = [app EXCEPT ![t] = "unlinking"] /\ slots' = Cleared(t)
      /\ UNCHANGED <<state, cur, seqId, out, in, ready, wire>> /\ "unlinking" \in AppStates
  BY DEF Destroy, Outside, IInv, Types, link, AppStates
<1>2. b \in BOOLEAN /\ f \in {"none", "read", "write"}
  BY <1>1 DEF TagRecord
<1>3. tag' = [tag EXCEPT ![t] = [Ended(tag[t], "OK") EXCEPT !.flight = f, !.abortReq = b]]
  BY <1>1 DEF Destroy, Ended, TagRecord, IInv, Types
<1>4. ~(AutoStays /\ AutoRead)
  BY DEF Destroy, IInv, NoneLeaves
<1> HIDE DEF b, f
<1> QED BY <1>1, <1>2, <1>3, <1>4, EndingKeeps

LEMMA UnlinkKeeps ==
  ASSUME IInv, NEW t \in Tags, Unlink(t)
  PROVE  IInv'
<1>1. /\ tag' = [tag EXCEPT ![t] = tag[t]] /\ tag[t] \in TagRecord
      /\ app' = [app EXCEPT ![t] = "gone"] /\ "gone" \in AppStates /\ slots' = slots
      /\ UNCHANGED <<state, cur, seqId, out, in, ready, wire>>
      /\ cur' \in Tags \cup {NoTag} /\ ready' \in BOOLEAN
  BY DEF Unlink, IInv, Types, link, AppStates
<1>2. AutoStays => ~AutoRead /\ tag[t].op = "IDLE"
  BY DEF Unlink, IInv, NoneLeaves, AtRest
<1> QED BY <1>1, <1>2, TagStepKeeps

-----------------------------------------------------------------------------
(* The theorems *)

LEMMA InitInvariant == Init => IInv
<1> SUFFICES ASSUME Init PROVE IInv
  OBVIOUS
<1>1. Types
  <2>1. 0 \in Nat /\ 0 \in 0..(SeqIds - 1) /\ <<>> \in Seq(Replies) /\ FALSE \in BOOLEAN
    BY SizeAssumption
  <2>2. "READ_REQUEST" \in Requests
    BY DEF Requests
  <2>3. tag \in [Tags -> TagRecord]
    BY <2>1, <2>2 DEF Init, TagRecord
  <2> QED BY <2>1, <2>3 DEF Init, Types, AppStates, States, Unconnected, Packets, Replies
<1>2. \A t \in Tags : tag[t].op = "READ_REQUEST" /\ tag[t].seq = 0 /\ app[t] = "idle"
  BY DEF Init
<1>3. \A p \in Flying : p.seq = 0
  BY DEF Init, Flying, NoPacket
<1>4. Sending /\ Waiting /\ Matched /\ NoneLeaves /\ AtRest
  BY <1>2 DEF Init, Sending, Waiting, Matched, NoneLeaves, AtRest, Responses
<1>5. Numbered
  BY <1>2, <1>3 DEF Init, Numbered
<1>6. SlotsOwned
  BY DEF Init, SlotsOwned
<1> QED BY <1>1, <1>4, <1>5, <1>6 DEF IInv

LEMMA NextKeeps ==
  ASSUME IInv, [Next]_vars
  PROVE  IInv'
<1>1. CASE Handler
  BY <1>1, HandlerKeeps
<1>2. ASSUME NEW t \in Tags, Application(t) PROVE IInv'
  BY <1>2, StartKeeps, StartBusyKeeps, AbortFlagKeeps, AbortRunKeeps, DestroyKeeps,
     UnlinkKeeps DEF Application
<1>3. CASE UNCHANGED vars
  BY <1>3 DEF vars, lists, link, IInv, Types, Sending, Waiting, Numbered, Matched, Flying,
             AutoStays, NoneLeaves, AtRest, SlotsOwned
<1> QED BY <1>1, <1>2, <1>3 DEF Next

(* Every state of a PLC's tags, slots and packets satisfies the inductive  *)
(* invariant, however calls, losses and late answers come in between.      *)
THEOREM ModbusInvariant == Spec => []IInv
<1>1. Init => IInv
  BY InitInvariant
<1>2. IInv /\ [Next]_vars => IInv'
  BY NextKeeps
<1> QED BY <1>1, <1>2, PTL DEF Spec

(* A request slot belongs to a tag that is on the PLC's list and has an    *)
(* operation (tickle_tag(), mb_abort() and modbus_tag_destructor() free    *)
(* every slot of a tag they end), as long as tags that are read            *)
(* automatically are not destroyed while their PLC goes on.                *)
THEOREM NoSlotLost ==
  ASSUME AutoStays
  PROVE  Spec => []SlotsOwned
<1>1. IInv => SlotsOwned
  BY DEF IInv
<1> QED BY <1>1, ModbusInvariant, PTL

(* A reply that has a waiting tag's number is the one to its last packet   *)
(* (check_read_response() and check_write_response() compare no more than  *)
(* the number), until the PLC's numbers start again from one.              *)
THEOREM ReplyForItsRequest ==
  ASSUME SeqWraps = FALSE
  PROVE  Spec => []ReplyFits
<1>1. IInv => ReplyFits
  BY DEF IInv, ReplyFits, Matched, Flying
<1> QED BY <1>1, ModbusInvariant, PTL

-----------------------------------------------------------------------------
(* What an operation has moved.  A read of any number of fragments goes    *)
(* through the tag's data from its start; a write is one packet.  That is  *)
(* so of the PLCs below: a write of several packets that meets the reply   *)
(* to another tag's packet keeps its place for the next operation, and an  *)
(* error that answers a read is turned into OK.                            *)
Undivided ==
  /\ ~SeqWraps /\ "error" \notin Outcomes["read"]
  /\ "write" \in Kinds => Size <= RequestPayload

Writes == {"WRITE_REQUEST", "WRITE_RESPONSE"}

(* The place in a tag's data where its operation is *)
Placed(r, m) ==
  /\ m \subseteq 0..(Size - 1)
  /\ r.op \in ReadOps => 0..(r.num * ResponsePayload - 1) \subseteq m
  /\ r.op \notin ReadOps => r.num = 0
  /\ r.op \in Writes => Size <= RequestPayload

(* No read was answered with an error. *)
NoReadError(p) == p.seq # 0 /\ p.kind = "read" => p.answer # "error"
ReadsAnswered  == NoReadError(in) /\ \A i \in DOMAIN wire : NoReadError(wire[i])

AllPlaced == /\ moved \in [Tags -> SUBSET (0..(Size - 1))]
             /\ \A t \in Tags : Placed(tag[t], moved[t])
Moving    == IInv /\ ReadsAnswered /\ AllPlaced

(* What OkMovesAll says of a step, for one tag *)
MovesAll(t) ==
  (tag[t].op \in Responses /\ tag'[t].op = "IDLE" /\ tag'[t].status = "OK")
    => moved'[t] = 0..(Size - 1)
StepMoves == \A t \in Tags : cur = NoTag /\ cur' = t => MovesAll(t)

LEMMA NoOperation ==
  ASSUME NEW r, NEW m, m \subseteq 0..(Size - 1), r.op = "IDLE", r.num = 0
  PROVE  Placed(r, m)
BY DEF Placed, ReadOps, Writes

LEMMA FromTheStart ==
  ASSUME NEW r, NEW m, m \subseteq 0..(Size - 1), r.num = 0,
         r.op \in ReadOps \/ (r.op \in Writes /\ Size <= RequestPayload)
  PROVE  Placed(r, m)
<1>1. r.num * ResponsePayload = 0 /\ 0..(0 - 1) = {}
  BY SizeAssumption
<1>2. Writes \cap ReadOps = {}
  BY DEF Writes, ReadOps
<1>3. 0..(r.num * ResponsePayload - 1) \subseteq m
  BY <1>1
<1> QED BY <1>2, <1>3 DEF Placed

LEMMA SamePlace ==
  ASSUME NEW r, NEW s, NEW m, Placed(s, m), r.num = s.num,
         r.op \in ReadOps <=> s.op \in ReadOps, r.op \in Writes => s.op \in Writes
  PROVE  Placed(r, m)
<1>1. r.op \in ReadOps => 0..(r.num * ResponsePayload - 1) \subseteq m
  <2> SUFFICES ASSUME r.op \in ReadOps PROVE 0..(s.num * ResponsePayload - 1) \subseteq m
    OBVIOUS
  <2> QED BY Zenon DEF Placed
<1>2. r.op \notin ReadOps => r.num = 0
  BY Zenon DEF Placed
<1> QED BY <1>1, <1>2 DEF Placed

LEMMA EndedRecord ==
  ASSUME NEW r \in TagRecord, NEW kind, NEW code
  PROVE  /\ Ended(r, code).op = "IDLE" /\ Ended(r, code).num = 0
         /\ Landed(Ended(r, code), kind).op = "IDLE" /\ Landed(Ended(r, code), kind).num = 0
         /\ Landed(Ended(r, code), kind).status = code
         /\ Landed(Ended(r, code), kind)
              = [Ended(r, code) EXCEPT !.flight = Landed(Ended(r, code), kind).flight]
BY DEF Ended, Landed, TagRecord

(* A step of one tag that sends nothing *)
LEMMA PlacesKept ==
  ASSUME ReadsAnswered, AllPlaced, Types, NEW t \in Tags, NEW r, NEW m, Placed(r, m),
         tag' = [tag EXCEPT ![t] = r], moved' = [moved EXCEPT ![t] = m],
         in' \in {in, NoPacket}, wire' = wire
  PROVE  ReadsAnswered' /\ AllPlaced'
<1>1. ReadsAnswered'
  BY DEF ReadsAnswered, NoReadError, NoPacket
<1>2. moved' \in [Tags -> SUBSET (0..(Size - 1))]
  BY DEF AllPlaced, Placed
<1>3. ASSUME NEW u \in Tags PROVE Placed(tag'[u], moved'[u])
  <2>1. CASE u = t
    BY <2>1 DEF AllPlaced, Types
  <2>2. CASE u # t
    <3>1. tag'[u] = tag[u] /\ moved'[u] = moved[u] /\ Placed(tag[u], moved[u])
      BY <2>2 DEF AllPlaced, Types
    <3> QED BY <3>1
  <2> QED BY <2>1, <2>2
<1> QED BY <1>1, <1>2, <1>3 DEF AllPlaced

(* ... and that takes no reply of the tag: it leaves the data alone. *)
LEMMA TagPlaceKept ==
  ASSUME Moving, NEW t \in Tags, NEW r, Placed(r, moved[t]),
         tag' = [tag EXCEPT ![t] = r], moved' = moved,
         in' \in {in, NoPacket}, wire' = wire
  PROVE  ReadsAnswered' /\ AllPlaced'
<1> DEFINE m == moved[t]
<1>1. moved = [u \in Tags |-> moved[u]] /\ moved' = [moved EXCEPT ![t] = m]
  BY DEF Moving, AllPlaced
<1>2. ReadsAnswered /\ AllPlaced /\ Types /\ Placed(r, m)
  BY DEF Moving, IInv
<1> HIDE DEF m
<1> QED BY <1>1, <1>2, PlacesKept

LEMMA PlaceOf ==
  ASSUME Moving, NEW t \in Tags
  PROVE  /\ Types /\ tag[t] \in TagRecord /\ Placed(tag[t], moved[t])
         /\ moved[t] \subseteq 0..(Size - 1)
         /\ tag[t].op \notin ReadOps => tag[t].num = 0
         /\ moved \in [Tags -> SUBSET (0..(Size - 1))]
BY DEF Moving, IInv, Types, AllPlaced, Placed

-----------------------------------------------------------------------------
(* The turns of a tag *)

LEMMA TurnOf ==
  ASSUME NEW t \in Tags, NEW pending, Push(t, pending), MovesAll(t)
  PROVE  StepMoves
BY DEF Push, StepMoves

(* A turn in which the operation stays where it is *)
LEMMA TurnStays ==
  ASSUME Moving, NEW t \in Tags, NEW pending, Push(t, pending), NEW r,
         tag' = [tag EXCEPT ![t] = r], moved' = moved, r.num = tag[t].num,
         r.op \in ReadOps <=> tag[t].op \in ReadOps, r.op \in Writes => tag[t].op \in Writes,
         tag[t].op \in Responses => r.op # "IDLE", in' = in
  PROVE  ReadsAnswered' /\ AllPlaced' /\ StepMoves
<1>1. Placed(r, moved[t]) /\ tag'[t] = r
  BY PlaceOf, SamePlace DEF Types
<1>2. ReadsAnswered' /\ AllPlaced'
  BY <1>1, TagPlaceKept DEF Push
<1>3. MovesAll(t)
  BY <1>1 DEF MovesAll
<1> QED BY <1>2, <1>3, TurnOf

LEMMA TickleAbortMoves ==
  ASSUME Moving, NEW t \in Tags, TickleAbort(t)
  PROVE  ReadsAnswered' /\ AllPlaced' /\ StepMoves
<1> DEFINE r == [tag[t] EXCEPT !.abortReq = FALSE]
<1>1. tag[t] \in TagRecord /\ Types
  BY PlaceOf
<1>2. r.op = tag[t].op /\ r.num = tag[t].num
  BY <1>1 DEF TagRecord
<1>3. tag' = [tag EXCEPT ![t] = r] /\ Push(t, FALSE) /\ moved' = moved /\ in' = in
  BY <1>1 DEF TickleAbort, Types
<1>4. tag[t].op \in Responses => r.op # "IDLE"
  BY <1>2 DEF Responses
<1> HIDE DEF r
<1> QED BY <1>2, <1>3, <1>4, TurnStays

LEMMA TickleRestMoves ==
  ASSUME Moving, NEW t \in Tags, TickleIdle(t) \/ TickleWait(t)
  PROVE  ReadsAnswered' /\ AllPlaced' /\ StepMoves
<1>1. Types
  BY PlaceOf
<1>2. /\ \E pending \in BOOLEAN : Push(t, pending)
      /\ tag' = [tag EXCEPT ![t] = tag[t]] /\ moved' = moved /\ in' = in
  BY <1>1 DEF TickleIdle, TickleWait, Types
<1>3. tag[t].op \in Responses => tag[t].op # "IDLE"
  BY DEF Responses
<1> QED BY <1>2, <1>3, TurnStays

LEMMA TickleRequestMoves ==
  ASSUME Moving, NEW t \in Tags, TickleRequest(t)
  PROVE  ReadsAnswered' /\ AllPlaced' /\ StepMoves
<1> DEFINE q == Response(tag[t].op)
           n == NextSeq
           r == [tag[t] EXCEPT !.op = q, !.seq = n]
<1>1. tag[t] \in TagRecord /\ Types
  BY PlaceOf
<1>2. /\ tag' = [tag EXCEPT ![t] = r] /\ Push(t, TRUE) /\ moved' = moved /\ in' = in
      /\ tag[t].op \in Requests
  BY <1>1 DEF TickleRequest, Types
<1>3. q \in ReadOps <=> tag[t].op \in ReadOps
  BY <1>2 DEF Response, ReadOps, Requests
<1>4. /\ q \in Writes => tag[t].op \in Writes
      /\ tag[t].op \in Responses => q # "IDLE"
  BY <1>2 DEF Response, ReadOps, Writes, Requests, Responses
<1> HIDE DEF q, n
<1>5. r.op = q /\ r.num = tag[t].num
  BY <1>1 DEF TagRecord
<1> HIDE DEF r
<1> QED BY <1>2, <1>3, <1>4, <1>5, TurnStays

LEMMA TickleRestartMoves ==
  ASSUME Moving, NEW t \in Tags, TickleRestart(t)
  PROVE  ReadsAnswered' /\ AllPlaced' /\ StepMoves
<1> DEFINE q == Request(tag[t].op)
           r == [tag[t] EXCEPT !.op = q]
<1>1. tag[t] \in TagRecord /\ Types
  BY PlaceOf
<1>2. /\ tag' = [tag EXCEPT ![t] = r] /\ Push(t, FALSE) /\ moved' = moved /\ in' = in
      /\ tag[t].op \in Responses
  BY <1>1 DEF TickleRestart, Types
<1>3. q \in ReadOps <=> tag[t].op \in ReadOps
  BY <1>2 DEF Request, ReadOps, Responses
<1>4. /\ q \in Writes => tag[t].op \in Writes
      /\ tag[t].op \in Responses => q # "IDLE"
  BY <1>2 DEF Request, ReadOps, Writes, Responses
<1> HIDE DEF q
<1>5. r.op = q /\ r.num = tag[t].num
  BY <1>1 DEF TagRecord
<1> HIDE DEF r
<1> QED BY <1>2, <1>3, <1>4, <1>5, TurnStays

(* A turn that ends the operation without OK, or did not wait for a reply *)
LEMMA TurnEnds ==
  ASSUME Moving, NEW t \in Tags, NEW pending, Push(t, pending), NEW r,
         tag' = [tag EXCEPT ![t] = r], moved' = moved, r.op = "IDLE", r.num = 0,
         tag[t].op \in Responses => r.status # "OK", in' \in {in, NoPacket}
  PROVE  ReadsAnswered' /\ AllPlaced' /\ StepMoves
<1>1. Placed(r, moved[t]) /\ tag'[t] = r
  BY PlaceOf, NoOperation DEF Types
<1>2. ReadsAnswered' /\ AllPlaced'
  BY <1>1, TagPlaceKept DEF Push
<1>3. MovesAll(t)
  BY <1>1 DEF MovesAll
<1> QED BY <1>2, <1>3, TurnOf

LEMMA TickleRefusedMoves ==
  ASSUME Moving, NEW t \in Tags, TickleRefused(t)
  PROVE  ReadsAnswered' /\ AllPlaced' /\ StepMoves
<1> DEFINE r == Landed([tag[t] EXCEPT !.op = "IDLE", !.status = "UNSUPPORTED"], "write")
<1>1. /\ tag[t] \in TagRecord /\ Types /\ (tag[t].op \notin ReadOps => tag[t].num = 0)
  BY PlaceOf
<1>2. /\ tag' = [tag EXCEPT ![t] = r] /\ Push(t, FALSE) /\ moved' = moved /\ in' = in
      /\ tag[t].op = "WRITE_REQUEST"
  BY <1>1 DEF TickleRefused, Types
<1>3. tag[t].op \notin Responses /\ tag[t].num = 0
  BY <1>1, <1>2 DEF ReadOps, Responses
<1>4. r.op = "IDLE" /\ r.num = 0
  BY <1>1, <1>3 DEF Landed, TagRecord
<1> HIDE DEF r
<1> QED BY <1>2, <1>3, <1>4, TurnEnds

LEMMA TickleWriteForeignMoves ==
  ASSUME Moving, NEW t \in Tags, TickleWriteForeign(t)
  PROVE  ReadsAnswered' /\ AllPlaced' /\ StepMoves
<1> DEFINE r == Landed([tag[t] EXCEPT !.op = "IDLE", !.status = "PENDING"], "write")
<1>1. /\ tag[t] \in TagRecord /\ Types /\ (tag[t].op \notin ReadOps => tag[t].num = 0)
  BY PlaceOf
<1>2. /\ tag' = [tag EXCEPT ![t] = r] /\ Push(t, FALSE) /\ moved' = moved /\ in' = in
      /\ tag[t].op = "WRITE_RESPONSE"
  BY <1>1 DEF TickleWriteForeign, Types
<1>3. tag[t].num = 0
  BY <1>1, <1>2 DEF ReadOps
<1>4. r.op = "IDLE" /\ r.num = 0 /\ r.status = "PENDING"
  BY <1>1, <1>3 DEF Landed, TagRecord
<1> HIDE DEF r
<1> QED BY <1>2, <1>4, TurnEnds

-----------------------------------------------------------------------------
(* A reply is taken. *)

LEMMA ReplyTaken ==
  ASSUME Moving, Undivided, NEW t \in Tags, NEW op \in Responses, Answered(t, op)
  PROVE  /\ in.seq # 0 /\ in.kind = Kind(op) /\ in.num = tag[t].num
         /\ tag[t].num \in Nat /\ tag[t].op = op
         /\ NoReadError(in)
<1>1. Waiting /\ Matched /\ in \in Flying /\ NoReadError(in) /\ tag[t] \in TagRecord
  BY DEF Moving, IInv, Undivided, Flying, ReadsAnswered, Types
<1>2. tag[t].op = op /\ in.seq = tag[t].seq
  BY DEF Answered
<1>3. in.seq # 0 /\ in.kind = Kind(op) /\ in.num = tag[t].num
  BY <1>1, <1>2 DEF Waiting, Matched
<1> QED BY <1>1, <1>2, <1>3 DEF TagRecord

(* The fragments of a tag's data follow each other without a gap. *)
LEMMA NextPart ==
  ASSUME NEW n \in Nat, NEW w \in Nat, NEW m, m \subseteq 0..(Size - 1), 0..(n * w - 1) \subseteq m
  PROVE  LET e == Min({Size, (n + 1) * w})
             k == m \cup ((n * w)..(e - 1))
         IN  /\ k \subseteq 0..(Size - 1)
             /\ (n + 1) * w >= Size => k = 0..(Size - 1)
             /\ ~((n + 1) * w >= Size) => 0..((n + 1) * w - 1) \subseteq k
<1> DEFINE a == n * w
           b == (n + 1) * w
<1>1. a \in Nat /\ b \in Nat
  BY SMT
<1>2. Size \in Nat
  BY SizeAssumption
<1> HIDE DEF a, b
<1>3. Min({Size, b}) = IF Size <= b THEN Size ELSE b
  BY <1>1, <1>2 DEF Min
<1>4. m \subseteq 0..(Size - 1) /\ 0..(a - 1) \subseteq m
  BY DEF a
<1> DEFINE k == m \cup (a..(Min({Size, b}) - 1))
<1>5. k \subseteq 0..(Size - 1)
  <2>1. PICK e \in Nat : e = Min({Size, b}) /\ e <= Size
    BY <1>1, <1>2, <1>3
  <2>2. a..(e - 1) \subseteq 0..(Size - 1)
    BY <1>1, <1>2, <2>1
  <2> QED BY <1>4, <2>1, <2>2
<1>6. ASSUME b >= Size PROVE k = 0..(Size - 1)
  <2>1. \A i \in 0..(Size - 1) : i \in 0..(a - 1) \/ i \in a..(Size - 1)
    BY <1>1, <1>2
  <2>2. Min({Size, b}) = Size
    BY <1>1, <1>2, <1>3, <1>6
  <2> QED BY <1>4, <1>5, <2>1, <2>2
<1>7. ASSUME ~(b >= Size) PROVE 0..(b - 1) \subseteq k
  <2>1. \A i \in 0..(b - 1) : i \in 0..(a - 1) \/ i \in a..(b - 1)
    BY <1>1
  <2>2. Min({Size, b}) = b
    BY <1>1, <1>2, <1>3, <1>7
  <2> QED BY <1>4, <2>1, <2>2
<1> QED BY <1>5, <1>6, <1>7 DEF a, b

LEMMA TickleReadOkMoves ==
  ASSUME Moving, Undivided, NEW t \in Tags, TickleReadOk(t)
  PROVE  ReadsAnswered' /\ AllPlaced' /\ StepMoves
<1>1. /\ tag[t] \in TagRecord /\ Types /\ Placed(tag[t], moved[t])
      /\ moved[t] \subseteq 0..(Size - 1) /\ moved \in [Tags -> SUBSET (0..(Size - 1))]
  BY PlaceOf
<1>2. /\ in.kind = "read" /\ in.num = tag[t].num /\ tag[t].num \in Nat
      /\ tag[t].op = "READ_RESPONSE"
  BY ReplyTaken DEF TickleReadOk, Responses, Kind, ReadOps
<1>3. /\ Push(t, FALSE) /\ in' = NoPacket /\ wire' = wire
      /\ moved' = [moved EXCEPT ![t] = @ \cup Units(in)]
  BY DEF TickleReadOk, Consume, Push
<1> DEFINE n == tag[t].num
           w == ResponsePayload
           m == moved[t] \cup ((n * w)..(Min({Size, (n + 1) * w}) - 1))
<1>4. moved[t] \cup Units(in) = m
  BY <1>2 DEF Units, Payload
<1>5. moved' = [moved EXCEPT ![t] = m]
  BY <1>1, <1>3, <1>4
<1>6. 0..(n * w - 1) \subseteq moved[t] /\ w \in Nat
  BY <1>1, <1>2, SizeAssumption DEF Placed, ReadOps
<1>7. /\ m \subseteq 0..(Size - 1)
      /\ (n + 1) * w >= Size => m = 0..(Size - 1)
      /\ ~((n + 1) * w >= Size) => 0..((n + 1) * w - 1) \subseteq m
  BY <1>1, <1>2, <1>6, NextPart
<1> HIDE DEF m
<1>8. moved'[t] = m
  BY <1>1, <1>5
<1>9. CASE IsLast(t)
  <2> DEFINE r == Landed(Ended(tag[t], "OK"), "read")
  <2>1. tag' = [tag EXCEPT ![t] = r]
    BY <1>1, <1>9 DEF TickleReadOk, Types
  <2>2. r.op = "IDLE" /\ r.num = 0
    BY <1>1, EndedRecord
  <2> HIDE DEF r
  <2>3. Placed(r, m)
    BY <1>7, <2>2, NoOperation
  <2>4. ReadsAnswered' /\ AllPlaced'
    BY <1>1, <1>3, <1>5, <2>1, <2>3, PlacesKept DEF Moving
  <2>5. m = 0..(Size - 1)
    BY <1>7, <1>9 DEF IsLast
  <2>6. MovesAll(t)
    BY <1>8, <2>5 DEF MovesAll
  <2> QED BY <1>3, <2>4, <2>6, TurnOf
<1>10. CASE ~IsLast(t)
  <2> DEFINE r == [tag[t] EXCEPT !.op = "READ_REQUEST", !.num = n + 1, !.status = "PENDING"]
  <2>1. tag' = [tag EXCEPT ![t] = r]
    BY <1>1, <1>10 DEF TickleReadOk, Fragment, Types
  <2>2. r.op = "READ_REQUEST" /\ r.num = n + 1
    BY <1>1 DEF TagRecord
  <2> HIDE DEF r
  <2>3. 0..((n + 1) * w - 1) \subseteq m
    BY <1>7, <1>10 DEF IsLast
  <2>4. Placed(r, m)
    <3>1. 0..(r.num * ResponsePayload - 1) \subseteq m
      BY <2>2, <2>3
    <3> QED BY <1>7, <2>2, <3>1 DEF Placed, ReadOps, Writes
  <2>5. ReadsAnswered' /\ AllPlaced'
    BY <1>1, <1>3, <1>5, <2>1, <2>4, PlacesKept DEF Moving
  <2>6. MovesAll(t)
    BY <1>1, <2>1, <2>2 DEF MovesAll, Types
  <2> QED BY <1>3, <2>5, <2>6, TurnOf
<1> QED BY <1>9, <1>10

(* No read is answered with an error; a server that takes long makes the   *)
(* read begin again.                                                       *)
LEMMA TickleReadErrorMoves ==
  ASSUME Moving, Undivided, NEW t \in Tags, TickleReadError(t)
  PROVE  ReadsAnswered' /\ AllPlaced' /\ StepMoves
<1>1. tag[t] \in TagRecord /\ Types /\ moved[t] \subseteq 0..(Size - 1)
  BY PlaceOf
<1>2. in.answer # "error"
  BY ReplyTaken DEF TickleReadError, Responses, Kind, ReadOps, NoReadError
<1> DEFINE e == Landed(Ended(tag[t], "PARTIAL"), "read")
           r == [e EXCEPT !.op = "READ_REQUEST"]
<1>3. /\ Push(t, FALSE) /\ in' = NoPacket /\ wire' = wire /\ moved' = moved
      /\ tag' = [tag EXCEPT ![t] = r]
  BY <1>1, <1>2 DEF TickleReadError, Consume, Push, Types
<1>4. e \in TagRecord /\ e.num = 0
  BY <1>1, Records, EndedRecord
<1> HIDE DEF e
<1>5. r.op = "READ_REQUEST" /\ r.num = 0
  BY <1>4 DEF TagRecord
<1> HIDE DEF r
<1>6. Placed(r, moved[t])
  BY <1>1, <1>5, FromTheStart DEF ReadOps
<1>7. ReadsAnswered' /\ AllPlaced'
  BY <1>3, <1>6, TagPlaceKept
<1>8. MovesAll(t)
  BY <1>1, <1>3, <1>5 DEF MovesAll, Types
<1> QED BY <1>3, <1>7, <1>8, TurnOf

(* The one packet of a write *)
LEMMA TickleWriteOkMoves ==
  ASSUME Moving, Undivided, NEW t \in Tags, TickleWriteOk(t)
  PROVE  ReadsAnswered' /\ AllPlaced' /\ StepMoves
<1>1. /\ tag[t] \in TagRecord /\ Types /\ Placed(tag[t], moved[t])
      /\ moved[t] \subseteq 0..(Size - 1) /\ moved \in [Tags -> SUBSET (0..(Size - 1))]
  BY PlaceOf
<1>2. in.kind = "write" /\ in.num = tag[t].num /\ tag[t].op = "WRITE_RESPONSE"
  BY ReplyTaken DEF TickleWriteOk, Responses, Kind, ReadOps
<1>3. /\ Push(t, FALSE) /\ in' = NoPacket /\ wire' = wire
      /\ moved' = [moved EXCEPT ![t] = @ \cup Units(in)]
  BY DEF TickleWriteOk, Consume, Push
<1>4. tag[t].num = 0 /\ Size <= RequestPayload
  BY <1>1, <1>2 DEF Placed, ReadOps, Writes
<1>5. /\ Size \in Nat /\ RequestPayload \in Nat /\ ResponsePayload \in Nat
      /\ RequestPayload <= ResponsePayload
  BY SizeAssumption
<1>6. IsLast(t)
  BY <1>4, <1>5 DEF IsLast
<1> DEFINE all == 0..(Size - 1)
<1>7. moved[t] \cup Units(in) = all
  <2>1. /\ in.num * RequestPayload = 0 /\ (in.num + 1) * RequestPayload = RequestPayload
    BY <1>2, <1>4, <1>5
  <2>2. Units(in) = 0..(Min({Size, RequestPayload}) - 1)
    BY <1>2, <2>1 DEF Units, Payload
  <2>3. Min({Size, RequestPayload}) = Size
    BY <1>4, <1>5 DEF Min
  <2> QED BY <1>1, <2>2, <2>3
<1>8. moved' = [moved EXCEPT ![t] = all] /\ moved'[t] = all /\ all \subseteq 0..(Size - 1)
  BY <1>1, <1>3, <1>7
<1> HIDE DEF all
<1> DEFINE r == Landed(Ended(tag[t], "OK"), "write")
<1>9. tag' = [tag EXCEPT ![t] = r]
  BY <1>1, <1>6 DEF TickleWriteOk, Types
<1>10. r.op = "IDLE" /\ r.num = 0
  BY <1>1, EndedRecord
<1> HIDE DEF r
<1>11. Placed(r, all)
  BY <1>8, <1>10, NoOperation
<1>12. ReadsAnswered' /\ AllPlaced'
  BY <1>1, <1>3, <1>8, <1>9, <1>11, PlacesKept DEF Moving
<1>13. MovesAll(t)
  BY <1>8 DEF MovesAll, all
<1> QED BY <1>3, <1>12, <1>13, TurnOf

LEMMA TickleWriteErrorMoves ==
  ASSUME Moving, NEW t \in Tags, TickleWriteError(t)
  PROVE  ReadsAnswered' /\ AllPlaced' /\ StepMoves
<1>1. /\ tag[t] \in TagRecord /\ Types /\ moved[t] \subseteq 0..(Size - 1)
      /\ Placed(tag[t], moved[t])
  BY PlaceOf
<1>2. Push(t, FALSE) /\ in' = NoPacket /\ wire' = wire /\ moved' = moved
  BY DEF TickleWriteError, Consume, Push
<1>3. CASE in.answer = "error"
  <2> DEFINE r == Landed(Ended(tag[t], "REMOTE"), "write")
  <2>1. tag' = [tag EXCEPT ![t] = r]
    BY <1>1, <1>3 DEF TickleWriteError, Types
  <2>2. r.op = "IDLE" /\ r.num = 0 /\ r.status = "REMOTE"
    BY <1>1, EndedRecord
  <2> HIDE DEF r
  <2> QED BY <1>2, <2>1, <2>2, TurnEnds
<1>4. CASE in.answer # "error"
  <2> DEFINE e == Landed(Ended(tag[t], "PARTIAL"), "write")
             r == [e EXCEPT !.op = "WRITE_REQUEST"]
  <2>1. tag' = [tag EXCEPT ![t] = r]
    BY <1>1, <1>4 DEF TickleWriteError, Types
  <2>2. e \in TagRecord /\ e.num = 0
    BY <1>1, Records, EndedRecord
  <2> HIDE DEF e
  <2>3. r.op = "WRITE_REQUEST" /\ r.num = 0
    BY <2>2 DEF TagRecord
  <2> HIDE DEF r
  <2>4. Size <= RequestPayload
    BY <1>1 DEF TickleWriteError, Answered, Placed, Writes
  <2>5. Placed(r, moved[t])
    BY <1>1, <2>3, <2>4, FromTheStart DEF Writes
  <2>6. ReadsAnswered' /\ AllPlaced'
    BY <1>2, <2>1, <2>5, TagPlaceKept
  <2>7. MovesAll(t)
    BY <1>1, <2>1, <2>3 DEF MovesAll, Types
  <2> QED BY <1>2, <2>6, <2>7, TurnOf
<1> QED BY <1>3, <1>4

LEMMA TickleMoves ==
  ASSUME Moving, Undivided, NEW t \in Tags, Tickle(t)
  PROVE  ReadsAnswered' /\ AllPlaced' /\ StepMoves
BY TickleAbortMoves, TickleRestMoves, TickleRequestMoves, TickleRefusedMoves,
   TickleRestartMoves, TickleReadOkMoves, TickleReadErrorMoves, TickleWriteOkMoves,
   TickleWriteErrorMoves, TickleWriteForeignMoves DEF Tickle

LEMMA Still ==
  ASSUME cur' \in {cur, NoTag}
  PROVE  StepMoves
BY TagAssumption DEF StepMoves

(* plc_tag_generic_tickler() ends the operation, or starts a read. *)
LEMMA GenericMoves ==
  ASSUME Moving, NEW t \in Tags, Generic(t)
  PROVE  ReadsAnswered' /\ AllPlaced' /\ StepMoves
<1>1. /\ tag[t] \in TagRecord /\ Types /\ Placed(tag[t], moved[t])
      /\ moved[t] \subseteq 0..(Size - 1) /\ moved \in [Tags -> SUBSET (0..(Size - 1))]
      /\ (tag[t].op \notin ReadOps => tag[t].num = 0)
  BY PlaceOf
<1>2. in' = in /\ wire' = wire /\ StepMoves
  BY Still DEF Generic, link
<1>3. CASE /\ tag' = [tag EXCEPT ![t] = [Ended(@, "OK") EXCEPT !.flight = "none",
                                                             !.abortReq = FALSE]]
           /\ moved' = moved
  <2> DEFINE e == Ended(tag[t], "OK")
             r == [e EXCEPT !.flight = "none", !.abortReq = FALSE]
  <2>1. tag' = [tag EXCEPT ![t] = r]
    BY <1>1, <1>3 DEF Types
  <2>2. r.op = "IDLE" /\ r.num = 0
    BY <1>1 DEF Ended, TagRecord
  <2> HIDE DEF r
  <2>3. Placed(r, moved[t])
    BY <1>1, <2>2, NoOperation
  <2> QED BY <1>2, <1>3, <2>1, <2>3, TagPlaceKept
<1>4. CASE UNCHANGED <<tag, moved>>
  BY <1>1, <1>2, <1>4 DEF Moving, ReadsAnswered, AllPlaced
<1>5. CASE /\ tag[t].op = "IDLE" /\ tag' = [tag EXCEPT ![t] = Started(@, "read")]
           /\ moved' = [moved EXCEPT ![t] = {}]
  <2> DEFINE r == Started(tag[t], "read")
  <2>1. tag' = [tag EXCEPT ![t] = r]
    BY <1>1, <1>5 DEF Types
  <2>2. tag[t].num = 0
    BY <1>1, <1>5 DEF ReadOps
  <2>3. r.op = "READ_REQUEST" /\ r.num = 0
    BY <1>1, <2>2 DEF Started, TagRecord
  <2> HIDE DEF r
  <2>4. Placed(r, {})
    BY <2>3, FromTheStart DEF ReadOps
  <2> QED BY <1>1, <1>2, <1>5, <2>1, <2>4, PlacesKept DEF Moving
<1>6. CASE /\ tag' = [tag EXCEPT ![t].flight = "read", ![t].status = "BUSY"]
           /\ moved' = moved
  <2> DEFINE r == [tag[t] EXCEPT !.flight = "read", !.status = "BUSY"]
  <2>1. tag' = [tag EXCEPT ![t] = r]
    BY <1>1, <1>6 DEF Types
  <2>2. r.op = tag[t].op /\ r.num = tag[t].num
    BY <1>1 DEF TagRecord
  <2> HIDE DEF r
  <2>3. Placed(r, moved[t])
    BY <1>1, <2>2, SamePlace
  <2> QED BY <1>2, <1>6, <2>1, <2>3, TagPlaceKept
<1> QED BY <1>3, <1>4, <1>5, <1>6 DEF Generic

-----------------------------------------------------------------------------
(* The connection carries no errors of reads. *)

LEMMA LinkMoves ==
  ASSUME Moving, UNCHANGED <<tag, moved, cur>>, NoReadError(in'),
         \A i \in DOMAIN wire' : NoReadError(wire'[i])
  PROVE  ReadsAnswered' /\ AllPlaced' /\ StepMoves
<1>1. StepMoves
  BY Still
<1> QED BY <1>1 DEF Moving, ReadsAnswered, AllPlaced

(* What is kept is in or nothing, which answers nothing. *)
LEMMA KeptAnswer ==
  ASSUME Moving
  PROVE  /\ NoReadError(kept) /\ NoReadError(NoPacket) /\ NoReadError(in)
         /\ \A i \in DOMAIN wire : NoReadError(wire[i])
BY DEF Moving, ReadsAnswered, NoReadError, NoPacket, kept

LEMMA QuietMoves ==
  ASSUME Moving,
         \/ Connect \/ ConnectDone \/ ConnectFail \/ ErrWaitOver \/ Nothing
         \/ CanSend \/ CanReceive \/ Disconnected \/ Broken
  PROVE  ReadsAnswered' /\ AllPlaced' /\ StepMoves
<1>1. UNCHANGED <<tag, moved, cur>>
  BY DEF Connect, ConnectDone, ConnectFail, ErrWaitOver, Nothing, CanSend, CanReceive,
         Disconnected, Broken, Turn
<1>2. in' \in {kept, NoPacket} /\ wire' \in {wire, <<>>}
  BY DEF Connect, ConnectDone, ConnectFail, ErrWaitOver, Nothing, CanSend, CanReceive,
         Disconnected, Broken, NoTransfer
<1>3. NoReadError(in')
  BY <1>2, KeptAnswer
<1>4. \A i \in DOMAIN wire' : NoReadError(wire'[i])
  BY <1>2, KeptAnswer
<1> QED BY <1>1, <1>3, <1>4, LinkMoves

LEMMA SendMoves ==
  ASSUME Moving, Undivided, Send
  PROVE  ReadsAnswered' /\ AllPlaced' /\ StepMoves
<1>1. UNCHANGED <<tag, moved, cur>> /\ in' = kept
  BY DEF Send, Turn
<1>2. PICK a \in Outcomes[out.kind] :
        IF a = "none" THEN wire' = wire ELSE wire' = Append(wire, Reply(out, a))
  BY DEF Send
<1>3. NoReadError(Reply(out, a))
  BY <1>2 DEF NoReadError, Reply, Undivided
<1>4. \A i \in DOMAIN wire' : NoReadError(wire'[i])
  <2>1. CASE a = "none"
    BY <1>2, <2>1, KeptAnswer
  <2>2. CASE a # "none"
    <3> DEFINE q == Reply(out, a)
    <3>1. wire' = Append(wire, q) /\ wire \in Seq(Replies)
      BY <1>2, <2>2 DEF Moving, IInv, Types
    <3> HIDE DEF q
    <3>2. \A i \in DOMAIN wire' : (i \in DOMAIN wire /\ wire'[i] = wire[i]) \/ wire'[i] = q
      BY <3>1
    <3>3. NoReadError(q)
      BY <1>3 DEF q
    <3> QED BY <3>2, <3>3, KeptAnswer
  <2> QED BY <2>1, <2>2
<1> QED BY <1>1, <1>4, KeptAnswer, LinkMoves

LEMMA ReceiveMoves ==
  ASSUME Moving, Receive
  PROVE  ReadsAnswered' /\ AllPlaced' /\ StepMoves
<1>1. UNCHANGED <<tag, moved, cur>>
  BY DEF Receive, Turn
<1>2. CASE kept = NoPacket
  <2>1. /\ wire \in Seq(Replies) /\ wire # <<>> /\ in' = Head(wire) /\ wire' = Tail(wire)
    BY <1>2 DEF Receive, Moving, IInv, Types
  <2>2. /\ in' = wire[1] /\ 1 \in DOMAIN wire
        /\ \A i \in DOMAIN wire' : i + 1 \in DOMAIN wire /\ wire'[i] = wire[i + 1]
    BY <2>1
  <2>3. NoReadError(in') /\ \A i \in DOMAIN wire' : NoReadError(wire'[i])
    BY <2>2, KeptAnswer
  <2> QED BY <1>1, <2>3, LinkMoves
<1>3. CASE kept # NoPacket
  <2>1. in' = kept /\ wire' = wire
    BY <1>3 DEF Receive
  <2> QED BY <1>1, <2>1, KeptAnswer, LinkMoves
<1> QED BY <1>2, <1>3

-----------------------------------------------------------------------------
(* The application's calls leave a tag without an operation, or start one. *)

LEMMA StartMoves ==
  ASSUME Moving, Undivided, NEW t \in Tags, NEW kind \in Kinds, Start(t, kind)
  PROVE  ReadsAnswered' /\ AllPlaced' /\ StepMoves
<1>1. /\ tag[t] \in TagRecord /\ Types /\ moved \in [Tags -> SUBSET (0..(Size - 1))]
      /\ (tag[t].op \notin ReadOps => tag[t].num = 0)
  BY PlaceOf
<1> DEFINE r == Started(tag[t], kind)
<1>2. /\ in' = in /\ wire' = wire /\ cur' = cur /\ tag[t].op = "IDLE"
      /\ moved' = [moved EXCEPT ![t] = {}] /\ tag' = [tag EXCEPT ![t] = r]
  BY <1>1 DEF Start, Outside, link, Types
<1>3. tag[t].num = 0
  BY <1>1, <1>2 DEF ReadOps
<1>4. r.num = 0 /\ r.op = IF kind = "read" THEN "READ_REQUEST" ELSE "WRITE_REQUEST"
  BY <1>1, <1>3 DEF Started, TagRecord
<1> HIDE DEF r
<1>5. kind # "read" => Size <= RequestPayload
  BY KindAssumption DEF Undivided
<1>6. Placed(r, {})
  BY <1>4, <1>5, FromTheStart DEF ReadOps, Writes
<1>7. StepMoves
  BY <1>2, Still
<1> QED BY <1>1, <1>2, <1>6, <1>7, PlacesKept DEF Moving

(* Whatever the call makes of the tag's flags *)
LEMMA CallEnds ==
  ASSUME Moving, NEW t \in Tags, NEW r, tag' = [tag EXCEPT ![t] = r], moved' = moved,
         \/ r.op = "IDLE" /\ r.num = 0
         \/ r.op = tag[t].op /\ r.num = tag[t].num,
         UNCHANGED <<in, wire, cur>>
  PROVE  ReadsAnswered' /\ AllPlaced' /\ StepMoves
<1>1. Placed(r, moved[t])
  BY PlaceOf, NoOperation, SamePlace
<1>2. StepMoves
  BY Still
<1> QED BY <1>1, <1>2, TagPlaceKept

LEMMA CallsMove ==
  ASSUME Moving, NEW t \in Tags,
         \/ \E kind \in Kinds : StartBusy(t, kind)
         \/ AbortFlag(t) \/ AbortRun(t) \/ Destroy(t) \/ Unlink(t)
  PROVE  ReadsAnswered' /\ AllPlaced' /\ StepMoves
<1>1. tag[t] \in TagRecord /\ Types
  BY PlaceOf
<1>2. moved' = moved /\ UNCHANGED <<in, wire, cur>>
  BY DEF StartBusy, AbortFlag, AbortRun, Aborted, Destroy, Unlink, Outside, link
<1> DEFINE e == Ended(tag[t], "OK")
<1>3. e.op = "IDLE" /\ e.num = 0 /\ e \in TagRecord
  <2>1. e.op = "IDLE" /\ e.num = 0
    BY <1>1, EndedRecord
  <2> DEFINE f == tag[t].flight
             b == tag[t].abortReq
             d == [e EXCEPT !.flight = f, !.abortReq = b]
  <2>2. f \in {"none", "read", "write"} /\ b \in BOOLEAN
    BY <1>1 DEF TagRecord
  <2>3. e = d
    BY <1>1 DEF Ended, TagRecord
  <2> HIDE DEF f, b
  <2>4. d \in TagRecord
    BY <1>1, <2>2, AbortedRecord
  <2> QED BY <2>1, <2>3, <2>4
<1>4. CASE \E kind \in Kinds : StartBusy(t, kind)
  <2> PICK kind \in Kinds : StartBusy(t, kind)
    BY <1>4
  <2> DEFINE b == tag[t].abortReq \/ kind = "read"
             r == [e EXCEPT !.abortReq = b]
  <2>1. tag' = [tag EXCEPT ![t] = r]
    BY Zenon DEF StartBusy
  <2> HIDE DEF e, b
  <2>2. r.op = "IDLE" /\ r.num = 0
    BY <1>3 DEF TagRecord
  <2> HIDE DEF r
  <2> QED BY <1>2, <2>1, <2>2, CallEnds
<1>5. CASE AbortFlag(t)
  <2> DEFINE r == [tag[t] EXCEPT !.abortReq = TRUE]
  <2>1. tag' = [tag EXCEPT ![t] = r] /\ r.op = tag[t].op /\ r.num = tag[t].num
    BY <1>1, <1>5 DEF AbortFlag, Types, TagRecord
  <2> HIDE DEF r
  <2> QED BY <1>2, <2>1, CallEnds
<1>6. CASE AbortRun(t) /\ tag[t].abortReq
  <2> DEFINE r == [e EXCEPT !.flight = "none"]
  <2>1. tag' = [tag EXCEPT ![t] = r]
    BY <1>1, <1>6 DEF AbortRun, Aborted, Types
  <2> HIDE DEF e
  <2>2. r.op = "IDLE" /\ r.num = 0
    BY <1>3 DEF TagRecord
  <2> HIDE DEF r
  <2> QED BY <1>2, <2>1, <2>2, CallEnds
<1>7. CASE AbortRun(t) /\ ~tag[t].abortReq
  <2> DEFINE r == [tag[t] EXCEPT !.flight = "none"]
  <2>1. tag' = [tag EXCEPT ![t] = r] /\ r.op = tag[t].op /\ r.num = tag[t].num
    BY <1>1, <1>7 DEF AbortRun, Types, TagRecord
  <2> HIDE DEF r
  <2> QED BY <1>2, <2>1, CallEnds
<1>8. CASE Destroy(t)
  <2>1. tag' = [tag EXCEPT ![t] = e]
    BY <1>1, <1>8 DEF Destroy, Types
  <2> HIDE DEF e
  <2> QED BY <1>2, <1>3, <2>1, CallEnds
<1>9. CASE Unlink(t)
  <2>1. tag' = [tag EXCEPT ![t] = tag[t]]
    BY <1>1, <1>9 DEF Unlink, Types
  <2> QED BY <1>2, <2>1, CallEnds
<1> QED BY <1>4, <1>5, <1>6, <1>7, <1>8, <1>9

LEMMA InitMoving == Init => Moving
<1> SUFFICES ASSUME Init PROVE Moving
  OBVIOUS
<1>1. ReadsAnswered
  BY DEF Init, ReadsAnswered, NoReadError, NoPacket
<1>2. moved \in [Tags -> SUBSET (0..(Size - 1))]
  BY DEF Init
<1>3. ASSUME NEW t \in Tags PROVE Placed(tag[t], moved[t])
  <2>1. tag[t].op = "READ_REQUEST" /\ tag[t].num = 0 /\ moved[t] = {}
    BY DEF Init
  <2> QED BY <2>1, FromTheStart DEF ReadOps
<1> QED BY <1>1, <1>2, <1>3, InitInvariant DEF Moving, AllPlaced

LEMMA NextMoves ==
  ASSUME Moving, Undivided, [Next]_vars
  PROVE  Moving' /\ StepMoves
<1>1. IInv'
  BY NextKeeps DEF Moving
<1>2. CASE Handler
  <2>1. ReadsAnswered' /\ AllPlaced' /\ StepMoves
    BY <1>2, TickleMoves, GenericMoves, QuietMoves, SendMoves, ReceiveMoves DEF Handler
  <2> QED BY <1>1, <2>1 DEF Moving
<1>3. ASSUME NEW t \in Tags, Application(t) PROVE Moving' /\ StepMoves
  <2>1. ReadsAnswered' /\ AllPlaced' /\ StepMoves
    BY <1>3, StartMoves, CallsMove DEF Application
  <2> QED BY <1>1, <2>1 DEF Moving
<1>4. CASE UNCHANGED vars
  <2>1. UNCHANGED <<tag, moved, cur, in, wire>>
    BY <1>4 DEF vars, link
  <2>2. StepMoves
    BY <2>1, Still
  <2> QED BY <1>1, <2>1, <2>2 DEF Moving, ReadsAnswered, AllPlaced
<1> QED BY <1>2, <1>3, <1>4 DEF Next

(* An operation that the handler ends with OK has moved the whole of the   *)
(* tag's data (check_read_response() and check_write_response() tell the   *)
(* last fragment from the place and the payload of a response), whatever   *)
(* was aborted, lost, or begun again after a reconnection in between: of a *)
(* read of any number of fragments, and of a write of one packet.          *)
THEOREM OkOnlyWhenAllMoved ==
  ASSUME Undivided
  PROVE  Spec => OkMovesAll
<1>1. Init => Moving
  BY InitMoving
<1>2. Moving /\ [Next]_vars => Moving' /\ StepMoves
  BY NextMoves
<1>3. StepMoves =>
        \A t \in Tags :
          (cur = NoTag /\ cur' = t /\ tag[t].op \in Responses
             /\ tag'[t].op = "IDLE" /\ tag'[t].status = "OK")
            => moved'[t] = 0..(Size - 1)
  BY DEF StepMoves, MovesAll
<1> QED BY <1>1, <1>2, <1>3, PTL DEF Spec, OkMovesAll

-----------------------------------------------------------------------------
(* The calls on a CIP tag, beside the Modbus tags in one specification *)

(* A tag has a request exactly while an operation is in progress, and the  *)
(* request is the one of that operation, whatever threads, tickler and     *)
(* session do (TagOps, ab_common.c:1178 to 1560).                          *)
THEOREM LookRequestsFit == LookSpec => []RequestFits
<1>1. LookInit => Ops!IInv
  BY OpsAssumption, Ops!InitGood DEF LookInit
<1>2. Ops!IInv /\ [LookNext]_lookVars => Ops!IInv'
  <2>1. [LookNext]_lookVars => [Ops!Next]_(Ops!vars)
    BY DEF LookNext, lookVars, opsVars, Ops!vars
  <2> QED BY <2>1, OpsAssumption, Ops!NextKeeps
<1>3. Ops!IInv => RequestFits
  BY DEF Ops!IInv, RequestFits
<1> QED BY <1>1, <1>2, <1>3, PTL DEF LookSpec

=============================================================================
