----------------------------- MODULE AbSession -----------------------------
(***************************************************************************)
(* An Allen-Bradley session: the queue of requests that the tags of one    *)
(* PLC share, and the handler thread that opens the connection, packs      *)
(* requests into packets, matches replies to them, and reconnects.         *)
(*                                                                         *)
(* One turn of the handler's loop is one action, except where it processes *)
(* requests: it holds session_mutex only while it looks at the queue, so   *)
(* tags add and abort requests between its steps.  Request objects are     *)
(* counted references; each is used for one request.  The PLC's replies to *)
(* what was sent on the open socket arrive in order, or not at all.        *)
(***************************************************************************)
EXTENDS Integers, Sequences, FiniteSets, SequencesExt, Functions, Filter

CONSTANTS
  Requests,       \* request objects
  Null,           \* what an empty slot of the queue's vector holds
  Size,           \* a request's payload size
  Packable,       \* requests with allow_packing
  MaxRequests,    \* MAX_REQUESTS in a packet
  PackOverhead,   \* what packing adds to each request
  UseConnected,   \* session->use_connected_msg
  FoConnSize,     \* session->fo_conn_size, for the old ForwardOpen
  FoExConnSize,   \* session->fo_ex_conn_size, for the extended one
  Grants,         \* sizes that the PLC may offer instead
  MaxFaults,      \* bound: failures of the network and refusals of the PLC
  SilentOpen,     \* TRUE: the PLC may leave a ForwardOpen without a reply
  UnpackFails,    \* TRUE: a reply may not fit in its request's buffer
  PushBackRace    \* TRUE: a tag may add a request during vector_insert()

ASSUME RequestAssumption == Null \notin Requests /\ Packable \subseteq Requests
ASSUME SizeAssumption ==
  /\ Size \in [Requests -> Nat \ {0}]
  /\ {MaxRequests, FoConnSize, FoExConnSize} \subseteq Nat \ {0}
  /\ PackOverhead \in Nat /\ MaxFaults \in Nat
  /\ Grants \subseteq Nat \ {0}
ASSUME ModeAssumption == {UseConnected, SilentOpen, UnpackFails, PushBackRace} \subseteq BOOLEAN

VARIABLES
  state,      \* the handler's state, with the steps of process_requests()
  auto,       \* its auto_disconnect
  expired,    \* auto_disconnect_time < now in this turn of the loop
  oldOnly,    \* session->only_use_old_forward_open
  guess,      \* session->max_payload_guess
  payload,    \* GET_MAX_PAYLOAD_SIZE(session)
  queue,      \* session->requests
  bundle,     \* bundled_requests
  wire,       \* bundles sent on the open socket whose reply is not read yet
  submitted,  \* ghost: requests that were ever queued
  held,       \* requests that are their tag's tag->req
  aborted,    \* requests with abort_request set
  got,        \* the request whose reply a request has received, or Null
  refs,       \* reference count of each request
  stop,       \* which of session->terminating, library_terminating are set
  faults      \* failures so far

link == <<auto, expired, oldOnly, guess, payload>>
tags == <<submitted, held, aborted>>
vars == <<state, link, queue, bundle, wire, tags, got, refs, stop, faults>>

LoopStates == {"OPEN_SOCKET_START", "OPEN_SOCKET_WAIT", "REGISTER", "SEND_FORWARD_OPEN",
               "RECEIVE_FORWARD_OPEN", "IDLE", "DISCONNECT", "UNREGISTER", "CLOSE_SOCKET",
               "START_RETRY", "WAIT_RETRY", "WAIT_RECONNECT"}
ProcessStates == {"take", "send", "receive", "unpack", "push", "inserting", "raced"}
States == LoopStates \cup ProcessStates \cup {"silent", "exited", "gone"}

Init ==
  /\ state = "OPEN_SOCKET_START"
  /\ auto = FALSE /\ expired = FALSE
  /\ oldOnly \in BOOLEAN
  /\ guess = 0 /\ payload = FoConnSize
  /\ queue = <<>> /\ bundle = <<>> /\ wire = <<>>
  /\ submitted = {} /\ held = {} /\ aborted = {}
  /\ got = [r \in Requests |-> Null]
  /\ refs = [r \in Requests |-> 0]
  /\ stop = {}
  /\ faults = 0

-----------------------------------------------------------------------------
(* The tags' side *)

(* session_create_request() and session_add_request(): the tag and the     *)
(* queue own one reference each.  If the handler is inside vector_insert() *)
(* it has moved the elements up but not yet counted the new one: the       *)
(* request overwrites the last of them.  Bound: one per insertion.         *)
Submit(r) ==
  /\ r \notin submitted /\ Size[r] <= payload
  /\ "session" \notin stop /\ state # "raced"
  /\ state = "inserting" => PushBackRace
  /\ state' = IF state = "inserting" THEN "raced" ELSE state
  /\ queue' = IF state = "inserting" THEN [queue EXCEPT ![Len(queue)] = r] ELSE Append(queue, r)
  /\ submitted' = submitted \cup {r}
  /\ held' = held \cup {r}
  /\ refs' = [refs EXCEPT ![r] = 2]
  /\ UNCHANGED <<link, bundle, wire, aborted, got, stop, faults>>

(* ab_tag_abort_request_only(): the tag gives its request up, because it   *)
(* has used the answer or because the operation is aborted.                *)
Release(r) ==
  /\ r \in held
  /\ aborted' = aborted \cup {r}
  /\ held' = held \ {r}
  /\ refs' = [refs EXCEPT ![r] = @ - 1]
  /\ UNCHANGED <<state, link, queue, bundle, wire, submitted, got, stop, faults>>

(* session_destroy(), by whoever drops the last tag of the session: every  *)
(* tag has given its request up.                                           *)
Destroy ==
  /\ held = {} /\ "session" \notin stop
  /\ stop' = stop \cup {"session"}
  /\ UNCHANGED <<state, link, queue, bundle, wire, tags, got, refs, faults>>

LibraryStop ==
  /\ "library" \notin stop
  /\ stop' = stop \cup {"library"}
  /\ UNCHANGED <<state, link, queue, bundle, wire, tags, got, refs, faults>>

(* The rest of session_destroy(), once the handler thread has ended. *)
Join ==
  /\ state = "exited" /\ "session" \in stop
  /\ state' = "gone"
  /\ queue' = <<>> /\ wire' = <<>>
  /\ refs' = [r \in Requests |-> IF r \in Range(queue) THEN refs[r] - 1 ELSE refs[r]]
  /\ UNCHANGED <<link, bundle, tags, got, stop, faults>>

-----------------------------------------------------------------------------
(* The handler thread *)

(* purge_aborted_requests_unsafe(): what is left in the queue, and the     *)
(* counts when the queue's references to the others are dropped.           *)
Purged == Without(queue, aborted)

(* Mutant of PurgedRefs: the queue's references are not dropped. *)
PurgedRefsKeep == refs

PurgedRefs == [r \in Requests |->
                 IF r \in Range(queue) \cap aborted THEN refs[r] - 1 ELSE refs[r]]
Purge == queue' = Purged /\ refs' = PurgedRefs

Fault == faults < MaxFaults /\ faults' = faults + 1
NoFault == UNCHANGED faults

(* One turn of the loop in state s that goes on in state t. *)
Turn(s, t) ==
  /\ state = s /\ stop = {}
  /\ Purge
  /\ state' = t
  /\ UNCHANGED <<bundle, tags, got, stop>>

OpenSocket ==
  /\ \/ Turn("OPEN_SOCKET_START", "REGISTER") /\ NoFault
     \/ Turn("OPEN_SOCKET_START", "OPEN_SOCKET_WAIT") /\ NoFault
     \/ Turn("OPEN_SOCKET_START", "CLOSE_SOCKET") /\ Fault
     \/ Turn("OPEN_SOCKET_WAIT", "REGISTER") /\ NoFault
     \/ Turn("OPEN_SOCKET_WAIT", "CLOSE_SOCKET") /\ Fault
  /\ UNCHANGED <<link, wire>>

Register ==
  /\ \/ Turn("REGISTER", IF UseConnected THEN "SEND_FORWARD_OPEN" ELSE "IDLE") /\ NoFault
     \/ Turn("REGISTER", "CLOSE_SOCKET") /\ Fault
  /\ UNCHANGED <<link, wire>>

Smaller(a, b) == IF a < b THEN a ELSE b

(* send_forward_open_request() *)
SendForwardOpen ==
  LET most == IF oldOnly THEN FoConnSize ELSE FoExConnSize
  IN  /\ \/ Turn("SEND_FORWARD_OPEN", "RECEIVE_FORWARD_OPEN") /\ NoFault
         \/ Turn("SEND_FORWARD_OPEN", "UNREGISTER") /\ Fault
      /\ guess' = IF guess = 0 THEN most ELSE Smaller(guess, most)
      /\ UNCHANGED <<auto, expired, oldOnly, payload, wire>>

(* receive_forward_open_response(), and what the loop makes of its result  *)
ForwardOpened ==
  /\ Turn("RECEIVE_FORWARD_OPEN", "IDLE") /\ NoFault
  /\ payload' = guess
  /\ UNCHANGED <<auto, expired, oldOnly, guess, wire>>

ForwardOpenTooLarge ==
  /\ Turn("RECEIVE_FORWARD_OPEN", "SEND_FORWARD_OPEN") /\ Fault
  /\ guess' \in Grants
  /\ UNCHANGED <<auto, expired, oldOnly, payload, wire>>

ForwardOpenUnsupported ==
  /\ Turn("RECEIVE_FORWARD_OPEN", IF oldOnly THEN "UNREGISTER" ELSE "SEND_FORWARD_OPEN") /\ Fault
  /\ oldOnly' = TRUE
  /\ UNCHANGED <<auto, expired, guess, payload, wire>>

(* A duplicate connection ID is tried again; other errors are given up. *)
ForwardOpenRefused ==
  /\ \/ Turn("RECEIVE_FORWARD_OPEN", "SEND_FORWARD_OPEN")
     \/ Turn("RECEIVE_FORWARD_OPEN", "UNREGISTER")
  /\ Fault
  /\ UNCHANGED <<link, wire>>

(* The receive has no time limit: only session->terminating ends it. *)
ForwardOpenSilent ==
  /\ SilentOpen
  /\ Turn("RECEIVE_FORWARD_OPEN", "silent") /\ Fault
  /\ UNCHANGED <<link, wire>>

(* Mutant of StopWaiting: the receive looks at the other flag. *)
StopWaitingLibrary ==
  /\ state = "silent" /\ stop = {"library"}
  /\ state' = "UNREGISTER"
  /\ UNCHANGED <<link, queue, bundle, wire, tags, got, refs, stop, faults>>

StopWaiting ==
  /\ state = "silent" /\ "session" \in stop
  /\ state' = "UNREGISTER"
  /\ UNCHANGED <<link, queue, bundle, wire, tags, got, refs, stop, faults>>

ForwardOpenReply ==
  /\ state \in {"RECEIVE_FORWARD_OPEN", "silent"}
  /\ \/ ForwardOpened \/ ForwardOpenTooLarge \/ ForwardOpenUnsupported \/ ForwardOpenRefused
     \/ ForwardOpenSilent \/ StopWaiting

(* SESSION_IDLE, first block: work in the queue puts the disconnect off.   *)
Idle ==
  /\ Turn("IDLE", "take") /\ NoFault
  /\ expired' \in IF queue' = <<>> THEN BOOLEAN ELSE {FALSE}
  /\ UNCHANGED <<auto, oldOnly, guess, payload, wire>>

(* How the turn ends when process_requests() is done. *)
Closing == IF UseConnected THEN "DISCONNECT" ELSE "UNREGISTER"
IdleEnd(ok) == /\ state' = IF ok /\ ~expired THEN "IDLE" ELSE Closing
               /\ auto' = (auto \/ expired)

(* Requests that go in one packet: one that fits, or several packable ones *)
(* that fit with the overhead of packing.                                  *)
PackedSize(b) == FoldFunction(LAMBDA r, sum : Size[r] + PackOverhead + sum, 0, b)
Fits(b) == \/ Len(b) = 1 /\ b[1] # Null /\ Size[b[1]] <= payload
           \/ /\ Len(b) \in 2..MaxRequests
              /\ Range(b) \subseteq Packable
              /\ PackedSize(b) <= payload

(* process_requests(), first block: the longest packet that the front of   *)
(* the queue gives, if any.                                                *)
Take ==
  LET q    == Purged
      lens == {n \in 1..Len(q) : Fits(SubSeq(q, 1, n))}
  IN  /\ state = "take"
      /\ refs' = PurgedRefs
      /\ IF lens = {}
           THEN IdleEnd(TRUE) /\ queue' = q /\ UNCHANGED bundle
           ELSE \E n \in lens :
                  /\ \A k \in lens : k <= n
                  /\ bundle' = SubSeq(q, 1, n)
                  /\ queue' = SubSeq(q, n + 1, Len(q))
                  /\ state' = "send"
                  /\ UNCHANGED auto
      /\ UNCHANGED <<expired, oldOnly, guess, payload, wire, tags, got, stop, faults>>

(* send_eip_request() *)
Send ==
  /\ state = "send"
  /\ \/ "session" \notin stop /\ NoFault
        /\ wire' = Append(wire, bundle) /\ state' = "receive"
     \/ "session" \notin stop /\ Fault
        /\ wire' \in {wire, Append(wire, bundle)} /\ state' = "push"
     \/ "session" \in stop /\ NoFault
        /\ wire' \in {wire, Append(wire, bundle)} /\ state' = "push"
  /\ UNCHANGED <<link, queue, bundle, tags, got, refs, stop>>

(* recv_eip_response() and the checks on a packed reply.  The reply may    *)
(* come too late, or be an error or damaged.                               *)
Receive ==
  /\ state = "receive"
  /\ \/ "session" \notin stop /\ wire # <<>> /\ NoFault
        /\ (Len(bundle) = 1 \/ Len(Head(wire)) = Len(bundle))
        /\ state' = "unpack" /\ UNCHANGED wire
     \/ "session" \notin stop /\ Fault
        /\ wire' \in {wire, IF wire = <<>> THEN wire ELSE Tail(wire)} /\ state' = "push"
     \/ "session" \in stop /\ NoFault
        /\ state' = "push" /\ UNCHANGED wire
  /\ UNCHANGED <<link, queue, bundle, tags, got, refs, stop>>

(* unpack_response() for the next request of the bundle, which is given    *)
(* the part of the reply at its own index.                                 *)
Unpack ==
  /\ state = "unpack"
  /\ LET r     == Head(bundle)
         reply == Head(wire)
     IN  /\ got' = [got EXCEPT ![r] = reply[Len(reply) - Len(bundle) + 1]]
         /\ refs' = [refs EXCEPT ![r] = @ - 1]
  /\ bundle' = Tail(bundle)
  /\ IF Len(bundle) = 1 THEN IdleEnd(TRUE) /\ wire' = Tail(wire)
                        ELSE UNCHANGED <<state, auto, wire>>
  /\ UNCHANGED <<expired, oldOnly, guess, payload, queue, tags, stop, faults>>

(* A reply that cannot be unpacked ends the loop over the bundle, and the  *)
(* error is forgotten.                                                     *)
UnpackFail ==
  /\ state = "unpack" /\ UnpackFails
  /\ bundle' = <<>>
  /\ wire' = Tail(wire)
  /\ IdleEnd(TRUE)
  /\ Fault
  /\ UNCHANGED <<expired, oldOnly, guess, payload, queue, tags, got, refs, stop>>

UnpackReply == state = "unpack" /\ (Unpack \/ UnpackFail)

(* Mutant of PushBack: a request is taken from the bundle, but not put back. *)
PushBackLoses ==
  /\ state = "push" /\ bundle # <<>>
  /\ bundle' = Front(bundle)
  /\ UNCHANGED <<state, link, queue, wire, tags, got, refs, stop, faults>>

(* Mutant of PushBack: the first request of the bundle is inserted first. *)
PushBackForward ==
  /\ state = "push" /\ bundle # <<>>
  /\ queue' = <<Head(bundle)>> \o queue
  /\ bundle' = Tail(bundle)
  /\ state' = "inserting"
  /\ UNCHANGED <<link, wire, tags, got, refs, stop, faults>>

(* vector_insert(session->requests, 0, request) for the last request of    *)
(* the bundle, without session_mutex: first the elements move ...          *)
PushBack ==
  /\ state = "push" /\ bundle # <<>>
  /\ queue' = <<Last(bundle)>> \o queue
  /\ bundle' = Front(bundle)
  /\ state' = "inserting"
  /\ UNCHANGED <<link, wire, tags, got, refs, stop, faults>>

(* ... then the length grows.  If a request was added meanwhile, one of    *)
(* the two updates of the length is lost, or both count and uncover an     *)
(* unused slot; vector_set(), which fills an empty vector, counts once.    *)
Inserted ==
  /\ state \in {"inserting", "raced"}
  /\ state' = "push"
  /\ \/ UNCHANGED queue
     \/ state = "raced" /\ Len(queue) > 1 /\ queue' = Append(queue, Null)
  /\ UNCHANGED <<link, bundle, wire, tags, got, refs, stop, faults>>

PushedBack ==
  /\ state = "push" /\ bundle = <<>>
  /\ IdleEnd(FALSE)
  /\ UNCHANGED <<expired, oldOnly, guess, payload, queue, bundle, wire, tags, got, refs, stop, faults>>

(* Forward close, un-registration and the end of the socket, with whatever *)
(* was still to be read from it.                                           *)
Disconnect ==
  /\ Turn("DISCONNECT", "UNREGISTER") \/ Turn("UNREGISTER", "CLOSE_SOCKET")
  /\ NoFault
  /\ UNCHANGED <<link, wire>>

(* Mutant of CloseSocket: an idle session keeps its socket. *)
CloseSocketKeeps ==
  /\ Turn("CLOSE_SOCKET", IF auto THEN "WAIT_RECONNECT" ELSE "START_RETRY")
  /\ NoFault
  /\ UNCHANGED <<link, wire>>

CloseSocket ==
  /\ Turn("CLOSE_SOCKET", IF auto THEN "WAIT_RECONNECT" ELSE "START_RETRY")
  /\ wire' = <<>>
  /\ NoFault
  /\ UNCHANGED link

Retry ==
  /\ Turn("START_RETRY", "WAIT_RETRY") \/ Turn("WAIT_RETRY", "OPEN_SOCKET_START")
  /\ NoFault
  /\ UNCHANGED <<link, wire>>

(* An idle session opens its connection again when there is work. *)
WaitReconnect ==
  /\ Turn("WAIT_RECONNECT", IF queue' = <<>> THEN "WAIT_RECONNECT" ELSE "OPEN_SOCKET_START")
  /\ auto' = FALSE
  /\ NoFault
  /\ UNCHANGED <<expired, oldOnly, guess, payload, wire>>

(* The loop ends at its next turn, with a last look at the queue. *)
Exit ==
  /\ state \in LoopStates /\ stop # {}
  /\ Purge
  /\ state' = "exited"
  /\ UNCHANGED <<link, bundle, wire, tags, got, stop, faults>>

Handler ==
  \/ OpenSocket \/ Register \/ SendForwardOpen
  \/ ForwardOpenReply
  \/ Idle \/ Take \/ Send \/ Receive \/ UnpackReply
  \/ PushBack \/ Inserted \/ PushedBack
  \/ Disconnect \/ CloseSocket \/ Retry \/ WaitReconnect \/ Exit

Next ==
  \/ Handler
  \/ \E r \in Requests : Submit(r) \/ Release(r)
  \/ Destroy \/ LibraryStop \/ Join

Spec == Init /\ [][Next]_vars

(* The handler thread's waits all have a time limit, except the one for    *)
(* the reply to a ForwardOpen, so it always goes on; whoever destroys the  *)
(* session waits for it.  Nothing makes a tag do anything.                 *)
FairSpec == Spec /\ WF_vars(Handler) /\ WF_vars(Join)

-----------------------------------------------------------------------------
Slots == Requests \cup {Null}

(* Types: the variables hold what their types allow. *)
Types ==
  /\ state \in States
  /\ queue \in Seq(Slots) /\ bundle \in Seq(Requests) /\ wire \in Seq(Seq(Requests))
  /\ held \subseteq submitted /\ submitted \subseteq Requests /\ aborted \subseteq submitted
  /\ got \in [Requests -> Slots] /\ refs \in [Requests -> Nat]
  /\ stop \subseteq {"session", "library"}
TypeOK ==
  /\ Types
  /\ {auto, expired, oldOnly} \subseteq BOOLEAN
  /\ guess \in Nat /\ payload \in Nat \ {0}
  /\ faults \in 0..MaxFaults

Holders(r) == (IF r \in held THEN 1 ELSE 0)
              + Cardinality({i \in DOMAIN queue : queue[i] = r})
              + Cardinality({i \in DOMAIN bundle : bundle[i] = r})

(* The count of a request is the number of its owners: its tag, and its    *)
(* places in the queue and in the bundle.  So no request is freed while    *)
(* the session can reach it, and none is leaked, through any sequence of   *)
(* failures, retries and aborts.                                           *)
RefsExact == \A r \in Requests : refs[r] = Holders(r)

(* No request is freed while the session or its tag can reach it, also     *)
(* where a reply does not fit or an insertion overwrites a request.        *)
NeverFreedEarly == \A r \in Requests : refs[r] >= Holders(r)

(* A request is only ever given the reply to itself: replies that came too *)
(* late are thrown away with their socket, and the parts of a packed reply *)
(* go to the requests in the order they were packed.                       *)
AnswerMatches == \A r \in Requests : got[r] \in {r, Null}

(* The inductive invariant behind these three.  Bundles exist only while   *)
(* requests are processed, and what is on the wire then is the bundle that *)
(* was sent, or what is left of it; each request is in one place; a tag    *)
(* that does not hold its request any more has aborted it.                 *)
line == bundle \o queue
Single(q) == \A i, j \in DOMAIN q : q[i] = q[j] /\ q[i] # Null => i = j
Owners(r) == (IF r \in held THEN 1 ELSE 0) + (IF r \in Range(line) THEN 1 ELSE 0)

Pushing  == {"push", "inserting", "raced"}
Closings == Pushing \cup {"DISCONNECT", "UNREGISTER", "CLOSE_SOCKET", "exited", "gone"}
Bundled == /\ bundle # <<>> => state \in {"send", "receive", "unpack"} \cup Pushing
           /\ state \in {"send", "receive", "unpack"} => bundle # <<>>
           /\ state \in {"inserting", "raced"} => queue # <<>>
           /\ state = "raced" => PushBackRace
Wired   == /\ wire # <<>> => state \in {"receive", "unpack"} \cup Closings
           /\ state = "receive" => wire = <<bundle>>
           /\ state = "unpack" =>
                /\ Len(wire) = 1 /\ Len(bundle) <= Len(wire[1])
                /\ \A i \in 1..Len(bundle) : bundle[i] = wire[1][Len(wire[1]) - Len(bundle) + i]
Placed  == /\ Range(line) \subseteq submitted \cup {Null} /\ Single(line)
           /\ ~PushBackRace => Null \notin Range(line)
Given   == /\ submitted = held \cup aborted /\ held \cap aborted = {}
           /\ "session" \in stop => held = {}
           /\ \A r \in Requests : got[r] # Null => r \in submitted
Counted == \A r \in Requests : /\ refs[r] >= Owners(r)
                               /\ ~PushBackRace /\ ~UnpackFails => refs[r] = Owners(r)
IInv == Types /\ Bundled /\ Wired /\ Placed /\ Given /\ Counted /\ AnswerMatches

(* The session answers in the order of arrival, once, and retries and      *)
(* other tags' aborts change nothing of that.                              *)
Promise == INSTANCE RequestFifo WITH
  seen <- submitted,
  pending <- Without(bundle \o queue, aborted),
  answered <- {r \in held : got[r] # Null}
ImplementsFifo == Promise!Spec

(* Every request is answered, unless its tag takes it back or the session  *)
(* ends: retries, reconnects and idle disconnects lose no request.         *)
EventuallyAnswered ==
  \A r \in Requests : r \in held ~> (got[r] # Null \/ r \notin held \/ stop # {})

(* session_destroy() returns, whatever the handler thread is waiting for.  *)
DestroyReturns == "session" \in stop ~> state = "gone"

=============================================================================
