----------------------------- MODULE TagEvents ------------------------------
(***************************************************************************)
(* The events of a tag (tag.h, lib.c): raised-event flags, which any       *)
(* function sets, and the application's callback, which whoever comes to   *)
(* plc_tag_generic_handle_event_callbacks() calls.                         *)
(*                                                                         *)
(* The mutexes of the tags are part of the state, because callbacks run    *)
(* with the api_mutex of their tag held and may call functions of the tag  *)
(* or of its peer, which take a mutex too.  A mutex is recursive, so that  *)
(* its owner is all there is to it: a block without callbacks is one       *)
(* action, which needs that no other thread is the owner.  Of the          *)
(* operations only their start, their answer and their end are left, and   *)
(* statuses are left out.                                                  *)
(***************************************************************************)
EXTENDS Integers, FiniteSets, SequencesExt

CONSTANTS
  Tags, Clients, TicklerThread,
  None,       \* no tag, no thread
  Peer,       \* the other tag whose functions a tag's callback may call
  Calls,      \* the API functions that application threads call on each tag
  AutoRead,   \* auto_sync_read_ms > 0
  MaxCalls    \* bound: calls

AllCalls == {"read", "write", "abort", "destroy", "register", "unregister"}
Threads  == Clients \cup {TicklerThread}

EventAssumption ==
  /\ TicklerThread \notin Clients /\ None \notin Tags \cup Threads
  /\ Peer \in [Tags -> Tags \cup {None}]
  /\ Calls \in [Tags -> SUBSET AllCalls] /\ AutoRead \in BOOLEAN /\ MaxCalls \in Nat

VARIABLES
  tag,       \* the tags
  cond,      \* the flag of each tag's tag_cond_wait
  owner,     \* the thread that has the tag's api_mutex
  pc, on,    \* where each thread is, and at which tag
  call,      \* the API function an application thread is in
  pass,      \* the events that it still tells the callback of, and where it
             \* goes then
  calls,     \* calls made
  balance,   \* ghost: starts minus ends that the callback was told of
  seen,      \* ghost: events that the callback was told of
  promised   \* ghost: ends that it must still be told of

vars == <<tag, cond, owner, pc, on, call, pass, calls, balance, seen, promised>>

ghosts == <<balance, seen, promised>>

(* In the order in which they are handled *)
Events == <<"CREATED", "READ_STARTED", "WRITE_STARTED", "ABORTED",
            "READ_COMPLETED", "WRITE_COMPLETED", "DESTROYED">>
Ends   == [READ_STARTED |-> "READ_COMPLETED", WRITE_STARTED |-> "WRITE_COMPLETED"]
Starts == DOMAIN Ends
EndOf(op) == IF op = "read" THEN "READ_COMPLETED" ELSE "WRITE_COMPLETED"

(* Mutant of Raise: an end stays enabled once it was raised. *)
RaiseKeeps(t, e) ==
  LET created == IF e \in Starts \cup {"DESTROYED"} \/ t.had THEN {} ELSE {"CREATED"}
      event   == CASE e = "CREATED"    -> {}
                   [] e \in Range(Ends) -> {e} \cap t.enabled
                   [] OTHER            -> {e}
  IN  IF ~t.callback THEN t
      ELSE [t EXCEPT !.raised = @ \cup created \cup event,
                     !.had = @ \/ created # {},
                     !.enabled = IF e \in Starts THEN @ \cup {Ends[e]} ELSE @]

(* tag_raise_event(): CREATED is raised once, by itself or before the end  *)
(* of an operation, and an end only if it was enabled by a start.          *)
Raise(t, e) ==
  LET created == IF e \in Starts \cup {"DESTROYED"} \/ t.had THEN {} ELSE {"CREATED"}
      event   == CASE e = "CREATED"    -> {}
                   [] e \in Range(Ends) -> {e} \cap t.enabled
                   [] OTHER            -> {e}
  IN  IF ~t.callback THEN t
      ELSE [t EXCEPT !.raised = @ \cup created \cup event,
                     !.had = @ \/ created # {},
                     !.enabled = IF e \in Starts THEN @ \cup {Ends[e]} ELSE @ \ {e}]

-----------------------------------------------------------------------------
(* Mutant of Free: a mutex that is not recursive *)
FreeOnce(c, t) == owner[t] = None

(* mutex_lock(tag->api_mutex) returns. *)
Free(c, t) == owner[t] \in {None, c}

(* A block under the mutex of t that nobody can look into *)
Block(c, t, new) == Free(c, t) /\ tag' = [tag EXCEPT ![t] = new]

Goto(c, place) == pc' = [pc EXCEPT ![c] = place]

(* Where a thread goes once the events are handled *)
Then(c, place) == pass' = [pass EXCEPT ![c].then = place]

(* On to plc_tag_generic_handle_event_callbacks(), and then to a place *)
Handle(c, place) == Goto(c, "events") /\ Then(c, place)

(* In it, with the mutex held.  One pass over the flags follows: nobody    *)
(* raises an event meanwhile but the creator, which has no mutex.  What it *)
(* raises is left for its own pass.                                        *)
Outstanding(t) == IF t.callback THEN t.raised ELSE {}
Deliver(c, t, place) ==
  /\ Goto(c, "deliver")
  /\ pass' = [pass EXCEPT ![c] = [tell |-> Outstanding(t), then |-> place]]

-----------------------------------------------------------------------------
(* plc_tag_generic_handle_event_callbacks() *)

(* critical_block(tag->api_mutex) *)
EnterEvents(c) ==
  /\ pc[c] = "events" /\ Free(c, on[c])
  /\ owner' = [owner EXCEPT ![on[c]] = c]
  /\ Deliver(c, tag[on[c]], pass[c].then)
  /\ UNCHANGED <<tag, cond, on, call, calls, ghosts>>

FirstOf(tell) == Events[CHOOSE i \in DOMAIN Events :
                          Events[i] \in tell /\ \A j \in 1..(i - 1) : Events[j] \notin tell]

(* The callback is told of e. *)
Tell(t, e) ==
  /\ balance' = IF e \in Starts THEN [balance EXCEPT ![t][Ends[e]] = @ + 1]
                ELSE IF e \in Range(Ends) THEN [balance EXCEPT ![t][e] = @ - 1]
                ELSE balance
  /\ seen' = [seen EXCEPT ![t] = @ \cup {e}]
  /\ promised' = [promised EXCEPT ![t] = IF e = "ABORTED" THEN {} ELSE @ \ {e}]

(* It has returned: the flag is cleared. *)
Told(c, e) ==
  /\ tag' = [tag EXCEPT ![on[c]].raised = @ \ {e}]
  /\ pass' = [pass EXCEPT ![c].tell = @ \ {e}]

(* A callback that returns by itself, or calls functions of its own tag    *)
(* that raise nothing.                                                     *)
Callback(c) ==
  LET e == FirstOf(pass[c].tell)
  IN  /\ pc[c] = "deliver" /\ pass[c].tell # {}
      /\ Tell(on[c], e)
      /\ Told(c, e)
      /\ UNCHANGED <<cond, owner, pc, on, call, calls>>

(* A callback that calls a function of another tag, such as a getter or    *)
(* plc_tag_status(): it waits for that tag's mutex.  When it is told of    *)
(* the destruction it must not (libplctag.h).                              *)
CallbackCalls(c) ==
  /\ pc[c] = "deliver" /\ pass[c].tell \ {"DESTROYED"} # {} /\ Peer[on[c]] # None
  /\ Tell(on[c], FirstOf(pass[c].tell))
  /\ Goto(c, "peer")
  /\ UNCHANGED <<tag, cond, owner, on, call, pass, calls>>

CallbackReturns(c) ==
  /\ pc[c] = "peer" /\ Free(c, Peer[on[c]])
  /\ Told(c, FirstOf(pass[c].tell))
  /\ Goto(c, "deliver")
  /\ UNCHANGED <<cond, owner, on, call, calls, ghosts>>

(* The end of the block.  plc_tag_read() and plc_tag_write() called it with *)
(* the mutex held, and go on with it.                                      *)
LeaveEvents(c) ==
  LET then == pass[c].then
  IN  /\ pc[c] = "deliver" /\ pass[c].tell = {}
      /\ owner' = IF then \in {"read", "write"} THEN owner ELSE [owner EXCEPT ![on[c]] = None]
      /\ Goto(c, then)
      /\ Then(c, "idle")
      /\ call' = IF then = "idle" THEN [call EXCEPT ![c] = "none"] ELSE call
      /\ on' = IF then = "idle" THEN [on EXCEPT ![c] = None] ELSE on
      /\ UNCHANGED <<tag, cond, calls, ghosts>>

-----------------------------------------------------------------------------
(* The operation in the protocol, and the tag tickler thread *)

Idle(t) == [t EXCEPT !.op = "none", !.reply = "none"]
ClearFlight(t) == [t EXCEPT !.rif = FALSE, !.wif = FALSE, !.rdone = FALSE, !.wdone = FALSE]

(* vtable->read() and vtable->write(); b: whether a request can be built.  *)
Begins(t, b) == t.op = "none" /\ b
Begin(t, op) == [t EXCEPT !.op = op, !.reply = "none", !.failed = FALSE]

(* vtable->tickler(): the answer ends the operation, and the first read    *)
(* the creation.                                                           *)
Tickle(t) ==
  IF t.reply = "none" THEN t
  ELSE LET ended == [Idle(t) EXCEPT !.failed = t.reply = "bad",
                                    !.rdone = @ \/ t.op = "read", !.wdone = @ \/ t.op = "write"]
       IN  IF t.op = "read" THEN Raise(ended, "CREATED") ELSE ended

Respond(t, reply) ==
  /\ tag[t].op # "none" /\ tag[t].reply = "none"
  /\ tag' = [tag EXCEPT ![t].reply = reply]
  /\ UNCHANGED <<cond, owner, pc, on, call, pass, calls, ghosts>>

(* plc_tag_generic_tickler(): an abort, or an automatic read that is due *)
GenericTickler(t, due) ==
  LET reading == [t EXCEPT !.rif = TRUE]
  IN  CASE t.abortReq -> Raise([ClearFlight(Idle(t)) EXCEPT !.abortReq = FALSE], "ABORTED")
        [] ~t.abortReq /\ AutoRead /\ due /\ ~t.rif /\ ~t.wif ->
             Raise(IF Begins(t, TRUE) THEN Begin(reading, "read") ELSE reading, "READ_STARTED")
        [] OTHER -> t

(* The tickler takes a reference to a tag that is in the handle table. *)
Fetch(t) ==
  /\ pc[TicklerThread] = "idle" /\ ~tag[t].gone
  /\ Goto(TicklerThread, "tick")
  /\ on' = [on EXCEPT ![TicklerThread] = t]
  /\ UNCHANGED <<tag, cond, owner, call, pass, calls, ghosts>>

(* Mutant of Tick: the events are left for somebody else to handle. *)
TickQuiet(due) ==
  LET t == on[TicklerThread]
      u == Tickle(GenericTickler(tag[t], due))
      r == IF u.rdone THEN Raise([u EXCEPT !.rdone = FALSE, !.rif = FALSE], "READ_COMPLETED") ELSE u
      w == IF u.wdone THEN Raise([r EXCEPT !.wdone = FALSE, !.wif = FALSE], "WRITE_COMPLETED") ELSE r
  IN  /\ pc[TicklerThread] = "tick"
      /\ Block(TicklerThread, t, w)
      /\ cond' = [cond EXCEPT ![t] = @ \/ u.rdone \/ u.wdone]
      /\ Goto(TicklerThread, "idle")
      /\ on' = [on EXCEPT ![TicklerThread] = None]
      /\ UNCHANGED <<owner, call, pass, calls, ghosts>>

(* One turn of tag_tickler_func() for a tag, from the successful           *)
(* mutex_try_lock() to the unlock; the events come after that.             *)
Tick(due) ==
  LET t == on[TicklerThread]
      u == Tickle(GenericTickler(tag[t], due))
      r == IF u.rdone THEN Raise([u EXCEPT !.rdone = FALSE, !.rif = FALSE], "READ_COMPLETED") ELSE u
      w == IF u.wdone THEN Raise([r EXCEPT !.wdone = FALSE, !.wif = FALSE], "WRITE_COMPLETED") ELSE r
  IN  /\ pc[TicklerThread] = "tick"
      /\ Block(TicklerThread, t, w)
      /\ cond' = [cond EXCEPT ![t] = @ \/ u.rdone \/ u.wdone]
      /\ Handle(TicklerThread, "idle")
      /\ UNCHANGED <<owner, on, call, calls, ghosts>>

(* mutex_try_lock() fails *)
TickSkip ==
  /\ pc[TicklerThread] = "tick" /\ ~Free(TicklerThread, on[TicklerThread])
  /\ Goto(TicklerThread, "idle")
  /\ on' = [on EXCEPT ![TicklerThread] = None]
  /\ UNCHANGED <<tag, cond, owner, call, pass, calls, ghosts>>

-----------------------------------------------------------------------------
(* The API functions *)

(* The application has the handle. *)
Created(t) == \A c \in Clients : ~(pc[c] = "create" /\ on[c] = t)

CanCall(c, t, name) ==
  /\ name \in Calls[t] /\ calls < MaxCalls
  /\ pc[c] = "idle" /\ ~tag[t].gone /\ Created(t)
  /\ calls' = calls + 1

Enter(c, t, name) ==
  /\ CanCall(c, t, name)
  /\ on' = [on EXCEPT ![c] = t]
  /\ call' = [call EXCEPT ![c] = name]

(* plc_tag_create_ex(), from the end of its wait on.  The creator does not *)
(* take the mutex.  It fails when its time is up or the first read fails.  *)
CreateEnd(c) ==
  LET t == on[c]
  IN  /\ pc[c] = "create"
      /\ \/ /\ cond[t] /\ ~tag[t].failed
            /\ tag' = [tag EXCEPT ![t] = Raise([@ EXCEPT !.rif = FALSE, !.wif = FALSE], "CREATED")]
            /\ Handle(c, "idle")
            /\ UNCHANGED <<on, call>>
         \/ /\ tag' = [tag EXCEPT ![t] = [Idle(@) EXCEPT !.gone = TRUE]]
            /\ Goto(c, "idle")
            /\ call' = [call EXCEPT ![c] = "none"]
            /\ on' = [on EXCEPT ![c] = None]
            /\ UNCHANGED pass
      /\ cond' = [cond EXCEPT ![t] = FALSE]
      /\ UNCHANGED <<owner, calls, ghosts>>

(* plc_tag_read() tells of the start before it looks whether it may start. *)
Read(c, t) ==
  LET started == Raise(tag[t], "READ_STARTED")
  IN  /\ Enter(c, t, "read")
      /\ Block(c, t, started)
      /\ owner' = [owner EXCEPT ![t] = c]
      /\ Deliver(c, started, "read")
      /\ UNCHANGED <<cond, ghosts>>

Promise(t, op) == IF tag[t].callback THEN [promised EXCEPT ![t] = @ \cup {EndOf(op)}] ELSE promised

(* A read that cannot begin is aborted, as if the application had done it, *)
(* still within the mutex.                                                 *)
ReadStart(c, sync, b) ==
  LET t       == on[c]
      reading == [tag[t] EXCEPT !.rif = TRUE]
      refused == Raise([ClearFlight(Idle(tag[t])) EXCEPT !.abortReq = TRUE], "ABORTED")
  IN  /\ pc[c] = "read"
      /\ \/ /\ tag[t].rif \/ tag[t].wif
            /\ Handle(c, "idle") /\ owner' = [owner EXCEPT ![t] = None]
            /\ UNCHANGED <<tag, cond, promised>>
         \/ /\ ~(tag[t].rif \/ tag[t].wif) /\ Begins(tag[t], b)
            /\ tag' = [tag EXCEPT ![t] = Begin(reading, "read")]
            /\ cond' = [cond EXCEPT ![t] = FALSE]
            /\ promised' = Promise(t, "read")
            /\ owner' = [owner EXCEPT ![t] = None]
            /\ IF sync THEN Goto(c, "wait") /\ UNCHANGED pass ELSE Handle(c, "idle")
         \/ /\ ~(tag[t].rif \/ tag[t].wif) /\ ~Begins(tag[t], b)
            /\ tag' = [tag EXCEPT ![t] = refused]
            /\ cond' = [cond EXCEPT ![t] = FALSE]
            /\ Deliver(c, refused, "events")
            /\ UNCHANGED <<owner, promised>>
      /\ UNCHANGED <<on, call, calls, balance, seen>>

(* plc_tag_write(); one that is refused as busy raises the end of a write. *)
Write(c, t) ==
  LET started == Raise([tag[t] EXCEPT !.wif = TRUE], "WRITE_STARTED")
  IN  /\ Enter(c, t, "write")
      /\ \/ /\ tag[t].rif \/ tag[t].wif
            /\ Free(c, t) /\ Goto(c, "written")
            /\ UNCHANGED <<tag, cond, owner, pass>>
         \/ /\ ~(tag[t].rif \/ tag[t].wif)
            /\ Block(c, t, started)
            /\ cond' = [cond EXCEPT ![t] = FALSE]
            /\ owner' = [owner EXCEPT ![t] = c]
            /\ Deliver(c, started, "write")
      /\ UNCHANGED ghosts

WriteStart(c, sync, b) ==
  LET t == on[c]
  IN  /\ pc[c] = "write"
      /\ owner' = [owner EXCEPT ![t] = None]
      /\ \/ /\ Begins(tag[t], b)
            /\ tag' = [tag EXCEPT ![t] = Begin(@, "write")]
            /\ promised' = Promise(t, "write")
            /\ IF sync THEN Goto(c, "wait") /\ UNCHANGED pass ELSE Handle(c, "idle")
         \/ /\ ~Begins(tag[t], b)
            /\ tag' = [tag EXCEPT ![t] = [Idle(@) EXCEPT !.wif = FALSE]]
            /\ Goto(c, "written")
            /\ UNCHANGED <<pass, promised>>
      /\ UNCHANGED <<cond, on, call, calls, balance, seen>>

(* The wait of either ends with a signal or with its timeout. *)
Wake(c) ==
  /\ pc[c] = "wait" /\ cond[on[c]]
  /\ cond' = [cond EXCEPT ![on[c]] = FALSE]
  /\ Goto(c, "check")
  /\ UNCHANGED <<tag, owner, on, call, pass, calls, ghosts>>

WaitTimeout(c) ==
  /\ pc[c] = "wait"
  /\ Goto(c, "flag") /\ Then(c, "end")
  /\ UNCHANGED <<tag, cond, owner, on, call, calls, ghosts>>

(* plc_tag_status_impl(): a pending operation is waited for again while    *)
(* there is time, an error aborts.  A later tickle has covered the error   *)
(* of an earlier one.                                                      *)
Check(c) ==
  LET t == on[c]
      u == Tickle(tag[t])
  IN  /\ pc[c] = "check" /\ Block(c, t, u)
      /\ \/ (u.rif \/ u.wif) /\ Goto(c, "wait") /\ UNCHANGED pass
         \/ Goto(c, "end") /\ UNCHANGED pass
         \/ u.failed /\ Goto(c, "flag") /\ Then(c, "end")
      /\ UNCHANGED <<cond, owner, on, call, calls, ghosts>>

(* The end of a call that waited *)
End(c) ==
  LET t == on[c]
  IN  /\ pc[c] = "end"
      /\ \/ /\ call[c] = "read"
            /\ Block(c, t, Raise([tag[t] EXCEPT !.rif = FALSE, !.rdone = FALSE], "READ_COMPLETED"))
            /\ Handle(c, "idle")
         \/ /\ call[c] = "write"
            /\ Block(c, t, [tag[t] EXCEPT !.wif = FALSE, !.wdone = FALSE])
            /\ Goto(c, "written") /\ UNCHANGED pass
      /\ UNCHANGED <<cond, owner, on, call, calls, ghosts>>

(* The block of plc_tag_write() for a write that is_done *)
WriteCompleted(c) ==
  /\ pc[c] = "written"
  /\ Block(c, on[c], Raise(tag[on[c]], "WRITE_COMPLETED"))
  /\ Handle(c, "idle")
  /\ UNCHANGED <<cond, owner, on, call, calls, ghosts>>

(* plc_tag_abort() and plc_tag_destroy(); the latter takes the tag out of  *)
(* the handle table first.                                                 *)
Abort(c, t) ==
  /\ \/ Enter(c, t, "abort") /\ Then(c, "idle") /\ UNCHANGED tag
     \/ /\ Enter(c, t, "destroy") /\ Then(c, "destroy")
        /\ tag' = [tag EXCEPT ![t].gone = TRUE]
  /\ Goto(c, "flag")
  /\ UNCHANGED <<cond, owner, ghosts>>

(* plc_tag_abort_impl(): the flag before the mutex, and the rest under it. *)
AbortFlag(c) ==
  /\ pc[c] = "flag"
  /\ tag' = [tag EXCEPT ![on[c]].abortReq = TRUE]
  /\ Goto(c, "abort")
  /\ UNCHANGED <<cond, owner, on, call, pass, calls, ghosts>>

AbortRun(c) ==
  LET t == tag[on[c]]
  IN  /\ pc[c] = "abort"
      /\ Block(c, on[c], Raise(ClearFlight(IF t.abortReq THEN Idle(t) ELSE t), "ABORTED"))
      /\ Goto(c, "events")
      /\ UNCHANGED <<cond, owner, on, call, pass, calls, ghosts>>

Destroyed(c) ==
  /\ pc[c] = "destroy"
  /\ Block(c, on[c], Raise(tag[on[c]], "DESTROYED"))
  /\ Handle(c, "idle")
  /\ UNCHANGED <<cond, owner, on, call, calls, ghosts>>

(* plc_tag_register_callback_ex() and plc_tag_unregister_callback() leave  *)
(* the raised flags alone.                                                 *)
Register(c, t) ==
  /\ CanCall(c, t, "register") /\ ~tag[t].callback
  /\ Block(c, t, [tag[t] EXCEPT !.callback = TRUE])
  /\ UNCHANGED <<cond, owner, pc, on, call, pass, ghosts>>

Unregister(c, t) ==
  /\ CanCall(c, t, "unregister") /\ tag[t].callback
  /\ Block(c, t, [tag[t] EXCEPT !.callback = FALSE])
  /\ promised' = [promised EXCEPT ![t] = {}]
  /\ UNCHANGED <<cond, owner, pc, on, call, pass, balance, seen>>

-----------------------------------------------------------------------------
(* A new tag, whose first read is under way *)
NewTag == [callback |-> TRUE, raised |-> {}, had |-> FALSE, enabled |-> {},
           abortReq |-> FALSE, rif |-> TRUE, wif |-> FALSE, rdone |-> FALSE, wdone |-> FALSE,
           op |-> "read", reply |-> "none", failed |-> FALSE, gone |-> FALSE]

Init ==
  /\ \E c \in Clients, t \in Tags, sync \in BOOLEAN :
       /\ pc = [d \in Threads |-> IF sync /\ d = c THEN "create" ELSE "idle"]
       /\ on = [d \in Threads |-> IF sync /\ d = c THEN t ELSE None]
  /\ tag = [t \in Tags |-> NewTag]
  /\ cond = [t \in Tags |-> FALSE]
  /\ owner = [t \in Tags |-> None]
  /\ call = [c \in Threads |-> "none"]
  /\ pass = [c \in Threads |-> [tell |-> {}, then |-> "idle"]]
  /\ calls = 0
  /\ balance = [t \in Tags |-> [e \in Range(Ends) |-> 0]]
  /\ seen = [t \in Tags |-> {}]
  /\ promised = [t \in Tags |-> {}]

ApiCall(c, t) == Read(c, t) \/ Write(c, t) \/ Abort(c, t) \/ Register(c, t) \/ Unregister(c, t)

(* What a thread in the library does next *)
Step(c) ==
  \/ EnterEvents(c) \/ Callback(c) \/ CallbackCalls(c) \/ CallbackReturns(c) \/ LeaveEvents(c)
  \/ CreateEnd(c)
  \/ \E sync, b \in BOOLEAN : ReadStart(c, sync, b) \/ WriteStart(c, sync, b)
  \/ Wake(c) \/ WaitTimeout(c) \/ Check(c) \/ End(c) \/ WriteCompleted(c)
  \/ AbortFlag(c) \/ AbortRun(c) \/ Destroyed(c)

TicklerStep == (\E due \in BOOLEAN : Tick(due)) \/ TickSkip

Next ==
  \/ \E t \in Tags : Fetch(t) \/ \E reply \in {"good", "bad"} : Respond(t, reply)
  \/ TicklerStep
  \/ \E c \in Threads : Step(c)
  \/ \E c \in Clients, t \in Tags : ApiCall(c, t)

Spec == Init /\ [][Next]_vars

(* Threads in the library go on, callbacks return, and a mutex that is     *)
(* free again and again is granted.  The tickler comes to every tag, and   *)
(* the PLC answers.  Timeouts pass.                                        *)
Fairness ==
  /\ \A c \in Threads : SF_vars(Step(c))
  /\ \A t \in Tags : /\ SF_vars(Fetch(t))
                    /\ SF_vars(on[TicklerThread] = t /\ \E due \in BOOLEAN : Tick(due))
                    /\ WF_vars(\E reply \in {"good", "bad"} : Respond(t, reply))

FairSpec == Spec /\ Fairness

-----------------------------------------------------------------------------
(* Types, and that the events are handled with the mutex held. *)
TypeOK ==
  /\ tag \in [Tags -> [callback : BOOLEAN, raised : SUBSET Range(Events), had : BOOLEAN,
                       enabled : SUBSET Range(Ends), abortReq : BOOLEAN, rif : BOOLEAN,
                       wif : BOOLEAN, rdone : BOOLEAN, wdone : BOOLEAN,
                       op : {"none", "read", "write"}, reply : {"none", "good", "bad"},
                       failed : BOOLEAN, gone : BOOLEAN]]
  /\ owner \in [Tags -> Threads \cup {None}]
  /\ on \in [Threads -> Tags \cup {None}]
  /\ \A c \in Threads : pc[c] \in {"deliver", "peer", "read", "write"} <=>
                          \E t \in Tags : owner[t] = c

(* In whatever order threads raise and handle events, the callback is told *)
(* of the creation before an end or an abort, and never of more ends of    *)
(* reads, or of writes, than of starts.                                    *)
ToldInOrder ==
  \A t \in Tags :
    /\ seen[t] \cap (Range(Ends) \cup {"ABORTED"}) # {} => "CREATED" \in seen[t]
    /\ \A e \in Range(Ends) : balance[t][e] >= 0

(* libplctag.h:260: a callback "can call any tag functions safely".  No    *)
(* threads that are in callbacks wait for each other's mutexes.            *)
Awaited(c) == IF pc[c] = "peer" /\ ~Free(c, Peer[on[c]]) THEN {owner[Peer[on[c]]]} ELSE {}
NoDeadlock == \A S \in (SUBSET Threads) \ {{}} : \E c \in S : Awaited(c) \cap S = {}

(* Operations of whose starts the callback was told end for it, each with  *)
(* the event for its end or with ABORTED, unless the tag is destroyed: the *)
(* calls are bounded, so that none is outstanding forever.                 *)
EndIsTold == \A t \in Tags : promised[t] # {} ~> promised[t] = {} \/ tag[t].gone

=============================================================================
