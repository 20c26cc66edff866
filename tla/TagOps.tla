------------------------------- MODULE TagOps -------------------------------
(***************************************************************************)
(* The operations on one CIP tag: plc_tag_create_ex(), plc_tag_read(),     *)
(* plc_tag_write(), plc_tag_status(), plc_tag_abort() and the data setters *)
(* called by application threads, the tag tickler thread that moves every  *)
(* operation on, and the session that answers the tag's requests.          *)
(*                                                                         *)
(* A block under tag->api_mutex is one action.  What the code does outside *)
(* the mutex (waiting on tag_cond_wait, setting abort_requested, the       *)
(* creator's checks and flag resets) are actions of their own.  The        *)
(* protocol's functions are operators on the tag record; those that return *)
(* a code give a pair [tag, rc].  Sizes are counted in fragments: a read   *)
(* or a write of the whole tag takes at most Fragments requests.           *)
(***************************************************************************)
EXTENDS AbTag, Integers, FiniteSets

CONSTANTS
  Clients,     \* application threads
  Calls,       \* the API functions they call once the tag exists
  Answers,     \* what becomes of a request that the session has sent
  Fragments,   \* requests needed to move the whole tag
  Builds,      \* whether a request buffer can be had: a subset of BOOLEAN
  Connected,   \* tag->use_connected_msg
  AutoRead,    \* auto_sync_read_ms > 0
  AutoWrite,   \* auto_sync_write_ms > 0
  Timeouts     \* TRUE when waits may run out of time

AllCalls   == {"read", "write", "status", "abort", "set"}
AllAnswers == {"good", "part", "refused", "dead"}

ASSUME CallAssumption   == Calls \subseteq AllCalls
ASSUME AnswerAssumption == Answers \subseteq AllAnswers /\ "good" \in Answers
ASSUME SizeAssumption   == Fragments \in Nat \ {0}
ASSUME ModeAssumption   == /\ Builds \subseteq BOOLEAN /\ TRUE \in Builds
                           /\ {Connected, AutoRead, AutoWrite, Timeouts} \subseteq BOOLEAN

VARIABLES
  tag,       \* the tag object
  cond,      \* the flag of tag->tag_cond_wait
  pc,        \* where each application thread is
  call,      \* the API function it is in
  rc,        \* its local rc
  answered   \* ghost: threads whose operation the PLC completed during the call

vars == <<tag, cond, pc, call, rc, answered>>

Codes == {"OK", "PENDING", "ABORT", "BUSY", "TIMEOUT", "REMOTE", "DEAD", "BAD_DATA",
          "NO_MEM", "NO_DATA", "UNSUPPORTED"}

-----------------------------------------------------------------------------
(* Reads and writes: eip_cip.c *)

(* build_read_request_*() puts a request for the data from t.offset on into *)
(* the session's queue; b tells whether the request could be allocated.    *)
BuildRead(t, b) == IF b THEN Result([t EXCEPT !.req = "sent"], "OK") ELSE Result(t, "NO_MEM")

(* build_write_request_*() also moves the offset past the data it takes,   *)
(* and needs the type that a reply to a read has brought.                  *)
BuildWrite(t, b) ==
  CASE ~b             -> Result(t, "NO_MEM")
    [] b /\ ~t.typed  -> Result(t, "UNSUPPORTED")
    [] OTHER          -> Result([t EXCEPT !.req = "sent",
                                          !.offset = IF @ < Fragments THEN @ + 1 ELSE @], "OK")

(* tag_read_start() *)
ReadStart(t, b) ==
  LET built == BuildRead([t EXCEPT !.rip = TRUE], b)
  IN  CASE t.rip \/ t.wip -> Result(t, "BUSY")
        [] ~(t.rip \/ t.wip) /\ built.rc = "OK" -> Result(built.tag, "PENDING")
        [] OTHER -> Result([built.tag EXCEPT !.rip = FALSE], built.rc)

(* tag_write_start(): a tag that was never read is read first. *)
WriteStart(t, b) ==
  LET built == BuildWrite([t EXCEPT !.wip = TRUE], b)
  IN  CASE t.rip \/ t.wip -> Result(t, "BUSY")
        [] ~(t.rip \/ t.wip) /\ t.firstRead -> ReadStart([t EXCEPT !.preRead = TRUE], b)
        [] ~(t.rip \/ t.wip \/ t.firstRead) /\ built.rc = "OK" -> Result(built.tag, "PENDING")
        [] OTHER -> Result([built.tag EXCEPT !.wip = FALSE], built.rc)

(* Mutant of CheckRead: a partial reply ends the read. *)
CheckReadStopsEarly(t, b) ==
  IF t.req = "refused" THEN Result(AbortRequest(t), "REMOTE")
  ELSE LET got  == [AbortRequestOnly(t) EXCEPT !.typed = TRUE,
                                               !.data = IF t.preRead THEN @ ELSE "plc"]
           next == IF t.preRead THEN WriteStart([got EXCEPT !.preRead = FALSE, !.offset = 0], b)
                                ELSE Result(got, "OK")
       IN  IF next.rc = "PENDING" THEN next ELSE Result(AbortRequest(next.tag), next.rc)

(* check_read_status_connected/unconnected(): the reply carries the type   *)
(* and, unless it answers a pre-read, the tag's data.  A pre-read goes on  *)
(* with the write, a partial reply with the next fragment.                 *)
CheckRead(t, b) ==
  IF t.req = "refused" THEN Result(AbortRequest(t), "REMOTE")
  ELSE LET got  == [AbortRequestOnly(t) EXCEPT !.typed = TRUE,
                                               !.data = IF t.preRead THEN @ ELSE "plc"]
           next == CASE t.preRead -> WriteStart([got EXCEPT !.preRead = FALSE, !.offset = 0], b)
                     [] ~t.preRead /\ t.req = "part" -> ReadStart([got EXCEPT !.offset = @ + 1], b)
                     [] OTHER -> Result(got, "OK")
       IN  IF next.rc = "PENDING" THEN next ELSE Result(AbortRequest(next.tag), next.rc)

(* Mutant of CheckWrite: the write ends with its first fragment. *)
CheckWriteOnce(t, b) ==
  LET over(code) == Result(AbortRequest(t), code)
  IN  CASE ~Connected                      -> over("BAD_DATA")
        [] Connected /\ t.req = "refused"  -> over("REMOTE")
        [] OTHER                           -> over("OK")

(* check_write_status_connected/unconnected().  The unconnected form takes *)
(* every answer for bad data: it expects the connected EIP command.        *)
CheckWrite(t, b) ==
  LET over(code) == Result(AbortRequest(t), code)
  IN  CASE ~Connected                      -> over("BAD_DATA")
        [] Connected /\ t.req = "refused"  -> over("REMOTE")
        [] Connected /\ t.req # "refused" /\ t.offset < Fragments ->
             WriteStart(AbortRequestOnly(t), b)
        [] OTHER                           -> over("OK")

(* Mutant of TagTickler: the completion of a write is not noted. *)
TagTicklerForgets(t, b) ==
  LET checked == CheckRequest(t)
      read    == CheckRead(checked.tag, b)
      write   == CheckWrite(checked.tag, b)
  IN  CASE checked.rc # "OK" -> checked.tag
        [] checked.rc = "OK" /\ checked.tag.rip ->
             [read.tag EXCEPT !.status = read.rc,
                              !.firstRead = @ /\ read.tag.rip,
                              !.rdone = @ \/ ~read.tag.rip]
        [] checked.rc = "OK" /\ ~checked.tag.rip /\ checked.tag.wip ->
             [write.tag EXCEPT !.status = write.rc]
        [] OTHER -> checked.tag

(* tag_tickler(), the vtable's tickler *)
TagTickler(t, b) ==
  LET checked == CheckRequest(t)
      read    == CheckRead(checked.tag, b)
      write   == CheckWrite(checked.tag, b)
  IN  CASE checked.rc # "OK" -> checked.tag
        [] checked.rc = "OK" /\ checked.tag.rip ->
             [read.tag EXCEPT !.status = read.rc,
                              !.firstRead = @ /\ read.tag.rip,
                              !.rdone = @ \/ ~read.tag.rip]
        [] checked.rc = "OK" /\ ~checked.tag.rip /\ checked.tag.wip ->
             [write.tag EXCEPT !.status = write.rc, !.wdone = @ \/ ~write.tag.wip]
        [] OTHER -> checked.tag

-----------------------------------------------------------------------------
(* The tag tickler thread: lib.c *)

(* Mutant of AutoWriteStep: an in-flight read is not aborted. *)
AutoWriteLetsRead(t, due, b) ==
  CASE ~(AutoWrite /\ t.dirty) -> t
    [] AutoWrite /\ t.dirty /\ ~t.nextWrite -> [t EXCEPT !.nextWrite = TRUE]
    [] AutoWrite /\ t.dirty /\ t.nextWrite /\ due /\ ~t.wif ->
         LET r == WriteStart([t EXCEPT !.dirty = FALSE, !.wif = TRUE,
                                       !.nextWrite = FALSE], b)
         IN  [r.tag EXCEPT !.status = r.rc]
    [] OTHER -> t

(* Mutant of AutoWriteStep: every turn queues the write anew. *)
AutoWritePostponed(t, due, b) ==
  IF ~(AutoWrite /\ t.dirty) THEN t
  ELSE [(IF t.rif THEN [AbortRequest(t) EXCEPT !.rif = FALSE, !.rdone = FALSE] ELSE t)
          EXCEPT !.nextWrite = TRUE]

(* plc_tag_generic_tickler(), automatic writes: dirty data aborts a read   *)
(* in flight, then queues a write, then starts it when it is due.          *)
AutoWriteStep(t, due, b) ==
  LET u == IF t.rif THEN [AbortRequest(t) EXCEPT !.rif = FALSE, !.rdone = FALSE] ELSE t
  IN  CASE ~(AutoWrite /\ t.dirty) -> t
        [] AutoWrite /\ t.dirty /\ ~u.nextWrite -> [u EXCEPT !.nextWrite = TRUE]
        [] AutoWrite /\ t.dirty /\ u.nextWrite /\ due /\ ~u.wif ->
             LET r == WriteStart([u EXCEPT !.dirty = FALSE, !.wif = TRUE,
                                           !.nextWrite = FALSE], b)
             IN  [r.tag EXCEPT !.status = r.rc]
        [] OTHER -> u

(* plc_tag_generic_tickler(), automatic reads *)
AutoReadStep(t, due, b) ==
  IF AutoRead /\ due /\ ~t.rif /\ ~t.wif /\ ~t.dirty
    THEN LET r == ReadStart([t EXCEPT !.rif = TRUE], b)
         IN  [r.tag EXCEPT !.status = r.rc]
    ELSE t

GenericTickler(t, due, b) ==
  IF t.abortReq THEN [ClearFlight(AbortRequest(t)) EXCEPT !.abortReq = FALSE]
                ELSE AutoReadStep(AutoWriteStep(t, due, b), due, b)

(* Threads for whose operation the PLC has answered the last request in t, *)
(* which tag_tickler() is about to look at.                                *)
Served(t) ==
  IF t.abortReq \/ t.req # "good" THEN {}
  ELSE {c \in Clients :
          \/ call[c] = "read" /\ t.rip /\ ~t.preRead
          \/ call[c] = "write" /\ t.wip /\ t.offset = Fragments}

(* The creator's error path takes the tag out of the handle table. *)
Created == \A c \in Clients : pc[c] \notin {"gone", "create", "create_check", "create_end"}
InTable == \A c \in Clients : pc[c] # "gone"

(* Mutant of Tick: a completed read does not signal the waiters. *)
TickSilent(due, b) ==
  LET before == GenericTickler(tag, due, b)
      after  == TagTickler(before, b)
  IN  /\ InTable
      /\ tag' = [after EXCEPT !.rif = @ /\ ~after.rdone, !.rdone = FALSE,
                              !.wif = @ /\ ~after.wdone, !.wdone = FALSE,
                              !.nextWrite = @ /\ ~after.wdone]
      /\ cond' = (cond \/ after.wdone)
      /\ answered' = answered \cup Served(before)
      /\ UNCHANGED <<pc, call, rc>>

(* One turn of tag_tickler_func() for this tag, from the successful        *)
(* mutex_try_lock() to the unlock.                                         *)
Tick(due, b) ==
  LET before == GenericTickler(tag, due, b)
      after  == TagTickler(before, b)
  IN  /\ InTable
      /\ tag' = [after EXCEPT !.rif = @ /\ ~after.rdone, !.rdone = FALSE,
                              !.wif = @ /\ ~after.wdone, !.wdone = FALSE,
                              !.nextWrite = @ /\ ~after.wdone]
      /\ cond' = (cond \/ after.rdone \/ after.wdone)
      /\ answered' = answered \cup Served(before)
      /\ UNCHANGED <<pc, call, rc>>

(* The session hands the PLC's reply over.  Reads may be answered in part  *)
(* while data is left; "refused" is a CIP error in the reply, "dead" a     *)
(* reply that check_request_status() does not accept.  A lost connection   *)
(* shows as no reply: the session queues the request again.                *)
Respond(answer) ==
  /\ tag.req = "sent"
  /\ answer = "part" => tag.rip /\ tag.offset + 1 < Fragments
  /\ tag' = [tag EXCEPT !.req = answer]
  /\ UNCHANGED <<cond, pc, call, rc, answered>>

-----------------------------------------------------------------------------
(* plc_tag_create_ex(), from the protocol's first read on *)

NewTag == [status |-> "OK", rif |-> TRUE, wif |-> FALSE, rdone |-> FALSE, wdone |-> FALSE,
           abortReq |-> FALSE, dirty |-> FALSE, nextWrite |-> FALSE, data |-> "plc",
           req |-> "none", rip |-> FALSE, wip |-> FALSE, firstRead |-> TRUE,
           preRead |-> FALSE, typed |-> FALSE, offset |-> 0]

(* The first read is under way.  Its creator waits for it, or has returned *)
(* (no timeout, or no request could be built: that error is dropped).      *)
Init ==
  /\ \E b \in Builds, c \in Clients, sync \in BOOLEAN :
       /\ tag = ReadStart(NewTag, b).tag
       /\ pc = [d \in Clients |-> IF d = c /\ sync /\ b THEN "create" ELSE "idle"]
  /\ cond = FALSE
  /\ call = [c \in Clients |-> "none"]
  /\ rc = [c \in Clients |-> "OK"]
  /\ answered = {}

CreateWake(c) ==
  /\ pc[c] = "create" /\ cond
  /\ cond' = FALSE
  /\ pc' = [pc EXCEPT ![c] = "create_check"]
  /\ UNCHANGED <<tag, call, rc, answered>>

CreateTimeout(c) ==
  /\ Timeouts /\ pc[c] = "create"
  /\ tag' = AbortRequest(tag)
  /\ pc' = [pc EXCEPT ![c] = "gone"]
  /\ UNCHANGED <<cond, call, rc, answered>>

(* The status check after a wake-up.  The loop waits again only when the   *)
(* tag is pending and the end time has passed.                             *)
CreateCheck(c) ==
  /\ pc[c] = "create_check"
  /\ rc' = [rc EXCEPT ![c] = TagStatus(tag)]
  /\ \/ IsError(TagStatus(tag)) /\ tag' = AbortRequest(tag) /\ pc' = [pc EXCEPT ![c] = "gone"]
     \/ ~IsError(TagStatus(tag)) /\ pc' = [pc EXCEPT ![c] = "create_end"] /\ UNCHANGED tag
     \/ Timeouts /\ TagStatus(tag) = "PENDING" /\ pc' = [pc EXCEPT ![c] = "create"] /\ UNCHANGED tag
  /\ UNCHANGED <<cond, call, answered>>

CreateEnd(c) ==
  /\ pc[c] = "create_end"
  /\ tag' = [tag EXCEPT !.rif = FALSE, !.wif = FALSE]
  /\ pc' = [pc EXCEPT ![c] = "idle"]
  /\ rc' = [rc EXCEPT ![c] = "OK"]
  /\ UNCHANGED <<cond, call, answered>>

-----------------------------------------------------------------------------
(* plc_tag_read(), plc_tag_write(), plc_tag_status(), plc_tag_abort() and  *)
(* plc_tag_set_*(); a call that is refused with PLCTAG_ERR_BUSY changes    *)
(* nothing and is left out.                                                *)

CanCall(c, name) == name \in Calls /\ Created /\ pc[c] = "idle"

Return(c, code) == /\ pc' = [pc EXCEPT ![c] = "return"]
                   /\ rc' = [rc EXCEPT ![c] = code]

(* A read whose request cannot be built goes through plc_tag_abort_impl(), *)
(* and the call returns that function's code: PLCTAG_STATUS_OK.            *)
StartRead(c, sync, b) ==
  LET r      == ReadStart([tag EXCEPT !.rif = TRUE, !.status = "PENDING"], b)
      failed == AbortRequest([r.tag EXCEPT !.abortReq = TRUE])
  IN  /\ CanCall(c, "read") /\ ~tag.rif /\ ~tag.wif /\ ~tag.dirty
      /\ cond' = FALSE
      /\ call' = [call EXCEPT ![c] = "read"]
      /\ IF r.rc = "PENDING" /\ sync
           THEN pc' = [pc EXCEPT ![c] = "wait"] /\ tag' = r.tag /\ UNCHANGED rc
           ELSE IF r.rc = "PENDING" THEN tag' = r.tag /\ Return(c, "PENDING")
           ELSE tag' = ClearFlight(failed) /\ Return(c, "OK")
      /\ UNCHANGED answered

StartWrite(c, sync, b) ==
  LET r == WriteStart([tag EXCEPT !.wif = TRUE, !.status = "OK"], b)
  IN  /\ CanCall(c, "write") /\ ~tag.rif /\ ~tag.wif
      /\ cond' = FALSE
      /\ call' = [call EXCEPT ![c] = "write"]
      /\ IF r.rc = "PENDING" /\ sync
           THEN pc' = [pc EXCEPT ![c] = "wait"] /\ tag' = r.tag /\ UNCHANGED rc
           ELSE IF r.rc = "PENDING" THEN tag' = r.tag /\ Return(c, "PENDING")
           ELSE tag' = [AbortRequest(r.tag) EXCEPT !.wif = FALSE] /\ Return(c, r.rc)
      /\ UNCHANGED answered

(* cond_wait() in the wait loop: signalled, or out of time. *)
Wake(c) ==
  /\ pc[c] = "wait" /\ cond
  /\ cond' = FALSE
  /\ pc' = [pc EXCEPT ![c] = "check"]
  /\ UNCHANGED <<tag, call, rc, answered>>

WaitTimeout(c) ==
  /\ Timeouts /\ pc[c] = "wait"
  /\ cond' = FALSE
  /\ rc' = [rc EXCEPT ![c] = "TIMEOUT"]
  /\ pc' = [pc EXCEPT ![c] = "flag"]
  /\ UNCHANGED <<tag, call, answered>>

(* plc_tag_status_impl() *)
StatusImpl(t) == IF TagStatus(t) = "OK" /\ (t.rif \/ t.wif) THEN "PENDING" ELSE TagStatus(t)

(* The status check of the wait loop: an error aborts, a pending operation *)
(* is waited for again while there is time.                                *)
Check(c, b) ==
  LET ticked == TagTickler(tag, b)
      code   == StatusImpl(ticked)
  IN  /\ pc[c] = "check"
      /\ tag' = ticked
      /\ rc' = [rc EXCEPT ![c] = code]
      /\ \/ IsError(code) /\ pc' = [pc EXCEPT ![c] = "flag"]
         \/ code = "PENDING" /\ pc' = [pc EXCEPT ![c] = "wait"]
         \/ code = "PENDING" /\ Timeouts /\ pc' = [pc EXCEPT ![c] = "end"]
         \/ code = "OK" /\ pc' = [pc EXCEPT ![c] = "end"]
      /\ answered' = answered \cup Served(tag)
      /\ UNCHANGED <<cond, call>>

(* plc_tag_abort_impl(): the flag is set before the mutex is taken. *)
AbortFlag(c) ==
  /\ pc[c] = "flag"
  /\ tag' = [tag EXCEPT !.abortReq = TRUE]
  /\ pc' = [pc EXCEPT ![c] = "abort"]
  /\ UNCHANGED <<cond, call, rc, answered>>

(* The rest of plc_tag_abort_impl(), under the mutex.  It aborts only if   *)
(* nobody has cleared the flag since, and does not clear it itself.        *)
AbortRun(c) ==
  /\ pc[c] = "abort"
  /\ tag' = ClearFlight(IF tag.abortReq THEN AbortRequest(tag) ELSE tag)
  /\ pc' = [pc EXCEPT ![c] = "end"]
  /\ UNCHANGED <<cond, call, rc, answered>>

(* The end of a call that waited, or of plc_tag_abort(). *)
End(c) ==
  /\ pc[c] = "end"
  /\ tag' = CASE call[c] = "read"  -> [tag EXCEPT !.rif = FALSE, !.rdone = FALSE]
              [] call[c] = "write" -> [tag EXCEPT !.wif = FALSE, !.wdone = FALSE]
              [] OTHER -> tag
  /\ pc' = [pc EXCEPT ![c] = "return"]
  /\ UNCHANGED <<cond, call, rc, answered>>

(* The application has the result; the model forgets the call. *)
Leave(c) ==
  /\ pc[c] = "return"
  /\ pc' = [pc EXCEPT ![c] = "idle"]
  /\ call' = [call EXCEPT ![c] = "none"]
  /\ rc' = [rc EXCEPT ![c] = "OK"]
  /\ answered' = answered \ {c}
  /\ UNCHANGED <<tag, cond>>

Abort(c) ==
  /\ CanCall(c, "abort")
  /\ call' = [call EXCEPT ![c] = "abort"]
  /\ pc' = [pc EXCEPT ![c] = "flag"]
  /\ UNCHANGED <<tag, cond, rc, answered>>

(* plc_tag_status() *)
Status(c, b) ==
  /\ CanCall(c, "status")
  /\ tag' = TagTickler(tag, b)
  /\ answered' = answered \cup Served(tag)
  /\ UNCHANGED <<cond, pc, call, rc>>

(* plc_tag_set_*(): the data buffer exists once a reply has given its size. *)
Set(c) ==
  /\ CanCall(c, "set")
  /\ tag' = IF tag.typed THEN [tag EXCEPT !.data = "user", !.dirty = AutoWrite, !.status = "OK"]
                         ELSE [tag EXCEPT !.status = "NO_DATA"]
  /\ UNCHANGED <<cond, pc, call, rc, answered>>

-----------------------------------------------------------------------------
Client(c) ==
  \/ CreateWake(c) \/ CreateTimeout(c) \/ CreateCheck(c) \/ CreateEnd(c)
  \/ \E sync \in BOOLEAN, b \in Builds : StartRead(c, sync, b) \/ StartWrite(c, sync, b)
  \/ Wake(c) \/ WaitTimeout(c)
  \/ \E b \in Builds : Check(c, b) \/ Status(c, b)
  \/ AbortFlag(c) \/ AbortRun(c) \/ End(c) \/ Leave(c) \/ Abort(c) \/ Set(c)

Next ==
  \/ \E due \in BOOLEAN, b \in Builds : Tick(due, b)
  \/ \E answer \in Answers : Respond(answer)
  \/ \E c \in Clients : Client(c)

Spec == Init /\ [][Next]_vars

(* The tickler thread loops for ever and time passes, so an automatic      *)
(* operation falls due; the session answers or fails every request; a      *)
(* thread inside the library goes on.  Nobody has to call the library.     *)
Finish(c) ==
  \/ CreateWake(c) \/ CreateCheck(c) \/ CreateEnd(c) \/ Wake(c)
  \/ \E b \in Builds : Check(c, b)
  \/ AbortFlag(c) \/ AbortRun(c) \/ End(c) \/ Leave(c)

Fairness ==
  /\ WF_vars(\E b \in Builds : Tick(TRUE, b))
  /\ WF_vars(\E answer \in Answers : Respond(answer))
  /\ \A c \in Clients : WF_vars(Finish(c))

FairSpec == Spec /\ Fairness

-----------------------------------------------------------------------------
(* Types: the code's variables hold what their types allow. *)
TagRecord ==
  [status : Codes, rif : BOOLEAN, wif : BOOLEAN, rdone : BOOLEAN,
   wdone : BOOLEAN, abortReq : BOOLEAN, dirty : BOOLEAN, nextWrite : BOOLEAN,
   data : {"plc", "user"}, req : {"none", "sent"} \cup AllAnswers,
   rip : BOOLEAN, wip : BOOLEAN, firstRead : BOOLEAN, preRead : BOOLEAN,
   typed : BOOLEAN, offset : 0..Fragments]

TypeOK ==
  /\ tag \in TagRecord
  /\ cond \in BOOLEAN
  /\ pc \in [Clients -> {"idle", "gone", "create", "create_check", "create_end", "wait",
                         "check", "flag", "abort", "end", "return"}]
  /\ call \in [Clients -> {"none", "read", "write", "abort"}]
  /\ rc \in [Clients -> Codes]
  /\ answered \subseteq Clients

(* A tag has a request exactly while one of read_in_progress and           *)
(* write_in_progress is set, and never both: no request is overwritten or  *)
(* forgotten, and no reply is taken for the other kind of operation, in    *)
(* whatever order aborts, timeouts, retries and answers come.              *)
RequestFits == /\ (tag.req # "none") <=> (tag.rip \/ tag.wip)
               /\ ~(tag.rip /\ tag.wip)

(* Between operations the fragment offset is back at zero, so the next     *)
(* read or write moves the whole tag and not its tail.                     *)
OffsetReset == tag.req = "none" => tag.offset = 0

(* The inductive invariant behind these two: an answer in part leaves data *)
(* to ask for, a write has the tag's type, and the offset is reset if a    *)
(* request buffer can always be had (check_write_status_connected() keeps  *)
(* it when the request for the next fragment cannot be built).             *)
Sound == /\ tag.req = "part" => tag.rip /\ tag.offset + 1 < Fragments
         /\ tag.wip => tag.typed
IInv  == TypeOK /\ RequestFits /\ Sound /\ (FALSE \notin Builds => OffsetReset)

(* A thread returns from plc_tag_read() with PLCTAG_STATUS_OK only if the  *)
(* last fragment of a read arrived during the call.                        *)
OkMeansRead ==
  \A c \in Clients : (pc[c] \in {"end", "return"} /\ call[c] = "read" /\ rc[c] = "OK")
                       => c \in answered

(* plc_tag_write() returns PLCTAG_STATUS_OK only if the PLC took the last  *)
(* fragment of a write during the call.                                    *)
OkMeansWritten ==
  \A c \in Clients : (pc[c] \in {"end", "return"} /\ call[c] = "write" /\ rc[c] = "OK")
                       => c \in answered

(* Data the application has set and the automatic write has not sent yet   *)
(* is never replaced by data from the PLC.                                 *)
DirtyKept == tag.dirty => tag.data = "user"

(* A thread that waits in plc_tag_read() or plc_tag_write() is woken and   *)
(* returns, without help from its timeout, if nothing is aborted.  (After  *)
(* an abort it may wait for a read that the abort's stale flag has ended.) *)
Undisturbed == [](\A c \in Clients : pc[c] \notin {"flag", "gone"})
WaitEnds == Undisturbed => \A c \in Clients : pc[c] = "wait" ~> pc[c] = "idle"

(* The other two ways in which an in-flight flag stays set with nothing in *)
(* progress: an automatic write whose request cannot be built (lib.c:319), *)
(* and a reply that check_request_status() rejects (eip_cip.c:212).        *)
NothingRejected == Builds = {TRUE} /\ "dead" \notin Answers

(* Dirty data is sent: an automatic write starts for it, if nothing is     *)
(* aborted, no wait runs out, every request can be built and every reply   *)
(* is accepted.                                                            *)
DirtySent == Undisturbed /\ NothingRejected => tag.dirty ~> ~tag.dirty

(* An operation ends, under the same conditions: a tag that is polled with *)
(* plc_tag_status() does not report it as pending, and refuse every other  *)
(* call as busy, for ever.  It is false without each of the conditions: an *)
(* abort's stale flag (lib.c:671) leaves a read in flight too.             *)
OperationEnds == Undisturbed /\ NothingRejected => /\ tag.rif ~> ~tag.rif
                                                   /\ tag.wif ~> ~tag.wif

=============================================================================
