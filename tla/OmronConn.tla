----------------------------- MODULE OmronConn ------------------------------
(***************************************************************************)
(* The connection to an Omron PLC (omron/conn.c).  It began as a copy of   *)
(* ab/session.c, so its steps are those of AbSession, named here one by    *)
(* one, except where the copy has changed: what goes into one packet (the  *)
(* answers must fit in one packet too, and a tag's first read is sent      *)
(* alone), how it waits before a retry, and that the idle time is compared *)
(* with the time after the requests were processed.                        *)
(* EitherSpec has one session of either kind, for the properties of both.  *)
(***************************************************************************)
EXTENDS AbSession

CONSTANTS
  ReplySize,    \* what a request's answer takes in a packed reply
  FirstReads    \* requests of tags that were never read

ReplyAssumption == ReplySize \in [Requests -> Nat] /\ FirstReads \subseteq Requests

VARIABLE kind   \* "ab" or "omron"
eitherVars == <<vars, kind>>

-----------------------------------------------------------------------------
(* The tags' side: conn_create_request() and conn_add_request(), and       *)
(* conn_destroy() before and after it joins the handler thread.            *)

ConnSubmit(r) == Submit(r)
ConnDestroy == Destroy
ConnJoin == Join

-----------------------------------------------------------------------------
(* The connection *)

ConnPurge == Purge
ConnOpenSocket == OpenSocket
ConnRegister == Register

ConnSendForwardOpen == SendForwardOpen

(* receive_forward_open_response() *)
ConnForwardOpened ==
  ForwardOpened \/ ForwardOpenTooLarge \/ ForwardOpenUnsupported \/ ForwardOpenRefused
ConnForwardOpenSilent == ForwardOpenSilent \/ StopWaiting

ConnIdle == Idle

ConnDisconnect == Disconnect
ConnCloseSocket == CloseSocket

(* The time to wait before a retry is the same each time. *)
ConnRetry == Retry
ConnWaitReconnect == WaitReconnect
ConnExit == Exit

-----------------------------------------------------------------------------
(* process_requests() *)

(* No request can be read in fragments, so the answers of a packet must    *)
(* fit, and an answer of unknown length is not packed with others.         *)
ConnFits(b) ==
  /\ Fits(b)
  /\ Len(b) > 1 =>
       /\ Range(b) \cap FirstReads = {}
       /\ FoldFunction(LAMBDA r, sum : ReplySize[r] + sum, 0, b) <= payload

ConnTake ==
  LET q    == Purged
      lens == {n \in 1..Len(q) : ConnFits(SubSeq(q, 1, n))}
  IN  /\ state = "take"
      /\ refs' = PurgedRefs
      /\ \/ lens = {} /\ IdleEnd(TRUE) /\ queue' = q /\ UNCHANGED bundle
         \/ \E n \in lens :
              /\ \A k \in lens : k <= n
              /\ bundle' = SubSeq(q, 1, n)
              /\ queue' = SubSeq(q, n + 1, Len(q))
              /\ state' = "send"
              /\ UNCHANGED auto
      /\ UNCHANGED <<expired, oldOnly, guess, payload, wire, tags, got, stop, faults>>

(* pack_requests(), prepare_request() and send_eip_request() *)
ConnSend == Send

ConnReceive == Receive
ConnUnpack == Unpack
ConnUnpackFail == UnpackFail

(* As in AbSession, without the mutex. *)
ConnPushBack == PushBack \/ PushedBack
ConnInserted == Inserted

ConnHandler ==
  \/ ConnOpenSocket \/ ConnRegister \/ ConnSendForwardOpen
  \/ ConnForwardOpened \/ ConnForwardOpenSilent
  \/ ConnIdle \/ ConnTake \/ ConnSend \/ ConnReceive \/ ConnUnpack \/ ConnUnpackFail
  \/ ConnPushBack \/ ConnInserted
  \/ ConnDisconnect \/ ConnCloseSocket \/ ConnRetry \/ ConnWaitReconnect \/ ConnExit

ConnNext ==
  \/ ConnHandler
  \/ \E r \in Requests : ConnSubmit(r) \/ Release(r)
  \/ ConnDestroy \/ LibraryStop \/ ConnJoin

-----------------------------------------------------------------------------
EitherHandler == ((kind = "ab" /\ Handler) \/ (kind = "omron" /\ ConnHandler)) /\ UNCHANGED kind
EitherNext    == ((kind = "ab" /\ Next) \/ (kind = "omron" /\ ConnNext)) /\ UNCHANGED kind

EitherInit == Init /\ kind \in {"ab", "omron"}

EitherSpec ==
  /\ EitherInit
  /\ [][EitherNext]_eitherVars
  /\ WF_eitherVars(EitherHandler) /\ WF_eitherVars(Join /\ UNCHANGED kind)

=============================================================================
