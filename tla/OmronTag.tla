------------------------------ MODULE OmronTag ------------------------------
(***************************************************************************)
(* The operations of Omron tags, plain and raw: omron_common.c,            *)
(* omron_standard_tag.c and omron_raw_tag.c.  They were copied from those  *)
(* of Allen-Bradley and changed: an abort sets the status, a write is one  *)
(* request or none, and a partial reply starts the read over.  Omron tags  *)
(* always use connected messages.  The record is CipTag's.                 *)
(***************************************************************************)
EXTENDS CipTag

OmronAbortRequestOnly(t) == [t EXCEPT !.req = "none", !.rip = FALSE, !.wip = FALSE]
OmronAbortRequest(t) == OmronAbortRequestOnly([t EXCEPT !.offset = 0])

(* omron_tag_abort() is what the vtable aborts with. *)
OmronAbort(t) == [OmronAbortRequest(t) EXCEPT !.status = "ABORT"]

(* omron_check_request_status().  Unlike check_request_status() it looks   *)
(* at the buffer of a request that is not answered, and finds its own      *)
(* request there, which is as good as no answer.                           *)
OmronCheckRequest(t) ==
  LET checked ==
        CASE t.abortReq -> Result([OmronAbort(t) EXCEPT !.abortReq = FALSE], "ABORT")
          [] ~t.abortReq /\ t.req = "none" ->
               Result(IF t.rip \/ t.wip THEN OmronAbortRequest(t) ELSE t, "OK")
          [] ~t.abortReq /\ t.req = "sent" -> Result(t, "PENDING")
          [] ~t.abortReq /\ t.req = "dead" -> Result(OmronAbort(t), "DEAD")
          [] OTHER -> Result(t, "OK")
  IN  Result([checked.tag EXCEPT !.status = checked.rc], checked.rc)

(* A request that the connection does not take is gone, and nothing else.  *)
OmronBuilt(t, f, what) ==
  CASE f = "nomem" -> Result(t, "NO_MEM")
    [] f = "add"   -> Result([t EXCEPT !.req = "none"], "NO_MEM")
    [] OTHER       -> Result(Queued(t, what), "OK")

(* build_read_request_connected(): the byte offset is not used. *)
OmronBuildRead(t, f) == OmronBuilt(t, f, <<"from", 0>>)

OmronBuildWriteBit(t, f) ==
  IF WriteRoom(f) # "OK" THEN Result(t, WriteRoom(f))
  ELSE Built([t EXCEPT !.offset = t.size], f, <<"bits", <<t.data[1], 1>>, <<t.data[1], 0>>>>)

(* build_write_request_connected(): all of the tag, or PLCTAG_ERR_TOO_LARGE. *)
OmronBuildWrite(t, f) ==
  CASE t.kind = "omron_bit" -> OmronBuildWriteBit(t, f)
    [] t.kind # "omron_bit" /\ f \in {"nomem", "large"} -> Result(t, Code(f))
    [] t.kind # "omron_bit" /\ f \notin {"nomem", "large"} /\ ~t.typed -> Result(t, "UNSUPPORTED")
    [] OTHER -> OmronBuilt([t EXCEPT !.offset = t.size], f, Items(t, (t.offset + 1)..t.size))

OmronReadStart(t, f) ==
  LET built == OmronBuildRead([t EXCEPT !.rip = TRUE], f)
  IN  CASE t.rip \/ t.wip -> Result(t, "BUSY")
        [] ~(t.rip \/ t.wip) /\ built.rc = "OK" -> Result(built.tag, "PENDING")
        [] OTHER -> Result([built.tag EXCEPT !.rip = FALSE], built.rc)

OmronWriteStart(t, f) ==
  LET built == OmronBuildWrite([t EXCEPT !.wip = TRUE], f)
  IN  CASE t.rip \/ t.wip -> Result(t, "BUSY")
        [] ~(t.rip \/ t.wip) /\ t.firstRead -> OmronReadStart([t EXCEPT !.preRead = TRUE], f)
        [] ~(t.rip \/ t.wip \/ t.firstRead) /\ built.rc = "OK" -> Result(built.tag, "PENDING")
        [] OTHER -> Result([built.tag EXCEPT !.wip = FALSE], built.rc)

(* check_read_status_connected(): the abort that cleans up also resets the *)
(* offset, so that after a partial reply the whole tag is asked for again. *)
OmronCheckRead(t, f) ==
  LET got  == OmronAbort(Taken(t))
      next == CASE t.req \in {"odd", "refused"} -> Result(OmronAbort(t), Refusal(t))
                [] t.req \notin {"odd", "refused"} /\ t.preRead ->
                     OmronWriteStart([got EXCEPT !.preRead = FALSE], f)
                [] t.req = "part" /\ ~t.preRead -> OmronReadStart(got, f)
                [] OTHER -> Result(got, "OK")
  IN  IF IsError(next.rc) THEN Result(OmronAbort(next.tag), next.rc) ELSE next

OmronCheckWrite(t, f) ==
  LET done == OmronAbortRequestOnly(t)
  IN  CASE t.req \in {"odd", "refused"} -> Result([done EXCEPT !.offset = 0], Refusal(t))
        [] t.req \notin {"odd", "refused"} /\ t.offset < t.size -> OmronWriteStart(done, f)
        [] OTHER -> Result([done EXCEPT !.offset = 0], "OK")

OmronTickler(t, f) ==
  LET read  == OmronCheckRead(t, f)
      write == OmronCheckWrite(t, f)
  IN  CASE t.rip -> [read.tag EXCEPT !.status = read.rc, !.rdone = @ \/ ~read.tag.rip,
                                     !.firstRead = @ /\ read.tag.rip]
        [] ~t.rip /\ t.wip -> [write.tag EXCEPT !.status = write.rc, !.wdone = @ \/ ~write.tag.wip]
        [] OTHER -> t

-----------------------------------------------------------------------------
(* Raw tags *)

OmronRawBuildWrite(t, f) ==
  CASE f = "nomem" -> Result(t, "NO_MEM")
    [] f = "large" -> Result(t, "TOO_LARGE")
    [] OTHER       -> OmronBuilt([t EXCEPT !.size = 0], f, <<"raw">>)

OmronRawWriteStart(t, f) ==
  LET built == OmronRawBuildWrite([t EXCEPT !.wip = TRUE], f)
  IN  CASE t.rip -> Result(t, "BAD_STATUS")
        [] ~t.rip /\ t.wip -> Result(t, "BUSY")
        [] ~t.rip /\ ~t.wip /\ built.rc = "OK" -> Result(built.tag, "PENDING")
        [] OTHER -> Result([built.tag EXCEPT !.wip = FALSE], built.rc)

OmronRawCheckWrite(t, f) ==
  IF f = "buffer" THEN Result(OmronAbort(t), "NO_MEM")
  ELSE Result(OmronAbort([t EXCEPT !.data = t.reply, !.size = Len(t.reply)]), "OK")

OmronRawTickler(t, f) ==
  LET write == OmronRawCheckWrite(t, f)
  IN  CASE t.rip -> [t EXCEPT !.rip = FALSE, !.rif = FALSE]
        [] ~t.rip /\ t.wip -> [write.tag EXCEPT !.status = write.rc, !.wdone = @ \/ ~write.tag.wip]
        [] OTHER -> t

=============================================================================
