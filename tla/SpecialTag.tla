----------------------------- MODULE SpecialTag -----------------------------
(***************************************************************************)
(* The operations of raw, tag listing and UDT tags (eip_cip_special.c).  A *)
(* tag is AbTag's record with                                              *)
(*   asked, reply   what its request asks for, and what came back          *)
(*   data, size     the data buffer, a sequence of items, and tag->size    *)
(*   nextId         listing: the instance ID to go on from                 *)
(*   fields         UDT: its fields are read, no longer its size           *)
(*   connected      use_connected_msg: its requests go over a connection   *)
(* f is what goes wrong when a request is built or its answer is taken.    *)
(***************************************************************************)
EXTENDS AbTag, Integers, Sequences, SequencesExt

CONSTANT IdRange   \* how many values next_id has

Code(f) == IF f \in {"capacity", "large"} THEN "TOO_LARGE" ELSE "NO_MEM"

(* A request for `what` is queued and saved in tag->req. *)
Queued(t, what) == [t EXCEPT !.req = "sent", !.asked = what]

(* t's data with the reply copied over what begins at position at + 1. *)
Copied(t, at) ==
  SubSeq(t.data, 1, at) \o t.reply \o SubSeq(t.data, at + Len(t.reply) + 1, Len(t.data))

-----------------------------------------------------------------------------
(* Raw tags: only writes, and the answer replaces the data *)

(* raw_tag_build_write_request_connected/unconnected(): a request that is  *)
(* too large for its buffer stays in tag->req; before one is queued the    *)
(* tag's size is reset, so that the answer overwrites the data.            *)
RawBuildWriteConnected(t, f) ==
  CASE f = "nomem"    -> Result(t, "NO_MEM")
    [] f = "capacity" -> Result([t EXCEPT !.req = "unsent"], "TOO_LARGE")
    [] f = "large"    -> Result(AbortRequest(t), "TOO_LARGE")
    [] f = "add"      -> Result(AbortRequest([t EXCEPT !.size = 0]), "NO_MEM")
    [] OTHER          -> Result([Queued(t, <<"raw">>) EXCEPT !.size = 0], "OK")

RawBuildWriteUnconnected(t, f) == RawBuildWriteConnected(t, f)

RawWriteStart(t, f) ==
  LET begun == [t EXCEPT !.wip = TRUE]
      built == IF t.connected THEN RawBuildWriteConnected(begun, f)
                              ELSE RawBuildWriteUnconnected(begun, f)
  IN  CASE t.rip -> Result(t, "BAD_STATUS")
        [] ~t.rip /\ t.wip -> Result(t, "BUSY")
        [] ~t.rip /\ ~t.wip /\ built.rc = "OK" -> Result(built.tag, "PENDING")
        [] OTHER -> Result([built.tag EXCEPT !.wip = FALSE], built.rc)

(* raw_tag_check_write_status_*(): whatever the PLC says is the data. *)
RawCheckWriteConnected(t, f) ==
  IF f = "buffer" THEN Result(AbortRequest(t), "NO_MEM")
  ELSE Result(AbortRequest([t EXCEPT !.data = t.reply, !.size = Len(t.reply)]), "OK")

RawCheckWriteUnconnected(t, f) == RawCheckWriteConnected(t, f)

RawTickler(t, f) ==
  LET write == IF t.connected THEN RawCheckWriteConnected(t, f)
                              ELSE RawCheckWriteUnconnected(t, f)
  IN  CASE t.rip -> [AbortRequest(t) EXCEPT !.rdone = TRUE]
        [] ~t.rip /\ t.wip ->
             [write.tag EXCEPT !.status = write.rc, !.wdone = @ \/ ~write.tag.wip]
        [] OTHER -> t

-----------------------------------------------------------------------------
(* Tag listings: only reads, in as many requests as the PLC wants *)

(* listing_tag_build_read_request_connected(): from next_id on.  Where it  *)
(* gives up it aborts tag->req, which is not yet the request it has made.  *)
ListingBuildRead(t, f) ==
  CASE f = "nomem"                      -> Result(t, "NO_MEM")
    [] f \in {"capacity", "large", "add"} -> Result(AbortRequest(t), Code(f))
    [] OTHER                            -> Result([Queued(t, <<"from", t.nextId>>) EXCEPT !.rip = TRUE], "OK")

ListingReadStart(t, f) ==
  LET built == ListingBuildRead([t EXCEPT !.rip = TRUE], f)
  IN  CASE t.wip -> Result(t, "BAD_STATUS")
        [] ~t.wip /\ t.rip -> Result(t, "BUSY")
        [] ~t.wip /\ ~t.rip /\ built.rc = "OK" -> Result(built.tag, "PENDING")
        [] OTHER -> Result([built.tag EXCEPT !.rip = FALSE], built.rc)

(* Mutant of Listed: the last entry is asked for again. *)
ListedAgain(t) ==
  [t EXCEPT !.size = IF t.offset + Len(t.reply) > @ THEN t.offset + Len(t.reply) ELSE @,
            !.data = Copied(t, t.offset),
            !.offset = @ + Len(t.reply),
            !.nextId = IF t.reply = <<>> THEN @ ELSE Last(t.reply)]

(* The entries of a reply are appended, and the next ID to ask for is the  *)
(* one after the last of them.  The size only grows.                       *)
Listed(t) ==
  [t EXCEPT !.size = IF t.offset + Len(t.reply) > @ THEN t.offset + Len(t.reply) ELSE @,
            !.data = Copied(t, t.offset),
            !.offset = @ + Len(t.reply),
            !.nextId = IF t.reply = <<>> THEN @ ELSE (Last(t.reply) + 1) % IdRange]

(* listing_tag_check_read_status_connected() *)
ListingCheckRead(t, f) ==
  LET grows == t.offset + Len(t.reply) > t.size
      got   == CASE t.req = "odd"     -> Result(t, "BAD_DATA")
                 [] t.req = "refused" -> Result(t, "REMOTE")
                 [] t.req \in {"good", "part"} /\ f = "buffer" /\ grows ->
                      Result([t EXCEPT !.size = t.offset + Len(t.reply)], "NO_MEM")
                 [] OTHER -> Result(Listed(t), "OK")
      done  == AbortRequestOnly(got.tag)
      next  == CASE got.rc = "OK" /\ t.req = "part" -> ListingBuildRead(done, f)
                 [] got.rc = "OK" /\ t.req = "good" ->
                      Result([done EXCEPT !.offset = 0, !.nextId = 0, !.rip = FALSE], "OK")
                 [] OTHER -> Result(done, got.rc)
  IN  IF IsError(next.rc) THEN Result(AbortRequest([next.tag EXCEPT !.nextId = 0]), next.rc)
                          ELSE next

ListingTickler(t, f) ==
  LET read == ListingCheckRead(t, f)
  IN  CASE t.wip -> [AbortRequest(t) EXCEPT !.wdone = TRUE]
        [] ~t.wip /\ t.rip ->
             [read.tag EXCEPT !.status = read.rc, !.rdone = @ \/ ~read.tag.rip]
        [] OTHER -> t

-----------------------------------------------------------------------------
(* UDT tags: only reads; the description's size first, then the fields *)

UdtBuildMeta(t, f) ==
  CASE f = "nomem"                      -> Result(t, "NO_MEM")
    [] f \in {"capacity", "large", "add"} -> Result(AbortRequest(t), Code(f))
    [] OTHER                            -> Result([Queued(t, <<"meta">>) EXCEPT !.rip = TRUE], "OK")

UdtBuildFields(t, f) ==
  IF f \in {"none", "buffer"} THEN Result([Queued(t, <<"from", t.offset>>) EXCEPT !.rip = TRUE], "OK")
                              ELSE Result(AbortRequest(t), Code(f))

UdtReadStart(t, f) ==
  LET built == UdtBuildMeta([t EXCEPT !.rip = TRUE, !.fields = FALSE, !.offset = 0], f)
  IN  CASE t.wip -> Result(t, "BAD_STATUS")
        [] ~t.wip /\ t.rip -> Result(t, "BUSY")
        [] ~t.wip /\ ~t.rip /\ built.rc = "OK" -> Result(built.tag, "PENDING")
        [] OTHER -> Result([built.tag EXCEPT !.rip = FALSE], built.rc)

(* What both checks do with a result: an OK from a builder is PENDING in   *)
(* the second phase, and an error starts the next read from the beginning. *)
UdtEnd(r) == IF IsError(r.rc) THEN Result(AbortRequest([r.tag EXCEPT !.fields = FALSE]), r.rc)
                              ELSE r
Pending(r) == IF r.rc = "OK" THEN Result(r.tag, "PENDING") ELSE r
Refusal(t) == IF t.req = "odd" THEN "BAD_DATA" ELSE "REMOTE"

(* udt_tag_check_read_metadata_status_connected(): the header replaces the *)
(* data, unless the reply is partial: then it is asked for again.          *)
UdtCheckMeta(t, f) ==
  LET done == AbortRequest([t EXCEPT !.data = t.reply, !.size = 1])
  IN  UdtEnd(CASE t.req \in {"odd", "refused"} -> Result(AbortRequest(t), Refusal(t))
               [] t.req = "part" -> UdtBuildMeta(AbortRequest(t), f)
               [] t.req = "good" /\ f = "buffer" -> Result(AbortRequest(t), "NO_MEM")
               [] OTHER -> Pending(UdtBuildFields([done EXCEPT !.fields = TRUE], f)))

(* udt_tag_check_read_fields_status_connected() *)
UdtCheckFields(t, f) ==
  LET got == [t EXCEPT !.data = Copied(t, t.offset + 1), !.size = @ + Len(t.reply),
                       !.offset = @ + Len(t.reply)]
  IN  UdtEnd(CASE t.req \in {"odd", "refused"} -> Result(AbortRequestOnly(t), Refusal(t))
               [] t.req \in {"good", "part"} /\ f = "buffer" /\ t.reply # <<>> ->
                    Result(AbortRequestOnly(t), "NO_MEM")
               [] t.req = "part" /\ (f = "buffer" => t.reply = <<>>) ->
                    Pending(UdtBuildFields(AbortRequestOnly(got), f))
               [] OTHER -> Result([AbortRequestOnly(got) EXCEPT !.fields = FALSE, !.offset = 0], "OK"))

UdtTickler(t, f) ==
  LET read == IF t.fields THEN UdtCheckFields(t, f) ELSE UdtCheckMeta(t, f)
  IN  CASE t.wip -> [AbortRequest(t) EXCEPT !.wdone = TRUE]
        [] ~t.wip /\ t.rip ->
             [read.tag EXCEPT !.status = read.rc, !.rdone = @ \/ ~read.tag.rip]
        [] OTHER -> t

=============================================================================
