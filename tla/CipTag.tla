------------------------------- MODULE CipTag -------------------------------
(***************************************************************************)
(* The operations of plain CIP tags (eip_cip.c) with their data: TagOps    *)
(* has the same functions as seen by several threads, without data.  The   *)
(* tag is SpecialTag's record with                                         *)
(*   connected    use_connected_msg                                        *)
(*   firstRead    first_read: it was never read                            *)
(*   preRead      pre_write_read: the read is for the type, before a write *)
(*   typed        a reply has brought the type                             *)
(* A request or a reply carries one item of data, but for the masks of a   *)
(* bit.  With read after write and start after start the functions call    *)
(* each other.                                                             *)
(***************************************************************************)
EXTENDS SpecialTag

(* What goes wrong while a request is built ends the operation.  *)
Built(t, f, what) ==
  CASE f = "nomem" -> Result(t, "NO_MEM")
    [] f \in {"large", "add"} -> Result(AbortRequest(t), Code(f))
    [] OTHER -> Result(Queued(t, what), "OK")

(* build_read_request_*(): a fragment, from the offset on *)
BuildReadConnected(t, f)   == Built(t, f, <<"from", t.offset>>)
BuildReadUnconnected(t, f) == Built(t, f, <<"from", t.offset>>)

(* Items of a write: those in `of` are replaced, the others kept. *)
Items(t, of) == <<"bits", [b \in 1..Len(t.data) |-> IF b \in of THEN 0 ELSE 1],
                          [b \in 1..Len(t.data) |-> IF b \in of THEN t.data[b] ELSE 0]>>

(* calculate_write_data_per_packet(): PLCTAG_ERR_TOO_LARGE when not a      *)
(* single element fits.  It divides by the element's size.                 *)
WriteRoom(f) == IF f = "large" THEN "TOO_LARGE" ELSE "OK"

(* build_write_bit_request_*(): the OR mask has the tag's bit if it is     *)
(* set, the AND mask all others, and the tag's bit too if it is set.       *)
BuildWriteBitConnected(t, f) ==
  IF WriteRoom(f) # "OK" THEN Result(t, WriteRoom(f))
  ELSE Built([t EXCEPT !.offset = t.size], f, <<"bits", <<t.data[1], 1>>, <<t.data[1], 0>>>>)
BuildWriteBitUnconnected(t, f) == BuildWriteBitConnected(t, f)

(* build_write_request_*(): one more fragment; the offset moves past it. *)
BuildWriteConnected(t, f) ==
  CASE t.kind = "cip_bit" -> BuildWriteBitConnected(t, f)
    [] t.kind # "cip_bit" /\ f \in {"nomem", "large"} -> Result(t, Code(f))
    [] t.kind # "cip_bit" /\ f \notin {"nomem", "large"} /\ ~t.typed -> Result(t, "UNSUPPORTED")
    [] OTHER -> Built([t EXCEPT !.offset = @ + 1], f, Items(t, {t.offset + 1}))
BuildWriteUnconnected(t, f) ==
  IF t.kind = "cip_bit" THEN BuildWriteBitUnconnected(t, f) ELSE BuildWriteConnected(t, f)

CipReadStart(t, f) ==
  LET begun == [t EXCEPT !.rip = TRUE]
      built == IF t.connected THEN BuildReadConnected(begun, f) ELSE BuildReadUnconnected(begun, f)
  IN  CASE t.rip \/ t.wip -> Result(t, "BUSY")
        [] ~(t.rip \/ t.wip) /\ built.rc = "OK" -> Result(built.tag, "PENDING")
        [] OTHER -> Result([built.tag EXCEPT !.rip = FALSE], built.rc)

CipWriteStart(t, f) ==
  LET begun == [t EXCEPT !.wip = TRUE]
      built == IF t.connected THEN BuildWriteConnected(begun, f) ELSE BuildWriteUnconnected(begun, f)
  IN  CASE t.rip \/ t.wip -> Result(t, "BUSY")
        [] ~(t.rip \/ t.wip) /\ t.firstRead -> CipReadStart([t EXCEPT !.preRead = TRUE], f)
        [] ~(t.rip \/ t.wip \/ t.firstRead) /\ built.rc = "OK" -> Result(built.tag, "PENDING")
        [] OTHER -> Result([built.tag EXCEPT !.wip = FALSE], built.rc)

(* The buffer grows for the reply.  The data of a pre-read are not taken,  *)
(* and what the buffer has grown by is not initialised: 0 stands for it.   *)
Grown(t) == LET n == t.offset + Len(t.reply) - t.size
            IN  IF n <= 0 THEN t ELSE [t EXCEPT !.size = @ + n, !.data = @ \o [i \in 1..n |-> 0]]
Taken(t) == LET g == Grown(t)
            IN  [g EXCEPT !.typed = TRUE, !.offset = @ + Len(t.reply),
                          !.data = IF t.preRead THEN @ ELSE Copied(g, t.offset)]

(* check_read_status_connected() *)
CipCheckReadConnected(t, f) ==
  LET got  == AbortRequestOnly(Taken(t))
      next == CASE t.req \in {"odd", "refused"} -> Result(AbortRequestOnly(t), Refusal(t))
                [] t.req \notin {"odd", "refused"} /\ t.preRead ->
                     CipWriteStart([got EXCEPT !.preRead = FALSE, !.offset = 0], f)
                [] t.req = "part" /\ ~t.preRead -> CipReadStart(got, f)
                [] OTHER -> Result([got EXCEPT !.offset = 0], "OK")
  IN  IF next.rc = "PENDING" THEN next ELSE Result(AbortRequest(next.tag), next.rc)
CipCheckReadUnconnected(t, f) == CipCheckReadConnected(t, f)

(* check_write_status_*().  The unconnected form expects the EIP command   *)
(* of a connected answer, so every answer is bad data to it.               *)
CipCheckWriteConnected(t, f) ==
  LET done == AbortRequestOnly(t)
  IN  CASE t.req \in {"odd", "refused"} -> Result([done EXCEPT !.offset = 0], Refusal(t))
        [] t.req \notin {"odd", "refused"} /\ t.offset < t.size -> CipWriteStart(done, f)
        [] OTHER -> Result([done EXCEPT !.offset = 0], "OK")
CipCheckWriteUnconnected(t) == Result(AbortRequest(t), "BAD_DATA")

(* tag_tickler(): a read that has ended, well or badly, was the first. *)
CipTickler(t, f) ==
  LET read  == IF t.connected THEN CipCheckReadConnected(t, f) ELSE CipCheckReadUnconnected(t, f)
      write == IF t.connected THEN CipCheckWriteConnected(t, f) ELSE CipCheckWriteUnconnected(t)
  IN  CASE t.rip -> [read.tag EXCEPT !.status = read.rc, !.rdone = @ \/ ~read.tag.rip,
                                     !.firstRead = @ /\ read.tag.rip]
        [] ~t.rip /\ t.wip -> [write.tag EXCEPT !.status = write.rc, !.wdone = @ \/ ~write.tag.wip]
        [] OTHER -> t

=============================================================================
