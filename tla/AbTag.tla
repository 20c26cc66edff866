------------------------------- MODULE AbTag --------------------------------
(***************************************************************************)
(* What every Allen-Bradley tag does with its request, whatever its kind:  *)
(* the functions of ab_common.c that the vtables share.  A tag is a record *)
(* with at least                                                           *)
(*   req             its request: "none", "unsent" (made, never queued),   *)
(*                   "sent", "dead" (a reply that is not accepted), or     *)
(*                   how it was answered                                   *)
(*   rip, wip        read_in_progress, write_in_progress                   *)
(*   rif, wif        read_in_flight, write_in_flight                       *)
(*   rdone, wdone    read_complete, write_complete                         *)
(*   abortReq        abort_requested                                       *)
(*   offset, status  as in the code                                        *)
(***************************************************************************)

IsError(code) == code \notin {"OK", "PENDING"}
Result(t, code) == [tag |-> t, rc |-> code]

(* Mutant of AbortRequestOnly: only the read is taken back. *)
AbortRequestRead(t) == [t EXCEPT !.req = "none", !.rip = FALSE]

AbortRequestOnly(t) == [t EXCEPT !.req = "none", !.rip = FALSE, !.wip = FALSE]

(* Mutant of AbortRequest: the fragment offset survives. *)
AbortRequestKeepsOffset(t) == AbortRequestOnly(t)

AbortRequest(t) == [AbortRequestOnly(t) EXCEPT !.offset = 0]

(* ab_tag_abort(): a tag without a request is left alone. *)
TagAbort(t) == IF t.req = "none" THEN Result(t, "OK")
               ELSE Result([AbortRequest(t) EXCEPT !.status = "ABORT"], "ABORT")

(* ab_tag_status() *)
TagStatus(t) == IF t.rip \/ t.wip THEN "PENDING" ELSE t.status

(* check_request_status(): whatever the outcome, it becomes tag->status. *)
CheckRequest(t) ==
  LET checked ==
        CASE t.abortReq      -> Result([AbortRequest(t) EXCEPT !.abortReq = FALSE], "ABORT")
          [] ~t.abortReq /\ t.req = "none" ->
               Result(IF t.rip \/ t.wip THEN AbortRequest(t) ELSE t, "OK")
          [] ~t.abortReq /\ t.req \in {"sent", "unsent"} -> Result(t, "PENDING")
          [] ~t.abortReq /\ t.req = "dead" -> Result(TagAbort(t).tag, "DEAD")
          [] OTHER           -> Result(t, "OK")
  IN  Result([checked.tag EXCEPT !.status = checked.rc], checked.rc)

(* What plc_tag_abort_impl() clears besides the protocol's own abort. *)
ClearFlight(t) == [t EXCEPT !.rif = FALSE, !.wif = FALSE, !.rdone = FALSE, !.wdone = FALSE]

=============================================================================
