------------------------------ MODULE PcccTag ------------------------------
(***************************************************************************)
(* The operations of PCCC tags: those of PLC-5, SLC and MicroLogix, direct *)
(* and over a DH+ bridge (pccc.c), and of ControlLogix (eip_lgx_pccc.c).   *)
(* The tag is SpecialTag's record; its data are the bits of a word.        *)
(***************************************************************************)
EXTENDS SpecialTag

-----------------------------------------------------------------------------
(* PCCC tags: one request moves the whole tag *)

(* The common end of the functions that start an operation.  Whatever went *)
(* wrong, an operation that was under way included, is taken back.         *)
PcccStarted(t, what, rc) ==
  CASE rc # "OK" -> Result(AbortRequest(t), rc)
    [] rc = "OK" /\ t.req # "none" -> Result(t, "BAD_DATA")
    [] OTHER -> Result(Queued(t, what), "PENDING")

PcccBuilt(t, f, refused) ==
  CASE t.rip \/ t.wip -> "BUSY"
    [] ~(t.rip \/ t.wip) /\ f \in refused -> Code(f)
    [] OTHER -> "OK"

PcccReadStart(t, f) ==
  LET rc == PcccBuilt(t, f, {"nomem", "capacity", "large", "add"})
  IN  PcccStarted([t EXCEPT !.rip = @ \/ rc = "OK"], <<"word">>, rc)

(* A write says which bits of the word are kept and which are set. *)
PcccWritten(t, rc, keep, set) ==
  LET started == PcccStarted([t EXCEPT !.wip = @ \/ rc = "OK"], <<"bits", keep, set>>, rc)
  IN  IF IsError(rc) THEN Result([started.tag EXCEPT !.wdone = TRUE], rc) ELSE started

(* Mutant of Plc5WriteBitStart: the reset mask takes every bit. *)
Plc5WriteBitStartWide(t, f) ==
  PcccWritten(t, PcccBuilt(t, f, {"nomem", "large", "add"}), <<0, 0>>, <<t.data[1], 0>>)

(* The AND mask keeps all bits but the tag's, and that too if it is set;   *)
(* the OR mask has the tag's bit if it is set.                             *)
Plc5WriteBitStart(t, f) ==
  PcccWritten(t, PcccBuilt(t, f, {"nomem", "large", "add"}), <<t.data[1], 1>>, <<t.data[1], 0>>)

(* The PLC keeps the bits that are not in the mask, and takes the others   *)
(* from the data.  The mask is 16 bits.                                    *)
SlcWriteBitStart(t, f) ==
  LET rc == IF ~(t.rip \/ t.wip) /\ t.size # 2 THEN "UNSUPPORTED"
            ELSE PcccBuilt(t, f, {"nomem", "large", "add"})
  IN  PcccWritten(t, rc, <<0, 1>>, <<t.data[1], 0>>)

PcccWriteStart(t, f) ==
  CASE t.kind = "plc5_bit" -> Plc5WriteBitStart(t, f)
    [] t.kind = "slc_bit"  -> SlcWriteBitStart(t, f)
    [] OTHER -> PcccWritten(t, PcccBuilt(t, f, {"nomem", "large", "add"}), <<0, 0>>, t.data)

(* pccc_check_read_status(): the reply must have exactly the tag's size. *)
PcccCheckRead(t) ==
  CASE t.req = "refused"       -> Result(AbortRequest(t), "REMOTE")
    [] t.req # "refused" /\ Len(t.reply) > t.size -> Result(AbortRequest(t), "TOO_LARGE")
    [] t.req # "refused" /\ Len(t.reply) < t.size -> Result(AbortRequest(t), "TOO_SMALL")
    [] OTHER -> Result(AbortRequest([t EXCEPT !.data = t.reply, !.rdone = TRUE]), "OK")

PcccCheckWrite(t) == IF t.req = "refused" THEN Result(AbortRequest(t), "REMOTE")
                     ELSE Result(AbortRequest([t EXCEPT !.wdone = TRUE]), "OK")

(* The ticklers of the PCCC tags share their text; r and w are what they   *)
(* make of the answer to a read and to a write.                            *)
PcccTicked(t, r, w) ==
  CASE t.rip -> [r.tag EXCEPT !.status = r.rc, !.rdone = @ \/ ~r.tag.rip]
    [] ~t.rip /\ t.wip -> [w.tag EXCEPT !.status = w.rc, !.wdone = @ \/ ~w.tag.wip]
    [] OTHER -> t

PcccTickler(t) == PcccTicked(t, PcccCheckRead(t), PcccCheckWrite(t))

(* The same over a DH+ bridge: a second copy of the functions that differs *)
(* in the packet around the command.  Its bit writes compare the room for  *)
(* the masks as signed numbers.  Its check of a write reads the reply as a *)
(* pccc_resp, which a connected reply is not: what it takes for the        *)
(* general status is the length of the data item, so that every write ends *)
(* as refused, the ones that the PLC has done too.                         *)
DhpReadStart(t, f) == PcccReadStart(t, f)
DhpPlc5WriteBitStart(t, f) == Plc5WriteBitStart(t, f)
DhpSlcWriteBitStart(t, f) == SlcWriteBitStart(t, f)
DhpWriteStart(t, f) ==
  CASE t.kind = "plc5_dhp_bit" -> DhpPlc5WriteBitStart(t, f)
    [] t.kind = "slc_dhp_bit"  -> DhpSlcWriteBitStart(t, f)
    [] OTHER -> PcccWritten(t, PcccBuilt(t, f, {"nomem", "large", "add"}), <<0, 0>>, t.data)
DhpCheckRead(t) == PcccCheckRead(t)
DhpCheckWrite(t) == Result(AbortRequest(t), "REMOTE")
DhpTickler(t) == PcccTicked(t, DhpCheckRead(t), DhpCheckWrite(t))

-----------------------------------------------------------------------------
(* PCCC tags of a ControlLogix *)

(* The end of tag_read_start() and tag_write_start(): only its own flag is *)
(* cleared, but for a request that the session did not take.               *)
LgxStarted(t, f, what) ==
  CASE f \in {"nomem", "large"} -> Result(t, Code(f))
    [] f = "add" -> Result(AbortRequest(t), "NO_MEM")
    [] OTHER -> Result(Queued(t, what), "PENDING")

LgxReadStart(t, f) ==
  LET r == LgxStarted([t EXCEPT !.rip = TRUE], f, <<"word">>)
  IN  CASE t.rip \/ t.wip -> Result([t EXCEPT !.rip = FALSE], "BUSY")
        [] ~(t.rip \/ t.wip) /\ r.rc = "PENDING" -> r
        [] OTHER -> Result([r.tag EXCEPT !.rip = FALSE], r.rc)

(* first_read is never set for these tags: no read comes before a write. *)
LgxWriteStart(t, f) ==
  LET r == LgxStarted([t EXCEPT !.wip = TRUE], f, <<"bits", <<0, 0>>, t.data>>)
  IN  CASE t.rip \/ t.wip -> Result([t EXCEPT !.wip = FALSE], "BUSY")
        [] ~(t.rip \/ t.wip) /\ r.rc = "PENDING" -> r
        [] OTHER -> Result([r.tag EXCEPT !.wip = FALSE], r.rc)

(* check_read_status(): a reply that is too short changes only the front.  *)
LgxCheckRead(t) ==
  CASE t.req = "refused" -> Result(AbortRequest(t), "REMOTE")
    [] t.req = "odd"     -> Result(AbortRequest(t), "BAD_DATA")
    [] t.req \notin {"refused", "odd"} /\ Len(t.reply) > t.size -> Result(AbortRequest(t), "TOO_LARGE")
    [] OTHER -> Result(AbortRequest([t EXCEPT !.data = Copied(t, 0)]), "OK")

LgxCheckWrite(t) ==
  Result(AbortRequest(t), IF t.req = "refused" THEN "REMOTE" ELSE "OK")

LgxTickler(t) == PcccTicked(t, LgxCheckRead(t), LgxCheckWrite(t))

=============================================================================
