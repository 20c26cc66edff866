------------------------------ MODULE TagKinds ------------------------------
(***************************************************************************)
(* The tags of an Allen-Bradley or Omron PLC with their data.  Each kind   *)
(* has a vtable: how it starts reads and writes, how it aborts, and what   *)
(* its tickler makes of an answer.  PcccTag, CipTag, OmronTag and the      *)
(* SpecialTag they extend have the functions; this module has the calls of *)
(* the application, the tickler and the PLC.                               *)
(*                                                                         *)
(* One tag and one thread that uses it; TagOps has the threads.  An API    *)
(* call, a turn of the tickler and an answer of the PLC are one action     *)
(* each.  Data are items: a listing's are the entries' instance IDs, a     *)
(* UDT's its fields behind a header, all other kinds' the bits of a word,  *)
(* which a plain CIP tag may get one by one.                               *)
(***************************************************************************)
EXTENDS PcccTag, CipTag, OmronTag

CONSTANTS
  Kinds,     \* kinds of tags to look at
  Entries,   \* instance IDs of the PLC's tags, ascending
  Fields,    \* the items that describe the fields of the UDT
  Faults,    \* what may go wrong when a request is built; "none" is nothing
  Answers    \* what the PLC may answer

PlcKinds == {"plc5", "plc5_bit", "slc", "slc_bit"}
DhpKinds == {"plc5_dhp", "plc5_dhp_bit", "slc_dhp", "slc_dhp_bit"}
PcccKinds == PlcKinds \cup DhpKinds
PlainCip == {"cip", "cip_bit"}
PlainOmron == {"omron", "omron_bit"}
OmronKinds == PlainOmron \cup {"omron_raw"}
TypedKinds == PlainCip \cup PlainOmron     \* these learn type and size from a first read
RawKinds == {"raw", "omron_raw"}
BitKinds == {"plc5_bit", "slc_bit", "plc5_dhp_bit", "slc_dhp_bit", "cip_bit", "omron_bit"}

(* "capacity": more than the request's buffer; "large": more than the      *)
(* packets of the session carry; "add": the session does not take it;      *)
(* "buffer": the tag's data buffer cannot grow for the answer.             *)
AllFaults == {"none", "nomem", "capacity", "large", "add", "buffer"}

TagKindsAssumption ==
  /\ Kinds \subseteq {"listing", "udt", "lgx"} \cup RawKinds \cup TypedKinds \cup PcccKinds
  /\ IdRange \in Nat
  /\ Entries \in Seq(0..(IdRange - 2))
  /\ \A i, j \in 1..Len(Entries) : i < j => Entries[i] < Entries[j]
  /\ Fields \in Seq(Nat) /\ Fields # <<>>
  /\ "none" \in Faults /\ Faults \subseteq AllFaults
  /\ {"good", "part"} \subseteq Answers
  /\ Answers \subseteq {"good", "part", "short", "long", "odd", "refused", "dead"}

VARIABLES
  tag,     \* the tag; asked and reply belong to its request
  plc,     \* the word in the PLC that raw and PCCC tags name
  first,   \* ghost: next_id when the last read began
  woken    \* the flag of tag->tag_cond_wait

vars == <<tag, plc, first, woken>>

Word == <<0, 1>> \* which bits a word has: 1 is the tag's bit, 2 another
-----------------------------------------------------------------------------
(* The vtables *)

Tickler(t, f) ==
  LET checked == IF t.kind \in OmronKinds THEN OmronCheckRequest(t) ELSE CheckRequest(t)
      u       == checked.tag
  IN  CASE checked.rc # "OK" -> u
        [] checked.rc = "OK" /\ u.kind = "raw"       -> RawTickler(u, f)
        [] checked.rc = "OK" /\ u.kind = "listing"   -> ListingTickler(u, f)
        [] checked.rc = "OK" /\ u.kind = "udt"       -> UdtTickler(u, f)
        [] checked.rc = "OK" /\ u.kind = "lgx"       -> LgxTickler(u)
        [] checked.rc = "OK" /\ u.kind = "omron_raw" -> OmronRawTickler(u, f)
        [] checked.rc = "OK" /\ u.kind \in PlainCip   -> CipTickler(u, f)
        [] checked.rc = "OK" /\ u.kind \in PlainOmron -> OmronTickler(u, f)
        [] checked.rc = "OK" /\ u.kind \in PlcKinds   -> PcccTickler(u)
        [] OTHER -> DhpTickler(u)

ReadStart(t, f) ==
  CASE t.kind \in RawKinds   -> Result(t, "NOT_IMPLEMENTED")
    [] t.kind = "listing"    -> ListingReadStart(t, f)
    [] t.kind = "udt"        -> UdtReadStart(t, f)
    [] t.kind = "lgx"        -> LgxReadStart(t, f)
    [] t.kind \in PlainCip   -> CipReadStart(t, f)
    [] t.kind \in PlainOmron -> OmronReadStart(t, f)
    [] t.kind \in PlcKinds   -> PcccReadStart(t, f)
    [] OTHER                 -> DhpReadStart(t, f)

WriteStart(t, f) ==
  CASE t.kind = "raw"        -> RawWriteStart(t, f)
    [] t.kind = "omron_raw"  -> OmronRawWriteStart(t, f)
    [] t.kind \in {"listing", "udt"} -> Result(t, "NOT_IMPLEMENTED")
    [] t.kind = "lgx"        -> LgxWriteStart(t, f)
    [] t.kind \in PlainCip   -> CipWriteStart(t, f)
    [] t.kind \in PlainOmron -> OmronWriteStart(t, f)
    [] t.kind \in PlcKinds   -> PcccWriteStart(t, f)
    [] OTHER                 -> DhpWriteStart(t, f)

VtableAbort(t) == IF t.kind \in OmronKinds THEN OmronAbort(t) ELSE AbortRequest(t)

-----------------------------------------------------------------------------
(* What a request asked goes with the request. *)
Kept(t) == IF t.req = "none" THEN [t EXCEPT !.asked = <<>>, !.reply = <<>>] ELSE t

(* A tag as its creation leaves it.  PCCC tags have elem_count elements at *)
(* once; the others have no data before an answer brings them, and a plain *)
(* CIP or Omron tag begins its first read here, whatever becomes of it.    *)
NewTag(k, connected) ==
  [kind |-> k, status |-> "OK", rif |-> k \in TypedKinds, wif |-> FALSE,
   rip |-> FALSE, wip |-> FALSE, rdone |-> FALSE, wdone |-> FALSE, abortReq |-> FALSE,
   req |-> "none", asked |-> <<>>, reply |-> <<>>, offset |-> 0, nextId |-> 0, fields |-> FALSE,
   connected |-> connected, firstRead |-> k \in TypedKinds, preRead |-> FALSE, typed |-> FALSE,
   data |-> IF k \in PcccKinds \cup {"lgx"} THEN <<0, 0>> ELSE <<>>,
   size |-> IF k \in PcccKinds \cup {"lgx"} THEN 2 ELSE 0]

(* What goes wrong as the tag is: no growing data for these, see README. *)
FaultsOf(t) == IF t.kind \in TypedKinds THEN Faults \ {"buffer"} ELSE Faults

Init ==
  /\ \E k \in Kinds, connected \in BOOLEAN :
       LET t == NewTag(k, connected)
       IN  /\ k \notin PlainCip \cup {"raw"} => connected
           /\ IF k \in TypedKinds THEN \E f \in FaultsOf(t) : tag = Kept(ReadStart(t, f).tag)
                                   ELSE tag = t
  /\ plc = Word
  /\ first = 0
  /\ woken = FALSE

(* plc_tag_read(), up to the wait *)
Read(f) ==
  LET r == ReadStart([tag EXCEPT !.rif = TRUE, !.status = "PENDING"], f)
  IN  /\ ~tag.rif /\ ~tag.wif
      /\ tag' = Kept(IF r.rc = "PENDING" THEN r.tag
                     ELSE ClearFlight(VtableAbort([r.tag EXCEPT !.abortReq = TRUE])))
      /\ first' = tag.nextId
      /\ woken' = FALSE
      /\ UNCHANGED plc

(* A plain tag whose first read failed has no data: to write it divides by *)
(* its element size, or reads a null pointer.  Such a write is left out.   *)
Crashes(t) == t.kind \in TypedKinds /\ ~t.firstRead /\ t.data = <<>>

(* plc_tag_write(), up to the wait *)
Write(f) ==
  LET r == WriteStart([tag EXCEPT !.wif = TRUE, !.status = "OK"], f)
  IN  /\ ~tag.rif /\ ~tag.wif /\ ~Crashes(tag)
      /\ tag' = Kept(IF r.rc = "PENDING" THEN r.tag
                     ELSE [VtableAbort(r.tag) EXCEPT !.wif = FALSE])
      /\ woken' = FALSE
      /\ UNCHANGED <<plc, first>>

(* plc_tag_status() *)
Status(f) ==
  /\ tag' = Kept(Tickler(tag, f))
  /\ UNCHANGED <<plc, first, woken>>

(* plc_tag_abort(), or the end of a wait that ran out of time: the flag    *)
(* stays set, and the next turn of the tickler aborts once more.           *)
Abort ==
  /\ tag' = Kept(ClearFlight(VtableAbort([tag EXCEPT !.abortReq = TRUE])))
  /\ UNCHANGED <<plc, first, woken>>

(* The wait loop of plc_tag_read() and plc_tag_write() ends, woken for     *)
(* another operation, with the time over and its own still pending.        *)
GiveUpWait ==
  /\ woken /\ (tag.rif \/ tag.wif)
  /\ TagStatus(tag) = "PENDING"
  /\ tag' = [tag EXCEPT !.rif = FALSE, !.wif = FALSE, !.rdone = FALSE, !.wdone = FALSE]
  /\ woken' = FALSE
  /\ UNCHANGED <<plc, first>>

(* One turn of the tickler thread for this tag *)
Tick(f) ==
  LET before == IF tag.abortReq
                  THEN [ClearFlight(VtableAbort(tag)) EXCEPT !.abortReq = FALSE] ELSE tag
      after  == Tickler(before, f)
  IN  /\ tag' = Kept([after EXCEPT !.rif = @ /\ ~after.rdone, !.rdone = FALSE,
                                   !.wif = @ /\ ~after.wdone, !.wdone = FALSE])
      /\ woken' = (woken \/ after.rdone \/ after.wdone)
      /\ UNCHANGED <<plc, first>>

(* The application changes the tag's data: a bit of it. *)
Set ==
  /\ tag.size > 0 /\ tag.kind \notin {"listing", "udt"}
  /\ tag' = [tag EXCEPT !.data[1] = 1 - @]
  /\ UNCHANGED <<plc, first, woken>>

-----------------------------------------------------------------------------
(* The PLC *)

PlcChange ==
  /\ tag.kind \notin {"listing", "udt"} \cup RawKinds
  /\ \E b \in 1..2 : plc' = [plc EXCEPT ![b] = 1 - @]
  /\ UNCHANGED <<tag, first, woken>>

(* The entries from instance ID `from` on: those behind the first n. *)
Before(from) == CHOOSE n \in 0..Len(Entries) : \A i \in 1..Len(Entries) : i <= n <=> Entries[i] < from
EntriesFrom(from) == SubSeq(Entries, Before(from) + 1, Len(Entries))

(* What a tag that is read in parts gets from `from` on: items of the PLC. *)
Rest(from) ==
  CASE tag.kind = "listing" -> EntriesFrom(from)
    [] tag.kind = "udt"     -> SubSeq(Fields, from + 1, Len(Fields))
    [] OTHER                -> SubSeq(plc, from + 1, 2)

(* A reply with no items may be partial: it had no room in a packed answer.*)
(* A plain tag's reply brings at least one item.                           *)
PartReply(answer) ==
  IF tag.asked = <<"meta">> THEN {IF answer = "part" THEN <<>> ELSE <<0>>}
  ELSE LET all == Rest(tag.asked[2])
       IN  {SubSeq(all, 1, n) : n \in {k \in 0..Len(all) :
                                         /\ (k = Len(all)) <=> (answer = "good")
                                         /\ k = 0 => tag.kind \notin TypedKinds}}

WordReply(answer) == CASE answer = "short" -> {<<plc[1]>>}
                       [] answer = "long"  -> {plc \o <<0>>}
                       [] OTHER            -> {plc}

(* asked: which items of the PLC's word are kept, and which are set *)
Written(w, asked) ==
  [b \in 1..2 |-> CASE b > Len(asked[2]) -> w[b]
                    [] b <= Len(asked[2]) /\ asked[3][b] = 1 -> 1
                    [] OTHER -> w[b] * asked[2][b]]

AnswersTo(t) ==
  CASE t.kind \in RawKinds          -> {"good", "short", "long", "dead"}
    [] t.kind \in {"listing", "udt"} -> {"good", "part", "odd", "refused", "dead"}
    [] t.kind \in TypedKinds /\ t.rip -> {"good", "part", "odd", "refused", "dead"}
    [] t.kind \in TypedKinds /\ ~t.rip -> {"good", "odd", "refused", "dead"}
    [] t.kind \in PcccKinds /\ t.rip -> {"good", "short", "long", "refused", "dead"}
    [] t.kind = "lgx" /\ t.rip       -> {"good", "short", "long", "odd", "refused", "dead"}
    [] OTHER                         -> {"good", "refused", "dead"}

Respond(answer) ==
  LET inParts == tag.kind \in {"listing", "udt"} \cup TypedKinds /\ tag.rip
      took    == answer = "good" /\ tag.wip /\ tag.kind \notin RawKinds
  IN  /\ tag.req = "sent"
      /\ answer \in AnswersTo(tag)
      /\ \E reply \in (CASE ~inParts -> WordReply(answer)
                          [] inParts /\ answer \in {"good", "part"} -> PartReply(answer)
                          [] OTHER -> {<<>>}) :
           tag' = [tag EXCEPT !.req = answer, !.reply = reply]
      /\ plc' = IF took THEN Written(plc, tag.asked) ELSE plc
      /\ UNCHANGED <<first, woken>>

Next ==
  \/ \E f \in FaultsOf(tag) : Read(f) \/ Write(f) \/ Status(f) \/ Tick(f)
  \/ Abort \/ GiveUpWait \/ Set \/ PlcChange
  \/ \E answer \in Answers : Respond(answer)

Spec == Init /\ [][Next]_vars

-----------------------------------------------------------------------------
(* A tag has a request exactly while one of its operations is in progress, *)
(* never two: every error path of every kind takes back what it had begun, *)
(* and no answer is left for the tag's next operation.                     *)
OneRequest == /\ (tag.req # "none") <=> (tag.rip \/ tag.wip)
              /\ ~(tag.rip /\ tag.wip)

(* t holds all that its read was for. *)
Whole(t) ==
  CASE t.kind = "listing" ->
         LET all == EntriesFrom(first)
         IN  IsPrefix(all, t.data) /\ t.size >= Len(all)
    [] t.kind = "udt" -> t.data = <<0>> \o Fields /\ t.size = Len(t.data)
    [] t.kind \in PcccKinds -> t.data = tag.reply /\ t.size = Len(t.data)
    [] t.kind \in PlainCip  -> t.size = 2 /\ Len(t.data) = 2
    [] t.kind \in PlainOmron -> t.data = tag.reply /\ t.size = 2
    [] OTHER -> TRUE

(* A read that the tickler ends with PLCTAG_STATUS_OK has it all: every    *)
(* entry from where the listing began, once and in order; the header and   *)
(* every field of a UDT; all of the word that a PLC sent.                  *)
ReadsWhole ==
  [][/\ tag.rip /\ ~tag'.rip /\ tag'.status = "OK" /\ ~tag.abortReq
     /\ \E f \in FaultsOf(tag) : Status(f) \/ Tick(f)
     => Whole(tag')]_vars

(* A write of one bit of a word changes no other bit of it in the PLC,     *)
(* whatever other programs have written there since the tag was read.      *)
OtherBitsKept ==
  [][tag.kind \in BitKinds /\ tag'.req # tag.req /\ tag.wip => plc'[2] = plc[2]]_vars

(* A request to write is only made while plc_tag_write() is under way: a   *)
(* plc_tag_read() never changes the PLC.                                   *)
ReadNeverWrites ==
  [][tag'.asked # tag.asked /\ tag'.asked # <<>> /\ tag'.asked[1] = "bits" => tag'.wif]_vars

=============================================================================
