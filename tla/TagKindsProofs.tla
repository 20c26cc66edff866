--------------------------- MODULE TagKindsProofs ---------------------------
(***************************************************************************)
(* Proofs about the protocols' functions, for every kind of tag and every  *)
(* value of the constants: a tag has a request exactly while one of its    *)
(* operations is in progress, whatever goes wrong and whatever the PLC     *)
(* answers, writing one bit of a word leaves the others as they are, and a *)
(* read that ends with success has all that it was for.  At the end, the   *)
(* events of the tags beside it in the run.                                *)
(***************************************************************************)
EXTENDS MCTags, TLAPS, WellFoundedInduction

TagFields ==
  {"kind", "status", "rif", "wif", "rip", "wip", "rdone", "wdone", "abortReq", "req", "asked",
   "reply", "offset", "nextId", "fields", "connected", "firstRead", "preRead", "typed", "data",
   "size"}

(* The masks of a write that keeps the second bit and does not set it. *)
Masks(asked) == \E x, y : asked = <<"bits", <<x, 1>>, <<y, 0>>>>

(* A tag's request is that of its operation: there is one exactly while a  *)
(* read or a write is in progress, and that of a bit is masks.  Raw Omron  *)
(* tags are not read.                                                      *)
Fits(t) ==
  /\ DOMAIN t = TagFields
  /\ t.rip \in BOOLEAN /\ t.wip \in BOOLEAN
  /\ (t.req # "none") <=> (t.rip \/ t.wip)
  /\ ~(t.rip /\ t.wip)
  /\ t.kind = "omron_raw" => ~t.rip
  /\ t.wip /\ t.kind \in BitKinds => Masks(t.asked)

(* The second bit of a tag's word is a number, as long as it is a bit's. *)
WordFits ==
  tag.kind \in BitKinds => DOMAIN plc = 1 .. 2 /\ plc[2] \in Int

KindsInv == Fits(tag) /\ WordFits

(* u is what a function makes of t. *)
From(t, u) == DOMAIN u = TagFields /\ u.kind = t.kind
Fitting(t, u) == Fits(u) /\ u.kind = t.kind

(* A start that succeeds leaves a tag that fits; what it leaves when it    *)
(* fails is aborted, unless nothing was in progress before.                *)
Started(t, r) == From(t, r.tag) /\ (r.rc = "PENDING" => Fits(r.tag))

-----------------------------------------------------------------------------
(* Aborts *)

LEMMA AbortFits ==
  ASSUME NEW t, DOMAIN t = TagFields
  PROVE  /\ Fitting(t, AbortRequest(t)) /\ Fitting(t, AbortRequestOnly(t))
         /\ Fitting(t, OmronAbort(t)) /\ Fitting(t, OmronAbortRequest(t))
         /\ Fitting(t, OmronAbortRequestOnly(t))
BY DEF Fits, Fitting, TagFields, AbortRequest, AbortRequestOnly, OmronAbort, OmronAbortRequest,
       OmronAbortRequestOnly

LEMMA CheckFits ==
  ASSUME NEW t, Fits(t)
  PROVE  /\ Fitting(t, CheckRequest(t).tag) /\ Fitting(t, OmronCheckRequest(t).tag)
BY ZenonT(60) DEF Fits, Fitting, TagFields, CheckRequest, OmronCheckRequest, TagAbort, Result,
       AbortRequest, AbortRequestOnly, OmronAbort, OmronAbortRequest, OmronAbortRequestOnly

-----------------------------------------------------------------------------
(* Starts *)

LEMMA RawStarts ==
  ASSUME NEW t, NEW f, Fits(t), t.kind = "raw"
  PROVE  Started(t, RawWriteStart(t, f))
BY ZenonT(60) DEF Fits, From, Started, TagFields, RawWriteStart, RawBuildWriteConnected,
       RawBuildWriteUnconnected, Queued, Result, AbortRequest, AbortRequestOnly, BitKinds

LEMMA ListingStarts ==
  ASSUME NEW t, NEW f, Fits(t), t.kind = "listing"
  PROVE  Started(t, ListingReadStart(t, f))
BY ZenonT(60) DEF Fits, From, Started, TagFields, ListingReadStart, ListingBuildRead, Queued,
       Result, Code, AbortRequest, AbortRequestOnly, BitKinds

LEMMA UdtStarts ==
  ASSUME NEW t, NEW f, Fits(t), t.kind = "udt"
  PROVE  Started(t, UdtReadStart(t, f))
BY ZenonT(60) DEF Fits, From, Started, TagFields, UdtReadStart, UdtBuildMeta, Queued, Result, Code,
       AbortRequest, AbortRequestOnly, BitKinds

LEMMA PcccReadStarts ==
  ASSUME NEW t, NEW f, Fits(t), t.kind # "omron_raw"
  PROVE  Started(t, PcccReadStart(t, f))
BY DEF Fits, From, Started, TagFields, PcccReadStart, PcccStarted, PcccBuilt, Queued, Result, Code,
       AbortRequest, AbortRequestOnly

LEMMA PcccWrittenStarts ==
  ASSUME NEW t, NEW rc, NEW keep, NEW set, Fits(t), t.kind # "omron_raw",
         t.kind \in BitKinds => Masks(<<"bits", keep, set>>), rc # "PENDING"
  PROVE  Started(t, PcccWritten(t, rc, keep, set))
BY DEF Fits, From, Started, TagFields, PcccWritten, PcccStarted, Queued, Result, IsError,
       AbortRequest, AbortRequestOnly

LEMMA PcccWriteStarts ==
  ASSUME NEW t, NEW f, Fits(t)
  PROVE  /\ t.kind \in PlcKinds => Started(t, PcccWriteStart(t, f))
         /\ t.kind \in DhpKinds => Started(t, DhpWriteStart(t, f))
<1> DEFINE rc == PcccBuilt(t, f, {"nomem", "large", "add"})
           word == IF ~(t.rip \/ t.wip) /\ t.size # 2 THEN "UNSUPPORTED" ELSE rc
<1>1. rc # "PENDING" /\ word # "PENDING"
  BY DEF PcccBuilt, Code
<1>2. /\ Masks(<<"bits", <<t.data[1], 1>>, <<t.data[1], 0>>>>)
      /\ Masks(<<"bits", <<0, 1>>, <<t.data[1], 0>>>>)
  BY DEF Masks
<1>3. Plc5WriteBitStart(t, f) = PcccWritten(t, rc, <<t.data[1], 1>>, <<t.data[1], 0>>)
  BY DEF Plc5WriteBitStart
<1>4. SlcWriteBitStart(t, f) = PcccWritten(t, word, <<0, 1>>, <<t.data[1], 0>>)
  BY DEF SlcWriteBitStart
<1> HIDE DEF rc, word
<1>5. t.kind # "omron_raw" => /\ Started(t, Plc5WriteBitStart(t, f))
                             /\ Started(t, SlcWriteBitStart(t, f))
  BY <1>1, <1>2, <1>3, <1>4, PcccWrittenStarts
<1>6. t.kind \notin BitKinds \cup {"omron_raw"} => Started(t, PcccWritten(t, rc, <<0, 0>>, t.data))
  BY <1>1, PcccWrittenStarts
<1>7. CASE t.kind \in PlcKinds
  BY <1>5, <1>6, <1>7 DEF PcccWriteStart, PlcKinds, DhpKinds, BitKinds, rc
<1>8. CASE t.kind \in DhpKinds
  BY <1>5, <1>6, <1>8, SMTT(30) DEF DhpWriteStart, PlcKinds, DhpKinds, BitKinds, rc, DhpPlc5WriteBitStart,
     DhpSlcWriteBitStart
<1> QED BY <1>7, <1>8

LEMMA LgxStarts ==
  ASSUME NEW t, NEW f, Fits(t), t.kind = "lgx"
  PROVE  Started(t, LgxReadStart(t, f)) /\ Started(t, LgxWriteStart(t, f))
BY DEF Fits, From, Started, TagFields, LgxReadStart, LgxWriteStart, LgxStarted,
       Queued, Result, Code, AbortRequest, AbortRequestOnly, BitKinds

(* A plain tag with nothing in progress may be written or, for its type,   *)
(* read; whatever goes wrong is then taken back without an abort.          *)
LEMMA CipReadStarts ==
  ASSUME NEW t, NEW f, Fits(t), t.kind \in PlainCip
  PROVE  /\ Started(t, CipReadStart(t, f))
         /\ ~(t.rip \/ t.wip) => Fits(CipReadStart(t, f).tag)
         /\ CipReadStart(t, f).rc # "OK"
BY ZenonT(60) DEF Fits, From, Started, TagFields, CipReadStart, BuildReadConnected,
       BuildReadUnconnected, Built, Queued, Result, Code, AbortRequest, AbortRequestOnly, PlainCip

LEMMA CipWriteStarts ==
  ASSUME NEW t, NEW f, Fits(t), t.kind \in PlainCip
  PROVE  /\ Started(t, CipWriteStart(t, f))
         /\ ~(t.rip \/ t.wip) => Fits(CipWriteStart(t, f).tag)
         /\ CipWriteStart(t, f).rc # "OK"
<1> DEFINE begun == [t EXCEPT !.wip = TRUE]
           built == IF t.connected THEN BuildWriteConnected(begun, f)
                                   ELSE BuildWriteUnconnected(begun, f)
<1>1. CASE t.rip \/ t.wip
  BY <1>1 DEF CipWriteStart, Result, Started, From, Fits
<1>2. CASE ~(t.rip \/ t.wip) /\ t.firstRead
  <2>1. Fits([t EXCEPT !.preRead = TRUE]) /\ [t EXCEPT !.preRead = TRUE].kind \in PlainCip
    BY DEF Fits, TagFields
  <2> QED BY <1>2, <2>1, CipReadStarts DEF CipWriteStart, Started, From, Fits, TagFields
<1>3. CASE ~(t.rip \/ t.wip) /\ ~t.firstRead
  <2>1. /\ From(t, built.tag)
        /\ built.rc = "OK" => Fits(built.tag)
        /\ built.rc # "OK" => Fits([built.tag EXCEPT !.wip = FALSE])
    BY <1>3, ZenonT(60) DEF BuildWriteConnected, BuildWriteUnconnected, BuildWriteBitConnected,
       BuildWriteBitUnconnected, WriteRoom, Built, Queued, Result, Code, AbortRequest,
       AbortRequestOnly, Fits, From, TagFields, PlainCip, BitKinds, Masks
  <2>2. CipWriteStart(t, f) = IF built.rc = "OK" THEN Result(built.tag, "PENDING")
                              ELSE Result([built.tag EXCEPT !.wip = FALSE], built.rc)
    BY <1>3 DEF CipWriteStart
  <2>3. built.rc # "PENDING"
    BY DEF BuildWriteConnected, BuildWriteUnconnected, BuildWriteBitConnected,
       BuildWriteBitUnconnected, WriteRoom, Built, Result, Code
  <2> HIDE DEF built
  <2> QED BY <2>1, <2>2, <2>3, SMTT(30) DEF Result, Started, From, TagFields
<1> QED BY <1>1, <1>2, <1>3 DEF Fits

LEMMA OmronReadStarts ==
  ASSUME NEW t, NEW f, Fits(t), t.kind \in PlainOmron
  PROVE  /\ Started(t, OmronReadStart(t, f))
         /\ ~(t.rip \/ t.wip) => Fits(OmronReadStart(t, f).tag)
         /\ OmronReadStart(t, f).rc # "OK"
BY DEF Fits, From, Started, TagFields, OmronReadStart, OmronBuildRead, OmronBuilt, Queued, Result,
       PlainOmron

LEMMA OmronWriteStarts ==
  ASSUME NEW t, NEW f, Fits(t), t.kind \in PlainOmron
  PROVE  /\ Started(t, OmronWriteStart(t, f))
         /\ ~(t.rip \/ t.wip) => Fits(OmronWriteStart(t, f).tag)
         /\ OmronWriteStart(t, f).rc # "OK"
<1> DEFINE begun == [t EXCEPT !.wip = TRUE]
           built == OmronBuildWrite(begun, f)
<1>1. CASE t.rip \/ t.wip
  BY <1>1 DEF OmronWriteStart, Result, Started, From, Fits
<1>2. CASE ~(t.rip \/ t.wip) /\ t.firstRead
  <2>1. Fits([t EXCEPT !.preRead = TRUE]) /\ [t EXCEPT !.preRead = TRUE].kind \in PlainOmron
    BY DEF Fits, TagFields
  <2> QED BY <1>2, <2>1, OmronReadStarts DEF OmronWriteStart, Started, From, Fits, TagFields
<1>3. CASE ~(t.rip \/ t.wip) /\ ~t.firstRead
  <2>1. /\ From(t, built.tag)
        /\ built.rc = "OK" => Fits(built.tag)
        /\ built.rc # "OK" => Fits([built.tag EXCEPT !.wip = FALSE])
    BY <1>3, ZenonT(60) DEF OmronBuildWrite, OmronBuildWriteBit, OmronBuilt, WriteRoom, Built,
       Queued, Result, Code, AbortRequest, AbortRequestOnly, Fits, From, TagFields, PlainOmron,
       BitKinds, Masks
  <2>2. OmronWriteStart(t, f) = IF built.rc = "OK" THEN Result(built.tag, "PENDING")
                                ELSE Result([built.tag EXCEPT !.wip = FALSE], built.rc)
    BY <1>3 DEF OmronWriteStart
  <2>3. built.rc # "PENDING"
    BY DEF OmronBuildWrite, OmronBuildWriteBit, OmronBuilt, WriteRoom, Built, Result, Code
  <2> HIDE DEF built
  <2> QED BY <2>1, <2>2, <2>3 DEF Result, Started, From, TagFields
<1> QED BY <1>1, <1>2, <1>3 DEF Fits

LEMMA OmronRawStarts ==
  ASSUME NEW t, NEW f, Fits(t), t.kind = "omron_raw"
  PROVE  Started(t, OmronRawWriteStart(t, f))
BY DEF Fits, From, Started, TagFields, OmronRawWriteStart, OmronRawBuildWrite, OmronBuilt, Queued,
       Result, BitKinds

(* The vtables: every start of every kind. *)
LEMMA ReadStarts ==
  ASSUME NEW t, NEW f, Fits(t)
  PROVE  Started(t, ReadStart(t, f))
BY ListingStarts, UdtStarts, LgxStarts, CipReadStarts, OmronReadStarts, PcccReadStarts
   DEF ReadStart, RawKinds, PlainCip, PlainOmron, PlcKinds, DhpReadStart, Result, Started,
       From, Fits

KindKnown(t) ==
  t.kind \in {"listing", "udt", "lgx"} \cup RawKinds \cup TypedKinds \cup PcccKinds

LEMMA WriteStarts ==
  ASSUME NEW t, NEW f, Fits(t), KindKnown(t)
  PROVE  Started(t, WriteStart(t, f))
<1>1. CASE t.kind \in {"raw", "lgx", "omron_raw"}
  BY <1>1, RawStarts, OmronRawStarts, LgxStarts DEF WriteStart, PlainCip, PlainOmron, PlcKinds
<1>2. CASE t.kind \in {"listing", "udt"}
  BY <1>2 DEF WriteStart, Result, Started, From, Fits, PlainCip, PlainOmron, PlcKinds
<1>3. CASE t.kind \in PlainCip
  BY <1>3, CipWriteStarts DEF WriteStart, PlainCip, PlainOmron, PlcKinds
<1>4. CASE t.kind \in PlainOmron
  BY <1>4, OmronWriteStarts DEF WriteStart, PlainCip, PlainOmron, PlcKinds
<1>5. CASE t.kind \in PcccKinds
  BY <1>5, PcccWriteStarts DEF WriteStart, PcccKinds, PlainCip, PlainOmron, PlcKinds, DhpKinds
<1> QED BY <1>1, <1>2, <1>3, <1>4, <1>5 DEF KindKnown, RawKinds, TypedKinds

-----------------------------------------------------------------------------
(* Ticklers *)

(* What a tickler adds to what a check function leaves changes no request. *)
LEMMA FlagsFit ==
  ASSUME NEW t, NEW u, Fitting(t, u), NEW s, NEW r, NEW w, NEW x
  PROVE  /\ Fitting(t, [u EXCEPT !.status = s, !.rdone = r])
         /\ Fitting(t, [u EXCEPT !.status = s, !.wdone = w])
         /\ Fitting(t, [u EXCEPT !.status = s, !.rdone = r, !.firstRead = x])
         /\ Fitting(t, [u EXCEPT !.rdone = r]) /\ Fitting(t, [u EXCEPT !.wdone = w])
BY DEF Fitting, Fits, TagFields

LEMMA RawTicks ==
  ASSUME NEW t, NEW f, Fits(t), t.kind = "raw"
  PROVE  Fitting(t, RawTickler(t, f))
BY DEF Fitting, Fits, TagFields, RawTickler, RawCheckWriteConnected, RawCheckWriteUnconnected,
       Result, AbortRequest, AbortRequestOnly

LEMMA OmronRawTicks ==
  ASSUME NEW t, NEW f, Fits(t), t.kind = "omron_raw"
  PROVE  Fitting(t, OmronRawTickler(t, f))
BY DEF Fitting, Fits, TagFields, OmronRawTickler, OmronRawCheckWrite, Result, OmronAbort,
       OmronAbortRequest, OmronAbortRequestOnly

(* A builder that is called with nothing in progress begins the read, or   *)
(* leaves the tag without a request.                                       *)
LEMMA SpecialBuilds ==
  ASSUME NEW t, NEW f, Fits(t), ~(t.rip \/ t.wip), t.kind # "omron_raw"
  PROVE  /\ Fitting(t, ListingBuildRead(t, f).tag) /\ Fitting(t, UdtBuildMeta(t, f).tag)
         /\ Fitting(t, UdtBuildFields(t, f).tag)
BY DEF Fitting, Fits, TagFields, ListingBuildRead, UdtBuildMeta, UdtBuildFields, Queued, Result,
       AbortRequest, AbortRequestOnly

LEMMA ListingTicks ==
  ASSUME NEW t, NEW f, Fits(t), t.kind = "listing"
  PROVE  Fitting(t, ListingTickler(t, f))
<1> DEFINE grows == t.offset + Len(t.reply) > t.size
           got   == CASE t.req = "odd"     -> Result(t, "BAD_DATA")
                      [] t.req = "refused" -> Result(t, "REMOTE")
                      [] t.req \in {"good", "part"} /\ f = "buffer" /\ grows ->
                           Result([t EXCEPT !.size = t.offset + Len(t.reply)], "NO_MEM")
                      [] OTHER -> Result(Listed(t), "OK")
           done  == AbortRequestOnly(got.tag)
           next  == CASE got.rc = "OK" /\ t.req = "part" -> ListingBuildRead(done, f)
                      [] got.rc = "OK" /\ t.req = "good" ->
                           Result([done EXCEPT !.offset = 0, !.nextId = 0, !.rip = FALSE], "OK")
                      [] OTHER -> Result(done, got.rc)
<1>1. From(t, got.tag)
  BY DEF From, Fits, TagFields, Listed, Result
<1>2. Fitting(t, done) /\ ~(done.rip \/ done.wip)
  BY <1>1, AbortFits, Zenon DEF From, Fitting, TagFields, AbortRequestOnly
<1> HIDE DEF got, done
<1>0. ASSUME NEW c, NEW v PROVE Result(c, v).tag = c
  BY DEF Result
<1>3. Fitting(t, next.tag)
  <2>1. Fitting(t, [done EXCEPT !.offset = 0, !.nextId = 0, !.rip = FALSE])
    BY <1>2 DEF Fitting, Fits, TagFields
  <2>2. Fitting(t, ListingBuildRead(done, f).tag)
    BY <1>2, SpecialBuilds DEF Fitting
  <2> QED BY <1>0, <1>2, <2>1, <2>2
<1>4. ListingCheckRead(t, f) = IF IsError(next.rc)
                               THEN Result(AbortRequest([next.tag EXCEPT !.nextId = 0]), next.rc)
                               ELSE next
  BY DEF ListingCheckRead, got, done
<1> HIDE DEF next
<1>5. Fitting(t, ListingCheckRead(t, f).tag)
  <2>1. /\ DOMAIN [next.tag EXCEPT !.nextId = 0] = TagFields
        /\ [next.tag EXCEPT !.nextId = 0].kind = t.kind
    BY <1>3 DEF Fitting, Fits, TagFields
  <2>2. Fitting(t, AbortRequest([next.tag EXCEPT !.nextId = 0]))
    BY <2>1, AbortFits DEF Fitting
  <2> QED BY <1>0, <1>3, <1>4, <2>2
<1>6. Fitting(t, AbortRequest(t)) /\ Fitting(t, t)
  BY AbortFits DEF Fitting, Fits
<1> QED BY <1>5, <1>6, FlagsFit, Zenon DEF ListingTickler

LEMMA UdtTicks ==
  ASSUME NEW t, NEW f, Fits(t), t.kind = "udt"
  PROVE  Fitting(t, UdtTickler(t, f))
<1>1. ASSUME NEW r, Fitting(t, r.tag)
      PROVE  Fitting(t, UdtEnd(r).tag) /\ Fitting(t, Pending(r).tag)
  <2>1. /\ DOMAIN [r.tag EXCEPT !.fields = FALSE] = TagFields
        /\ [r.tag EXCEPT !.fields = FALSE].kind = t.kind
    BY <1>1 DEF Fitting, Fits, TagFields
  <2> QED BY <1>1, <2>1, AbortFits DEF UdtEnd, Pending, Result, Fitting
<1>2. ASSUME NEW u, From(t, u)
      PROVE  /\ Fitting(t, AbortRequest(u)) /\ Fitting(t, AbortRequestOnly(u))
             /\ ~(AbortRequest(u).rip \/ AbortRequest(u).wip)
             /\ ~(AbortRequestOnly(u).rip \/ AbortRequestOnly(u).wip)
  BY <1>2, AbortFits, Zenon DEF From, Fitting, AbortRequest, AbortRequestOnly, TagFields
<1>3. ASSUME NEW c, NEW v PROVE Result(c, v).tag = c
  BY DEF Result
<1>4. Fitting(t, UdtCheckMeta(t, f).tag)
  <2> DEFINE old  == AbortRequest(t)
             done == AbortRequest([t EXCEPT !.data = t.reply, !.size = 1])
             more == [done EXCEPT !.fields = TRUE]
  <2>1. Fitting(t, old) /\ ~(old.rip \/ old.wip)
    BY <1>2 DEF From, Fits
  <2>2. Fitting(t, done) /\ ~(done.rip \/ done.wip)
    BY <1>2 DEF From, Fits, TagFields
  <2> HIDE DEF done
  <2>3. Fitting(t, more) /\ ~(more.rip \/ more.wip)
    BY <2>2 DEF Fitting, Fits, TagFields
  <2> HIDE DEF old, more
  <2>4. /\ Fitting(t, UdtBuildMeta(old, f).tag)
        /\ Fitting(t, UdtBuildFields(more, f).tag)
    BY <2>1, <2>3, SpecialBuilds DEF Fitting
  <2>5. UdtCheckMeta(t, f) =
          UdtEnd(CASE t.req \in {"odd", "refused"} -> Result(old, Refusal(t))
                   [] t.req = "part" -> UdtBuildMeta(old, f)
                   [] t.req = "good" /\ f = "buffer" -> Result(old, "NO_MEM")
                   [] OTHER -> Pending(UdtBuildFields(more, f)))
    BY DEF UdtCheckMeta, old, done, more
  <2>6. CASE t.req \in {"odd", "refused"}
    BY <1>1, <1>3, <2>1, <2>5, <2>6
  <2>7. CASE t.req = "part"
    BY <1>1, <2>4, <2>5, <2>7
  <2>8. CASE t.req \notin {"odd", "refused", "part"}
    BY <1>1, <1>3, <2>1, <2>4, <2>5, <2>8
  <2> QED BY <2>6, <2>7, <2>8
<1>5. Fitting(t, UdtCheckFields(t, f).tag)
  <2> DEFINE got  == [t EXCEPT !.data = Copied(t, t.offset + 1), !.size = @ + Len(t.reply),
                               !.offset = @ + Len(t.reply)]
             old  == AbortRequestOnly(t)
             done == AbortRequestOnly(got)
             last == [done EXCEPT !.fields = FALSE, !.offset = 0]
  <2>1. Fitting(t, old)
    BY <1>2 DEF From, Fits
  <2>2. Fitting(t, done) /\ ~(done.rip \/ done.wip)
    BY <1>2 DEF From, Fits, TagFields
  <2> HIDE DEF done
  <2>3. Fitting(t, last)
    BY <2>2 DEF Fitting, Fits, TagFields
  <2> HIDE DEF old, last
  <2>4. Fitting(t, UdtBuildFields(done, f).tag)
    BY <2>2, SpecialBuilds DEF Fitting
  <2>5. UdtCheckFields(t, f) =
          UdtEnd(CASE t.req \in {"odd", "refused"} -> Result(old, Refusal(t))
                   [] t.req \in {"good", "part"} /\ f = "buffer" /\ t.reply # <<>> ->
                        Result(old, "NO_MEM")
                   [] t.req = "part" /\ (f = "buffer" => t.reply = <<>>) ->
                        Pending(UdtBuildFields(done, f))
                   [] OTHER -> Result(last, "OK"))
    BY DEF UdtCheckFields, old, done, last
  <2> DEFINE r == CASE t.req \in {"odd", "refused"} -> Result(old, Refusal(t))
                    [] t.req \in {"good", "part"} /\ f = "buffer" /\ t.reply # <<>> ->
                         Result(old, "NO_MEM")
                    [] t.req = "part" /\ (f = "buffer" => t.reply = <<>>) ->
                        Pending(UdtBuildFields(done, f))
                    [] OTHER -> Result(last, "OK")
  <2>6. Fitting(t, r.tag)
    BY <1>1, <1>3, <2>1, <2>3, <2>4
  <2> QED BY <1>1, <2>5, <2>6
<1>6. Fitting(t, AbortRequest(t)) /\ Fitting(t, t)
  BY AbortFits DEF Fitting, Fits
<1> QED BY <1>4, <1>5, <1>6, FlagsFit, Zenon DEF UdtTickler

(* PCCC replies end the operation, whatever they say. *)
LEMMA PcccTicks ==
  ASSUME NEW t, Fits(t)
  PROVE  /\ Fitting(t, PcccTickler(t)) /\ Fitting(t, DhpTickler(t)) /\ Fitting(t, LgxTickler(t))
<1>1. ASSUME NEW r, NEW w, Fitting(t, r.tag), Fitting(t, w.tag)
      PROVE  Fitting(t, PcccTicked(t, r, w))
  <2>1. Fitting(t, [r.tag EXCEPT !.status = r.rc, !.rdone = @ \/ ~r.tag.rip])
    BY <1>1, FlagsFit, ZenonT(60)
  <2>2. Fitting(t, [w.tag EXCEPT !.status = w.rc, !.wdone = @ \/ ~w.tag.wip])
    BY <1>1, FlagsFit, Zenon
  <2>3. Fitting(t, t)
    BY DEF Fitting
  <2> QED BY <2>1, <2>2, <2>3, SMTT(30) DEF PcccTicked
<1>2. ASSUME NEW c, NEW v PROVE Result(c, v).tag = c
  BY DEF Result
<1>3. /\ Fitting(t, AbortRequest(t))
      /\ Fitting(t, AbortRequest([t EXCEPT !.data = t.reply, !.rdone = TRUE]))
      /\ Fitting(t, AbortRequest([t EXCEPT !.wdone = TRUE]))
      /\ Fitting(t, AbortRequest([t EXCEPT !.data = Copied(t, 0)]))
  BY DEF Fits, Fitting, TagFields, AbortRequest, AbortRequestOnly
<1>4. Fitting(t, PcccCheckRead(t).tag) /\ Fitting(t, PcccCheckWrite(t).tag)
  BY <1>2, <1>3 DEF PcccCheckRead, PcccCheckWrite
<1>5. Fitting(t, LgxCheckRead(t).tag) /\ Fitting(t, LgxCheckWrite(t).tag)
  BY <1>2, <1>3 DEF LgxCheckRead, LgxCheckWrite
<1>6. Fitting(t, DhpCheckRead(t).tag) /\ Fitting(t, DhpCheckWrite(t).tag)
  BY <1>2, <1>3, <1>4 DEF DhpCheckRead, DhpCheckWrite
<1> QED BY <1>1, <1>4, <1>5, <1>6 DEF PcccTickler, DhpTickler, LgxTickler

(* What a reply is taken into. *)
LEMMA TakenFrom ==
  ASSUME NEW t, DOMAIN t = TagFields
  PROVE  From(t, Taken(t))
<1>1. From(t, Grown(t))
  BY SMTT(30) DEF From, TagFields, Grown
<1> HIDE DEF Grown
<1> QED BY <1>1 DEF From, TagFields, Taken

LEMMA CipTicks ==
  ASSUME NEW t, NEW f, Fits(t), t.kind \in PlainCip
  PROVE  Fitting(t, CipTickler(t, f))
<1>1. ASSUME NEW c, NEW v PROVE Result(c, v).tag = c
  BY DEF Result
<1>2. ASSUME NEW u, From(t, u)
      PROVE  /\ Fitting(t, AbortRequest(u)) /\ Fitting(t, AbortRequestOnly(u))
             /\ ~(AbortRequestOnly(u).rip \/ AbortRequestOnly(u).wip)
  BY <1>2, AbortFits, Zenon DEF From, Fitting, AbortRequestOnly, TagFields
<1>3. From(t, t) /\ From(t, Taken(t))
  BY TakenFrom DEF From, Fits
<1>4. Fitting(t, CipCheckReadConnected(t, f).tag)
  <2> DEFINE got  == AbortRequestOnly(Taken(t))
             again == [got EXCEPT !.preRead = FALSE, !.offset = 0]
             last == [got EXCEPT !.offset = 0]
             next == CASE t.req \in {"odd", "refused"} -> Result(AbortRequestOnly(t), Refusal(t))
                       [] t.req \notin {"odd", "refused"} /\ t.preRead -> CipWriteStart(again, f)
                       [] t.req = "part" /\ ~t.preRead -> CipReadStart(got, f)
                       [] OTHER -> Result(last, "OK")
  <2>1. Fitting(t, got)
    BY <1>2, <1>3
  <2> HIDE DEF got
  <2>2. Fitting(t, again) /\ Fitting(t, last)
    BY <2>1 DEF Fitting, Fits, TagFields
  <2> HIDE DEF again, last
  <2>3. Started(t, CipWriteStart(again, f)) /\ Started(t, CipReadStart(got, f))
    BY <2>1, <2>2, CipWriteStarts, CipReadStarts DEF Fitting, Started, From
  <2>4. Started(t, Result(AbortRequestOnly(t), Refusal(t))) /\ Started(t, Result(last, "OK"))
    BY <1>2, <1>3, <2>2 DEF Result, Started, Fitting, From, Fits
  <2>5. Started(t, next)
    BY <2>3, <2>4
  <2>6. CipCheckReadConnected(t, f) = IF next.rc = "PENDING" THEN next
                                      ELSE Result(AbortRequest(next.tag), next.rc)
    BY DEF CipCheckReadConnected, got, again, last
  <2> HIDE DEF next
  <2> QED BY <1>1, <1>2, <2>5, <2>6 DEF Started, Fitting, From
<1>5. Fitting(t, CipCheckWriteConnected(t, f).tag)
  <2> DEFINE done == AbortRequestOnly(t)
             last == [done EXCEPT !.offset = 0]
  <2>1. Fitting(t, done) /\ ~(done.rip \/ done.wip)
    BY <1>2, <1>3
  <2> HIDE DEF done
  <2>2. Fitting(t, last)
    BY <2>1 DEF Fitting, Fits, TagFields
  <2>3. Fitting(t, CipWriteStart(done, f).tag)
    BY <2>1, CipWriteStarts DEF Fitting, Started, From
  <2> HIDE DEF last
  <2>4. CipCheckWriteConnected(t, f) =
          CASE t.req \in {"odd", "refused"} -> Result(last, Refusal(t))
            [] t.req \notin {"odd", "refused"} /\ t.offset < t.size -> CipWriteStart(done, f)
            [] OTHER -> Result(last, "OK")
    BY DEF CipCheckWriteConnected, done, last
  <2> QED BY <1>1, <2>2, <2>3, <2>4
<1>6. Fitting(t, CipCheckWriteUnconnected(t).tag)
  BY <1>1, <1>2, <1>3 DEF CipCheckWriteUnconnected
<1>7. Fitting(t, t)
  BY SMTT(30) DEF Fitting
<1> QED BY <1>4, <1>5, <1>6, <1>7, FlagsFit, ZenonT(60) DEF CipTickler, CipCheckReadUnconnected

LEMMA OmronTicks ==
  ASSUME NEW t, NEW f, Fits(t), t.kind \in PlainOmron
  PROVE  Fitting(t, OmronTickler(t, f))
<1>1. ASSUME NEW c, NEW v PROVE Result(c, v).tag = c
  BY DEF Result
<1>2. ASSUME NEW u, From(t, u)
      PROVE  /\ Fitting(t, OmronAbort(u)) /\ Fitting(t, OmronAbortRequestOnly(u))
             /\ ~(OmronAbortRequestOnly(u).rip \/ OmronAbortRequestOnly(u).wip)
  BY <1>2, AbortFits, Zenon DEF From, Fitting, OmronAbortRequestOnly, TagFields
<1>3. From(t, t) /\ From(t, Taken(t))
  BY TakenFrom DEF From, Fits
<1>4. Fitting(t, OmronCheckRead(t, f).tag)
  <2> DEFINE got   == OmronAbort(Taken(t))
             again == [got EXCEPT !.preRead = FALSE]
             next  == CASE t.req \in {"odd", "refused"} -> Result(OmronAbort(t), Refusal(t))
                        [] t.req \notin {"odd", "refused"} /\ t.preRead -> OmronWriteStart(again, f)
                        [] t.req = "part" /\ ~t.preRead -> OmronReadStart(got, f)
                        [] OTHER -> Result(got, "OK")
  <2>1. Fitting(t, got)
    BY <1>2, <1>3
  <2> HIDE DEF got
  <2>2. Fitting(t, again)
    BY <2>1 DEF Fitting, Fits, TagFields
  <2> HIDE DEF again
  <2>3. /\ Started(t, OmronWriteStart(again, f)) /\ OmronWriteStart(again, f).rc # "OK"
        /\ Started(t, OmronReadStart(got, f)) /\ OmronReadStart(got, f).rc # "OK"
    BY <2>1, <2>2, OmronWriteStarts, OmronReadStarts DEF Fitting, Started, From
  <2>4. /\ Started(t, Result(OmronAbort(t), Refusal(t))) /\ Refusal(t) # "OK"
        /\ Started(t, Result(got, "OK")) /\ Fitting(t, got)
    BY <1>2, <1>3, <2>1 DEF Result, Started, Fitting, From, Fits, Refusal
  <2>5. Started(t, next) /\ (next.rc = "OK" => Fitting(t, next.tag))
    BY <2>3, <2>4 DEF Result
  <2>6. OmronCheckRead(t, f) = IF IsError(next.rc) THEN Result(OmronAbort(next.tag), next.rc)
                               ELSE next
    BY DEF OmronCheckRead, got, again
  <2> HIDE DEF next
  <2> QED BY <1>1, <1>2, <2>5, <2>6 DEF Started, Fitting, From, IsError
<1>5. Fitting(t, OmronCheckWrite(t, f).tag)
  <2> DEFINE done == OmronAbortRequestOnly(t)
             last == [done EXCEPT !.offset = 0]
  <2>1. Fitting(t, done) /\ ~(done.rip \/ done.wip)
    BY <1>2, <1>3
  <2> HIDE DEF done
  <2>2. Fitting(t, last)
    BY <2>1 DEF Fitting, Fits, TagFields
  <2>3. Fitting(t, OmronWriteStart(done, f).tag)
    BY <2>1, OmronWriteStarts DEF Fitting, Started, From
  <2> HIDE DEF last
  <2>4. OmronCheckWrite(t, f) =
          CASE t.req \in {"odd", "refused"} -> Result(last, Refusal(t))
            [] t.req \notin {"odd", "refused"} /\ t.offset < t.size -> OmronWriteStart(done, f)
            [] OTHER -> Result(last, "OK")
    BY DEF OmronCheckWrite, done, last
  <2> QED BY <1>1, <2>2, <2>3, <2>4
<1>6. Fitting(t, t)
  BY DEF Fitting
<1> QED BY <1>4, <1>5, <1>6, FlagsFit, Zenon DEF OmronTickler

(* The vtables: every tickler of every kind. *)
LEMMA Ticks ==
  ASSUME NEW t, NEW f, Fits(t)
  PROVE  Fitting(t, Tickler(t, f))
<1> DEFINE checked == IF t.kind \in OmronKinds THEN OmronCheckRequest(t) ELSE CheckRequest(t)
           u == checked.tag
<1>1. Fitting(t, u)
  BY CheckFits
<1>2. Tickler(t, f) =
        CASE checked.rc # "OK" -> u
          [] checked.rc = "OK" /\ u.kind = "raw"       -> RawTickler(u, f)
          [] checked.rc = "OK" /\ u.kind = "listing"   -> ListingTickler(u, f)
          [] checked.rc = "OK" /\ u.kind = "udt"       -> UdtTickler(u, f)
          [] checked.rc = "OK" /\ u.kind = "lgx"       -> LgxTickler(u)
          [] checked.rc = "OK" /\ u.kind = "omron_raw" -> OmronRawTickler(u, f)
          [] checked.rc = "OK" /\ u.kind \in PlainCip   -> CipTickler(u, f)
          [] checked.rc = "OK" /\ u.kind \in PlainOmron -> OmronTickler(u, f)
          [] checked.rc = "OK" /\ u.kind \in PlcKinds   -> PcccTickler(u)
          [] OTHER -> DhpTickler(u)
  BY DEF Tickler
<1> HIDE DEF checked, u
<1>3. Fits(u) /\ u.kind = t.kind
  BY <1>1 DEF Fitting
<1>4. \A v : Fitting(u, v) => Fitting(t, v)
  BY <1>3 DEF Fitting
<1>5. /\ u.kind = "raw" => Fitting(t, RawTickler(u, f))
      /\ u.kind = "listing" => Fitting(t, ListingTickler(u, f))
      /\ u.kind = "udt" => Fitting(t, UdtTickler(u, f))
      /\ u.kind = "omron_raw" => Fitting(t, OmronRawTickler(u, f))
  BY <1>3, <1>4, RawTicks, ListingTicks, UdtTicks, OmronRawTicks
<1>6. /\ u.kind \in PlainCip => Fitting(t, CipTickler(u, f))
      /\ u.kind \in PlainOmron => Fitting(t, OmronTickler(u, f))
  BY <1>3, <1>4, CipTicks, OmronTicks
<1>7. Fitting(t, PcccTickler(u)) /\ Fitting(t, DhpTickler(u)) /\ Fitting(t, LgxTickler(u))
  BY <1>3, <1>4, PcccTicks
<1> QED BY <1>1, <1>2, <1>5, <1>6, <1>7

-----------------------------------------------------------------------------
(* The specification *)

LEMMA VtableAborts ==
  ASSUME NEW t, DOMAIN t = TagFields
  PROVE  Fitting(t, ClearFlight(VtableAbort(t)))
<1>1. Fitting(t, VtableAbort(t))
  BY AbortFits DEF VtableAbort
<1> QED BY <1>1 DEF Fitting, Fits, TagFields, ClearFlight

(* A request that is gone takes what it asked along. *)
LEMMA KeptFits ==
  ASSUME NEW t, NEW u, Fitting(t, u)
  PROVE  Fitting(t, Kept(u)) /\ Kept(u).req = u.req
BY DEF Fitting, Fits, TagFields, Kept

LEMMA NewFits ==
  ASSUME NEW k, NEW connected \in BOOLEAN
  PROVE  Fits(NewTag(k, connected)) /\ NewTag(k, connected).kind = k
BY DEF NewTag, Fits, TagFields

LEMMA KindsInit == ASSUME TagKindsAssumption, Init PROVE KindsInv /\ KindKnown(tag)
<1>1. PICK k \in Kinds, connected \in BOOLEAN :
        LET t == NewTag(k, connected)
        IN  IF k \in TypedKinds THEN \E f \in FaultsOf(t) : tag = Kept(ReadStart(t, f).tag)
                                ELSE tag = t
  BY DEF Init
<1> DEFINE t == NewTag(k, connected)
<1>2. Fits(t) /\ t.kind = k /\ ~(t.rip \/ t.wip)
  BY NewFits DEF NewTag
<1> HIDE DEF t
<1>3. ASSUME k \in TypedKinds PROVE Fitting(t, tag)
  <2>1. PICK f \in FaultsOf(t) : tag = Kept(ReadStart(t, f).tag)
    BY <1>1, <1>3 DEF t
  <2>2. /\ k \in PlainCip => ReadStart(t, f) = CipReadStart(t, f)
        /\ k \in PlainOmron => ReadStart(t, f) = OmronReadStart(t, f)
    BY <1>2, <1>3 DEF ReadStart, RawKinds, PlainCip, PlainOmron, PlcKinds
  <2>3. Fitting(t, ReadStart(t, f).tag)
    BY <1>2, <1>3, <2>2, CipReadStarts, OmronReadStarts DEF TypedKinds, Fitting, Started, From
  <2> QED BY <2>1, <2>3, KeptFits
<1>4. ASSUME k \notin TypedKinds PROVE Fitting(t, tag)
  BY <1>1, <1>2, <1>4 DEF t, Fitting
<1>5. Fits(tag) /\ tag.kind = k
  BY <1>2, <1>3, <1>4 DEF Fitting
<1>6. KindKnown(tag)
  BY <1>5 DEF KindKnown, TagKindsAssumption
<1>7. WordFits
  BY DEF Init, Word, WordFits
<1> QED BY <1>5, <1>6, <1>7 DEF KindsInv

(* No action but the PLC's changes the word in the PLC, and what the       *)
(* application and the tickler make of a tag fits.                         *)
LEMMA CallsKeep ==
  ASSUME KindsInv, KindKnown(tag), NEW f, Read(f) \/ Write(f) \/ Status(f) \/ Tick(f)
  PROVE  Fitting(tag, tag') /\ plc' = plc
<1>1. Fits(tag) /\ DOMAIN tag = TagFields
  BY DEF KindsInv, Fits
<1>2. ASSUME NEW u, From(tag, u) PROVE Fitting(tag, ClearFlight(VtableAbort(u)))
  BY <1>2, VtableAborts DEF From, Fitting
<1>3. ASSUME NEW u, Fitting(tag, u) PROVE Fitting(tag, Kept(u))
  BY <1>3, KeptFits
<1>4. CASE Read(f)
  <2> DEFINE begun == [tag EXCEPT !.rif = TRUE, !.status = "PENDING"]
             r == ReadStart(begun, f)
             over == [r.tag EXCEPT !.abortReq = TRUE]
  <2>1. Fitting(tag, begun)
    BY <1>1 DEF Fitting, Fits, TagFields
  <2> HIDE DEF begun
  <2>2. From(tag, r.tag) /\ (r.rc = "PENDING" => Fitting(tag, r.tag))
    BY <2>1, ReadStarts DEF Started, Fitting, From
  <2> HIDE DEF r
  <2>3. From(tag, over)
    BY <2>2 DEF From, TagFields
  <2>4. tag' = Kept(IF r.rc = "PENDING" THEN r.tag ELSE ClearFlight(VtableAbort(over)))
    BY <1>4 DEF Read, r, begun
  <2> HIDE DEF over
  <2>5. Fitting(tag, tag')
    BY <1>2, <1>3, <2>2, <2>3, <2>4
  <2> QED BY <1>4, <2>5 DEF Read
<1>5. CASE Write(f)
  <2> DEFINE begun == [tag EXCEPT !.wif = TRUE, !.status = "OK"]
             r == WriteStart(begun, f)
             over == [VtableAbort(r.tag) EXCEPT !.wif = FALSE]
  <2>1. Fitting(tag, begun) /\ KindKnown(begun)
    BY <1>1 DEF Fitting, Fits, TagFields, KindKnown
  <2> HIDE DEF begun
  <2>2. From(tag, r.tag) /\ (r.rc = "PENDING" => Fitting(tag, r.tag))
    BY <2>1, WriteStarts DEF Started, Fitting, From
  <2> HIDE DEF r
  <2>3. Fitting(tag, VtableAbort(r.tag))
    BY <2>2, AbortFits DEF VtableAbort, From, Fitting
  <2>4. Fitting(tag, over)
    BY <2>3 DEF Fitting, Fits, TagFields
  <2>5. tag' = Kept(IF r.rc = "PENDING" THEN r.tag ELSE over)
    BY <1>5 DEF Write, r, begun
  <2> HIDE DEF over
  <2>6. Fitting(tag, tag')
    BY <1>3, <2>2, <2>4, <2>5
  <2> QED BY <1>5, <2>6 DEF Write
<1>6. CASE Status(f)
  BY <1>1, <1>3, <1>6, Ticks DEF Status
<1>7. CASE Tick(f)
  <2> DEFINE aborted == ClearFlight(VtableAbort(tag))
             before == IF tag.abortReq THEN [aborted EXCEPT !.abortReq = FALSE] ELSE tag
             after == Tickler(before, f)
             end == [after EXCEPT !.rif = @ /\ ~after.rdone, !.rdone = FALSE,
                                  !.wif = @ /\ ~after.wdone, !.wdone = FALSE]
  <2>1. Fitting(tag, aborted) /\ Fitting(tag, tag)
    BY <1>1, <1>2 DEF From, Fitting
  <2> HIDE DEF aborted
  <2>2. Fitting(tag, before)
    BY <2>1 DEF Fitting, Fits, TagFields
  <2> HIDE DEF before
  <2>3. Fitting(tag, after)
    BY <2>2, Ticks DEF Fitting
  <2> HIDE DEF after
  <2>4. Fitting(tag, end)
    BY <2>3 DEF Fitting, Fits, TagFields
  <2>5. tag' = Kept(end) /\ plc' = plc
    BY <1>7 DEF Tick, end, after, before, aborted
  <2> QED BY <1>3, <2>4, <2>5
<1> QED BY <1>4, <1>5, <1>6, <1>7

LEMMA OthersKeep ==
  ASSUME KindsInv, Abort \/ GiveUpWait \/ Set \/ PlcChange
  PROVE  Fitting(tag, tag') /\ (plc' = plc \/ PlcChange)
<1>1. Fits(tag) /\ DOMAIN tag = TagFields
  BY DEF KindsInv, Fits
<1>2. CASE Abort
  <2>1. /\ DOMAIN [tag EXCEPT !.abortReq = TRUE] = TagFields
        /\ [tag EXCEPT !.abortReq = TRUE].kind = tag.kind
    BY <1>1 DEF TagFields
  <2>2. Fitting(tag, ClearFlight(VtableAbort([tag EXCEPT !.abortReq = TRUE])))
    BY <2>1, VtableAborts DEF Fitting
  <2> QED BY <1>2, <2>2, KeptFits DEF Abort
<1>3. CASE GiveUpWait
  BY <1>1, <1>3 DEF GiveUpWait, Fitting, Fits, TagFields
<1>4. CASE Set
  BY <1>1, <1>4 DEF Set, Fitting, Fits, TagFields
<1>5. CASE PlcChange
  BY <1>1, <1>5 DEF PlcChange, Fitting
<1> QED BY <1>2, <1>3, <1>4, <1>5

(* The PLC writes only where the masks say, and an answered request is     *)
(* still there.                                                            *)
LEMMA MasksKeepOthers ==
  ASSUME NEW asked, NEW w, Masks(asked), w[2] \in Int
  PROVE  Written(w, asked)[2] = w[2]
<1>1. PICK x, y : asked = <<"bits", <<x, 1>>, <<y, 0>>>>
  BY DEF Masks
<1>2. asked[2] = <<x, 1>> /\ asked[3] = <<y, 0>> /\ Len(asked[2]) = 2
  BY <1>1
<1> QED BY <1>2 DEF Written

LEMMA RespondKeeps ==
  ASSUME KindsInv, NEW answer, Respond(answer)
  PROVE  /\ Fitting(tag, tag')
         /\ tag.kind \in BitKinds => DOMAIN plc' = 1 .. 2 /\ plc'[2] = plc[2]
<1>1. PICK reply : tag' = [tag EXCEPT !.req = answer, !.reply = reply]
  BY Zenon DEF Respond
<1>2. answer # "none" /\ tag.req # "none"
  BY DEF Respond, AnswersTo
<1>3. Fitting(tag, tag')
  BY <1>1, <1>2 DEF KindsInv, Fitting, Fits, TagFields
<1>4. plc' = plc \/ (plc' = Written(plc, tag.asked) /\ tag.wip)
  BY DEF Respond
<1>5. ASSUME tag.kind \in BitKinds, tag.wip
      PROVE  DOMAIN Written(plc, tag.asked) = 1 .. 2 /\ Written(plc, tag.asked)[2] = plc[2]
  BY <1>5, MasksKeepOthers DEF KindsInv, Fits, WordFits, Written
<1> QED BY <1>3, <1>4, <1>5 DEF KindsInv, WordFits

LEMMA KindsNext ==
  ASSUME KindsInv, KindKnown(tag), [Next]_vars
  PROVE  /\ KindsInv' /\ KindKnown(tag')
         /\ tag.kind \in BitKinds /\ tag'.req # tag.req /\ tag.wip => plc'[2] = plc[2]
<1>1. /\ Fitting(tag, tag')
      /\ \/ plc' = plc
         \/ PlcChange
         \/ tag.kind \in BitKinds => DOMAIN plc' = 1 .. 2 /\ plc'[2] = plc[2]
  <2>1. CASE \E f \in FaultsOf(tag) : Read(f) \/ Write(f) \/ Status(f) \/ Tick(f)
    BY <2>1, CallsKeep
  <2>2. CASE Abort \/ GiveUpWait \/ Set \/ PlcChange
    BY <2>2, OthersKeep
  <2>3. CASE \E answer \in Answers : Respond(answer)
    BY <2>3, RespondKeeps
  <2>4. CASE UNCHANGED vars
    BY <2>4 DEF vars, KindsInv, Fitting
  <2> QED BY <2>1, <2>2, <2>3, <2>4 DEF Next
<1>2. tag.kind \in BitKinds => DOMAIN plc' = 1 .. 2 /\ plc'[2] \in Int
  <2>1. CASE PlcChange
    <3>1. PICK b \in 1 .. 2 : plc' = [plc EXCEPT ![b] = 1 - @]
      BY <2>1 DEF PlcChange
    <3> QED BY <3>1 DEF KindsInv, WordFits
  <2> QED BY <1>1, <2>1 DEF KindsInv, WordFits
<1>3. KindsInv' /\ KindKnown(tag')
  BY <1>1, <1>2 DEF KindsInv, WordFits, Fitting, KindKnown
<1>4. PlcChange => tag' = tag
  BY DEF PlcChange
<1> QED BY <1>1, <1>3, <1>4

LEMMA KindsInvariant ==
  ASSUME TagKindsAssumption
  PROVE  Spec => [](KindsInv /\ KindKnown(tag))
<1>1. Init => KindsInv /\ KindKnown(tag)
  BY KindsInit
<1>2. (KindsInv /\ KindKnown(tag)) /\ [Next]_vars => (KindsInv /\ KindKnown(tag))'
  BY KindsNext
<1> QED BY <1>1, <1>2, PTL DEF Spec

(* Every error path of every kind takes back what it had begun: a tag has  *)
(* a request exactly while one of its operations is in progress, and never *)
(* two (pccc.c, eip_cip.c, eip_cip_special.c, eip_lgx_pccc.c, omron_*.c).  *)
THEOREM KindsOneRequest ==
  ASSUME TagKindsAssumption
  PROVE  Spec => []OneRequest
<1>1. KindsInv => OneRequest
  BY DEF KindsInv, Fits, OneRequest
<1> QED BY <1>1, KindsInvariant, PTL

(* Writing one bit of a word leaves the other bits as other programs have  *)
(* left them in the PLC, for every kind of tag that has bits: the request  *)
(* is a pair of masks that keep them (pccc.c:1891, 2078, 2832, 3014;       *)
(* eip_cip.c:620, 772; omron_standard_tag.c:567).                          *)
THEOREM KindsOtherBitsKept ==
  ASSUME TagKindsAssumption
  PROVE  Spec => OtherBitsKept
<1>1. (KindsInv /\ KindKnown(tag)) /\ [Next]_vars =>
        [tag.kind \in BitKinds /\ tag'.req # tag.req /\ tag.wip => plc'[2] = plc[2]]_vars
  BY KindsNext
<1> QED BY <1>1, KindsInvariant, PTL DEF Spec, OtherBitsKept

-----------------------------------------------------------------------------
(* What a tag holds of the data in the PLC *)

Sequence(s) == \E T : s \in Seq(T)
Answered(t) == t.req \in {"good", "part"}

(* What a listing has: the entries from `from` on, as many as the offset   *)
(* says, and on the way the ones behind them.                              *)
ListingHolds(t, from) ==
  LET had == Before(from) + t.offset
  IN  /\ t.offset \in Nat /\ t.size \in Nat /\ t.nextId \in Nat
      /\ Sequence(t.data) /\ t.offset <= Len(t.data) /\ Len(t.data) <= t.size
      /\ ~t.rip => t.offset = 0
      /\ t.rip =>
           /\ had <= Len(Entries) /\ Before(t.nextId) = had
           /\ \A i \in 1..t.offset : t.data[i] = Entries[Before(from) + i]
           /\ t.req = "sent" => t.asked = <<"from", t.nextId>>
           /\ Answered(t) =>
                /\ Sequence(t.reply) /\ had + Len(t.reply) <= Len(Entries)
                /\ \A i \in 1..Len(t.reply) : t.reply[i] = Entries[had + i]
                /\ t.req = "good" => had + Len(t.reply) = Len(Entries)

(* What a UDT has: its header and the first fields. *)
UdtHolds(t) ==
  /\ t.rip /\ ~t.fields =>
       /\ t.req = "sent" => t.asked = <<"meta">>
       /\ t.req = "good" => t.reply = <<0>>
  /\ t.rip /\ t.fields =>
       /\ t.offset \in 0..Len(Fields)
       /\ t.size = t.offset + 1 /\ t.data = <<0>> \o SubSeq(Fields, 1, t.offset)
       /\ t.req = "sent" => t.asked = <<"from", t.offset>>
       /\ Answered(t) =>
            /\ Sequence(t.reply) /\ t.offset + Len(t.reply) <= Len(Fields)
            /\ t.reply = SubSeq(Fields, t.offset + 1, t.offset + Len(t.reply))
            /\ t.req = "good" => t.offset + Len(t.reply) = Len(Fields)

(* A plain tag has as many items as its size says, and a fragment that has *)
(* come begins where the last one ended; Omron's begin at zero.            *)
PlainHolds(t) ==
  /\ t.offset \in Nat /\ t.size \in 0..2 /\ Sequence(t.data) /\ Len(t.data) = t.size
  /\ t.rip /\ t.req = "sent" => t.asked = <<"from", t.offset>>
  /\ t.rip /\ Answered(t) =>
       /\ Sequence(t.reply) /\ t.offset + Len(t.reply) <= 2
       /\ t.req = "good" => t.offset + Len(t.reply) = 2
  /\ t.kind \in PlainOmron => t.offset = IF t.wip THEN t.size ELSE 0

PcccHolds(t) == t.size \in Int /\ (t.req \notin {"none", "sent"} => Len(t.reply) \in Int)

(* What can become of a request: those in parts are as large as they must *)
(* be, and no answer of theirs is too short or too long.                   *)
AnswerKnown(t) ==
  t.kind \in {"listing", "udt"} \cup TypedKinds =>
    t.req \in {"none", "sent", "good", "part", "odd", "refused", "dead"}

(* What a tag holds of the PLC's data, while it is read from `from` on *)
Holds(t, from) ==
  /\ t.kind = "listing" => ListingHolds(t, from)
  /\ t.kind = "udt" => UdtHolds(t)
  /\ t.kind \in TypedKinds => PlainHolds(t)
  /\ t.kind \in PcccKinds => PcccHolds(t)
  /\ AnswerKnown(t)

DataInv ==
  /\ Holds(tag, first) /\ (tag.kind = "listing" => first \in Nat)
  /\ Sequence(plc) /\ Len(plc) = 2

(* What no error path takes from a tag *)
Bare(t) ==
  /\ t.kind = "listing" =>
       t.nextId \in Nat /\ t.size \in Nat /\ Sequence(t.data) /\ Len(t.data) <= t.size
  /\ t.kind \in TypedKinds =>
       t.offset \in Nat /\ t.size \in 0..2 /\ Sequence(t.data) /\ Len(t.data) = t.size
  /\ t.kind \in PcccKinds => t.size \in Int

(* u holds all that a read from `from` on is for, the last answer of which *)
(* was `reply`.                                                            *)
HasAll(u, reply, from) ==
  /\ u.kind = "listing" => IsPrefix(EntriesFrom(from), u.data) /\ u.size >= Len(EntriesFrom(from))
  /\ u.kind = "udt" => u.data = <<0>> \o Fields /\ u.size = Len(u.data)
  /\ u.kind \in PcccKinds => u.data = reply /\ u.size = Len(u.data)
  /\ u.kind \in PlainCip => u.size = 2 /\ Len(u.data) = 2
  /\ u.kind \in PlainOmron => u.data = reply /\ u.size = 2

-----------------------------------------------------------------------------
(* Where a listing goes on *)

IsBefore(n, id) ==
  n \in 0..Len(Entries) /\ \A i \in 1..Len(Entries) : i <= n <=> Entries[i] < id

(* The entries are ascending, so those before an ID are the first ones. *)
LEMMA BeforeIs ==
  ASSUME TagKindsAssumption, NEW id \in Int
  PROVE  IsBefore(Before(id), id)
<1>1. /\ Len(Entries) \in Nat
      /\ \A i \in 1..Len(Entries) : Entries[i] \in Int
      /\ \A i, j \in 1..Len(Entries) : i < j => Entries[i] < Entries[j]
  BY DEF TagKindsAssumption
<1>2. \E n : IsBefore(n, id)
  <2> DEFINE S == {i \in 1..Len(Entries) : Entries[i] >= id}
  <2>1. CASE S = {}
    <3>1. IsBefore(Len(Entries), id)
      BY <1>1, <2>1 DEF IsBefore
    <3> QED BY <3>1
  <2>2. CASE S # {}
    <3>0. S \subseteq Nat
      BY <1>1
    <3>1. PICK m \in S : \A y \in S : ~ (<<y, m>> \in OpToRel(<, Nat))
      BY <2>2, <3>0, NatLessThanWellFounded, WFMin
    <3>2. m \in 1..Len(Entries) /\ Entries[m] >= id /\ \A y \in S : ~ (y < m)
      BY <1>1, <3>0, <3>1 DEF OpToRel
    <3>3. ASSUME NEW i \in 1..Len(Entries) PROVE i <= m - 1 <=> Entries[i] < id
      BY <1>1, <3>2
    <3>4. IsBefore(m - 1, id)
      BY <1>1, <3>2, <3>3 DEF IsBefore
    <3> QED BY <3>4
  <2> QED BY <2>1, <2>2
<1>3. Before(id) = CHOOSE n : IsBefore(n, id)
  BY DEF Before, IsBefore
<1> QED BY <1>2, <1>3

LEMMA BeforeOnly ==
  ASSUME TagKindsAssumption, NEW id \in Int, NEW n, IsBefore(n, id)
  PROVE  Before(id) = n
<1>1. IsBefore(Before(id), id) /\ Len(Entries) \in Nat
  BY BeforeIs DEF TagKindsAssumption
<1>2. ~(n < Before(id)) /\ ~(Before(id) < n)
  BY <1>1 DEF IsBefore
<1> QED BY <1>1, <1>2 DEF IsBefore

(* Behind an entry come those of larger IDs. *)
LEMMA BeforeNext ==
  ASSUME TagKindsAssumption, NEW n \in 1..Len(Entries)
  PROVE  /\ (Entries[n] + 1) % IdRange = Entries[n] + 1
         /\ Before(Entries[n] + 1) = n
<1>1. /\ Len(Entries) \in Nat /\ IdRange \in Nat
      /\ \A i \in 1..Len(Entries) : Entries[i] \in 0..(IdRange - 2)
      /\ \A i, j \in 1..Len(Entries) : i < j => Entries[i] < Entries[j]
  BY SMTT(30) DEF TagKindsAssumption
<1>2. IsBefore(n, Entries[n] + 1)
  BY <1>1 DEF IsBefore
<1>3. (Entries[n] + 1) % IdRange = Entries[n] + 1
  <2>1. Entries[n] + 1 \in 0..(IdRange - 1)
    BY <1>1
  <2> HIDE DEF IsBefore
  <2>2. ASSUME NEW x \in Nat, NEW y \in Nat, x < y PROVE x % y = x
    BY <2>2
  <2> QED BY <1>1, <2>1, <2>2
<1> QED BY <1>1, <1>2, <1>3, BeforeOnly

(* What comes of d when r is laid over what follows position at *)
Over(d, r, at) == SubSeq(d, 1, at) \o r \o SubSeq(d, at + Len(r) + 1, Len(d))

LEMMA OverFacts ==
  ASSUME NEW T, NEW d \in Seq(T), NEW r \in Seq(T), NEW at \in Nat, at <= Len(d)
  PROVE  /\ Over(d, r, at) \in Seq(T)
         /\ Len(Over(d, r, at)) = IF at + Len(r) > Len(d) THEN at + Len(r) ELSE Len(d)
         /\ \A i \in 1..at : Over(d, r, at)[i] = d[i]
         /\ \A i \in 1..Len(r) : Over(d, r, at)[at + i] = r[i]
<1> DEFINE front == SubSeq(d, 1, at)
           back == SubSeq(d, at + Len(r) + 1, Len(d))
           some == front \o r
           c == some \o back
<1>1. front \in Seq(T) /\ Len(front) = at /\ \A i \in 1..at : front[i] = d[i]
  OBVIOUS
<1>b. back \in Seq(T)
  OBVIOUS
<1>2. Len(back) = IF at + Len(r) > Len(d) THEN 0 ELSE Len(d) - at - Len(r)
  OBVIOUS
<1> HIDE DEF front, back
<1>3. some \in Seq(T) /\ Len(some) = at + Len(r)
  <2>1. some \in Seq(T) /\ Len(some) = Len(front) + Len(r)
    BY <1>1, SMTT(30)
  <2>2. Len(front) = at
    BY <1>1
  <2> HIDE DEF some
  <2> QED BY <2>1, <2>2, SMTT(30)
<1>4. \A i \in 1..at : some[i] = d[i]
  BY <1>1
<1>5. \A i \in 1..Len(r) : some[at + i] = r[i]
  BY <1>1
<1> HIDE DEF some
<1>6. Len(r) \in Nat /\ Len(d) \in Nat
  OBVIOUS
<1>c. c \in Seq(T)
  BY <1>b, <1>3
<1>d. Len(c) = Len(some) + Len(back)
  BY <1>b, <1>3
<1>9. \A i \in 1..Len(some) : c[i] = some[i]
  BY <1>b, <1>3
<1> HIDE DEF c
<1>10. Len(c) = IF at + Len(r) > Len(d) THEN at + Len(r) ELSE Len(d)
  <2>1. PICK x \in Nat, y \in Nat : x = at + Len(r) /\ y = Len(d)
    BY <1>6
  <2>2. PICK z : z = Len(back)
    OBVIOUS
  <2>3. z = IF x > y THEN 0 ELSE y - x
    BY <1>2, <2>1, <2>2
  <2>4. Len(c) = x + z
    BY <1>3, <1>d, <2>1, <2>2
  <2>5. x + z = IF x > y THEN x ELSE y
    BY ONLY <2>3, x \in Nat, y \in Nat
  <2> QED BY <2>1, <2>4, <2>5
<1>7. \A i \in 1..at : c[i] = d[i]
  BY <1>3, <1>4, <1>6, <1>9
<1>8. \A i \in 1..Len(r) : c[at + i] = r[i]
  BY <1>3, <1>5, <1>6, <1>9
<1>11. Over(d, r, at) = c
  BY DEF Over, c, some, front, back
<1> QED BY <1>c, <1>10, <1>7, <1>8, <1>11

LEMMA CopiedFacts ==
  ASSUME NEW t, NEW at \in Nat, Sequence(t.data), Sequence(t.reply), at <= Len(t.data)
  PROVE  /\ Sequence(Copied(t, at)) /\ Len(t.data) \in Nat /\ Len(t.reply) \in Nat
         /\ Len(Copied(t, at)) = IF at + Len(t.reply) > Len(t.data) THEN at + Len(t.reply)
                                                                   ELSE Len(t.data)
         /\ \A i \in 1..at : Copied(t, at)[i] = t.data[i]
         /\ \A i \in 1..Len(t.reply) : Copied(t, at)[at + i] = t.reply[i]
<1>1. PICK T1, T2 : t.data \in Seq(T1) /\ t.reply \in Seq(T2)
  BY DEF Sequence
<1>2. t.data \in Seq(T1 \cup T2) /\ t.reply \in Seq(T1 \cup T2)
  BY <1>1
<1>3. PICK T : t.data \in Seq(T) /\ t.reply \in Seq(T)
  BY <1>2
<1>4. Len(t.data) \in Nat /\ Len(t.reply) \in Nat
  BY <1>3
<1>5. Copied(t, at) = Over(t.data, t.reply, at)
  BY DEF Copied, Over
<1>6. /\ Over(t.data, t.reply, at) \in Seq(T)
      /\ Len(Over(t.data, t.reply, at)) = IF at + Len(t.reply) > Len(t.data) THEN at + Len(t.reply)
                                                                   ELSE Len(t.data)
      /\ \A i \in 1..at : Over(t.data, t.reply, at)[i] = t.data[i]
      /\ \A i \in 1..Len(t.reply) : Over(t.data, t.reply, at)[at + i] = t.reply[i]
  BY <1>3, OverFacts, SMTT(30)
<1>7. Sequence(Copied(t, at))
  BY <1>5, <1>6 DEF Sequence
<1> QED BY <1>4, <1>5, <1>6, <1>7

-----------------------------------------------------------------------------
(* What aborts leave *)

LEMMA KindsApart ==
  ASSUME NEW k
  PROVE  /\ k \in PcccKinds => k \notin TypedKinds /\ k \notin {"listing", "udt", "lgx"} \cup RawKinds
         /\ k \in TypedKinds => k \notin {"listing", "udt", "lgx"} \cup RawKinds
         /\ k \in TypedKinds <=> k \in PlainCip \/ k \in PlainOmron
         /\ k \in PlainCip => k \notin PlainOmron
BY DEF PcccKinds, PlcKinds, DhpKinds, TypedKinds, PlainCip, PlainOmron, RawKinds

LEMMA HoldsBare ==
  ASSUME NEW t, NEW from, Holds(t, from)
  PROVE  Bare(t)
BY DEF Holds, Bare, ListingHolds, PlainHolds, PcccHolds

(* An aborted tag *)
Idle(t) == ~t.rip /\ ~t.wip /\ t.req = "none" /\ t.offset = 0

LEMMA IdleHolds ==
  ASSUME NEW t, NEW from, Bare(t), Idle(t)
  PROVE  Holds(t, from)
<1>1. t.kind = "listing" => ListingHolds(t, from)
  <2>1. ASSUME Sequence(t.data) PROVE Len(t.data) \in Nat
    BY <2>1 DEF Sequence
  <2> QED BY <2>1 DEF Bare, Idle, ListingHolds
<1>2. t.kind = "udt" => UdtHolds(t)
  BY DEF Idle, UdtHolds
<1>3. t.kind \in TypedKinds => PlainHolds(t)
  BY DEF Bare, Idle, PlainHolds, Answered
<1> QED BY <1>1, <1>2, <1>3 DEF Bare, Idle, Holds, PcccHolds, AnswerKnown

LEMMA AbortBare ==
  ASSUME NEW t, DOMAIN t = TagFields
  PROVE  /\ Idle(AbortRequest(t)) /\ Idle(OmronAbort(t)) /\ Idle(OmronAbortRequest(t))
         /\ Bare(t) => /\ Bare(AbortRequest(t)) /\ Bare(OmronAbort(t))
                       /\ Bare(OmronAbortRequest(t)) /\ Bare(AbortRequestOnly(t))
                       /\ Bare(OmronAbortRequestOnly(t))
<1>1. /\ AbortRequest(t) = [t EXCEPT !.req = "none", !.rip = FALSE, !.wip = FALSE, !.offset = 0]
      /\ OmronAbortRequest(t) = [t EXCEPT !.req = "none", !.rip = FALSE, !.wip = FALSE, !.offset = 0]
      /\ OmronAbort(t) = [t EXCEPT !.req = "none", !.rip = FALSE, !.wip = FALSE, !.offset = 0,
                                   !.status = "ABORT"]
  BY DEF TagFields, AbortRequest, AbortRequestOnly, OmronAbort, OmronAbortRequest,
     OmronAbortRequestOnly
<1>2. ASSUME NEW u, u.kind = t.kind, u.nextId = t.nextId, u.size = t.size, u.data = t.data,
             u.offset \in {0, t.offset}
      PROVE  Bare(t) => Bare(u)
  BY <1>2 DEF Bare
<1> DEFINE Off(u) == /\ u.kind = t.kind /\ u.nextId = t.nextId /\ u.size = t.size
                       /\ u.data = t.data /\ u.offset \in {0, t.offset}
<1>4. /\ Off(AbortRequest(t)) /\ Off(OmronAbort(t)) /\ Off(OmronAbortRequest(t))
      /\ Off(AbortRequestOnly(t)) /\ Off(OmronAbortRequestOnly(t))
  BY <1>1 DEF TagFields, AbortRequestOnly, OmronAbortRequestOnly
<1>5. Idle(AbortRequest(t)) /\ Idle(OmronAbort(t)) /\ Idle(OmronAbortRequest(t))
  BY <1>1 DEF TagFields, Idle
<1> QED BY <1>2, <1>4, <1>5

LEMMA AbortHolds ==
  ASSUME NEW t, NEW from, DOMAIN t = TagFields, Bare(t)
  PROVE  /\ Holds(AbortRequest(t), from) /\ Holds(OmronAbort(t), from)
         /\ Holds(OmronAbortRequest(t), from) /\ Holds(VtableAbort(t), from)
<1>1. /\ Holds(AbortRequest(t), from) /\ Holds(OmronAbort(t), from)
      /\ Holds(OmronAbortRequest(t), from)
  BY AbortBare, IdleHolds
<1> QED BY <1>1 DEF VtableAbort

(* What else there is in a tag does not matter. *)
Alike(t, u) ==
  /\ DOMAIN u = TagFields
  /\ u.kind = t.kind /\ u.rip = t.rip /\ u.wip = t.wip /\ u.req = t.req /\ u.offset = t.offset
  /\ u.nextId = t.nextId /\ u.fields = t.fields /\ u.data = t.data /\ u.size = t.size
  /\ t.rip \/ t.req # "none" => u.asked = t.asked /\ u.reply = t.reply

LEMMA AlikeHolds ==
  ASSUME NEW t, NEW u, NEW from, Alike(t, u), Holds(t, from)
  PROVE  Holds(u, from)
<1>1. /\ u.kind = t.kind /\ u.rip = t.rip /\ u.wip = t.wip /\ u.req = t.req /\ u.offset = t.offset
      /\ u.nextId = t.nextId /\ u.fields = t.fields /\ u.data = t.data /\ u.size = t.size
      /\ t.rip => u.asked = t.asked /\ u.reply = t.reply
      /\ t.req # "none" => u.asked = t.asked /\ u.reply = t.reply
  BY DEF Alike
<1>2. t.kind = "listing" => ListingHolds(u, from)
  <2>1. SUFFICES ASSUME t.kind = "listing", ListingHolds(t, from) PROVE ListingHolds(u, from)
    BY DEF Holds
  <2>2. CASE t.rip
    BY <1>1, <2>1, <2>2 DEF ListingHolds, Answered
  <2>3. CASE ~t.rip
    BY <1>1, <2>1, <2>3 DEF ListingHolds, Answered
  <2> QED BY <2>2, <2>3
<1>3. t.kind = "udt" => UdtHolds(u)
  BY <1>1, Zenon DEF Holds, UdtHolds, Answered
<1>4. t.kind \in TypedKinds => PlainHolds(u)
  BY <1>1, Zenon DEF Holds, PlainHolds, Answered
<1>5. t.kind \in PcccKinds => PcccHolds(u)
  BY <1>1, Zenon DEF Holds, PcccHolds
<1>6. AnswerKnown(u)
  BY <1>1, Zenon DEF Holds, AnswerKnown
<1> QED BY <1>1, <1>2, <1>3, <1>4, <1>5, <1>6, Zenon DEF Holds

LEMMA AlikeBare ==
  ASSUME NEW t, NEW u, Alike(t, u), Bare(t)
  PROVE  Bare(u)
BY DEF Alike, Bare

(* What the actions, and the ticklers after their checks, change besides *)
LEMMA FlagsAlike ==
  ASSUME NEW t, DOMAIN t = TagFields, NEW a, NEW b, NEW c, NEW d
  PROVE  /\ Alike(t, [t EXCEPT !.rif = a, !.status = b]) /\ Alike(t, [t EXCEPT !.wif = a, !.status = b])
         /\ Alike(t, [t EXCEPT !.abortReq = a]) /\ Alike(t, ClearFlight(t))
         /\ Alike(t, [t EXCEPT !.rif = a, !.rdone = b, !.wif = c, !.wdone = d])
         /\ Alike(t, [t EXCEPT !.rif = a, !.wif = b, !.rdone = c, !.wdone = d])
         /\ Alike(t, [t EXCEPT !.status = a, !.rdone = b]) /\ Alike(t, [t EXCEPT !.status = a, !.wdone = b])
         /\ Alike(t, [t EXCEPT !.status = a, !.rdone = b, !.firstRead = c])
         /\ Alike(t, [t EXCEPT !.rdone = b]) /\ Alike(t, [t EXCEPT !.wdone = b])
         /\ Alike(t, [t EXCEPT !.wif = a]) /\ Alike(t, [t EXCEPT !.status = a])
         /\ Alike(t, [t EXCEPT !.preRead = a])
BY DEF Alike, TagFields, ClearFlight

LEMMA KeptAlike ==
  ASSUME NEW t, Fits(t)
  PROVE  Alike(t, Kept(t))
BY DEF Alike, TagFields, Fits, Kept

-----------------------------------------------------------------------------
(* What starts leave *)

(* u has t's data still. *)
Behind(t, u) ==
  /\ DOMAIN u = TagFields /\ u.kind = t.kind
  /\ u.nextId = t.nextId /\ u.size = t.size /\ u.data = t.data

LEMMA BehindBare ==
  ASSUME NEW t, NEW u, Behind(t, u), Bare(t), u.offset \in Nat
  PROVE  Bare(u)
BY DEF Behind, Bare

LEMMA ListingBuilds ==
  ASSUME TagKindsAssumption, NEW t, NEW f, NEW from, DOMAIN t = TagFields, t.kind = "listing",
         ListingHolds([t EXCEPT !.rip = TRUE, !.req = "sent", !.asked = <<"from", t.nextId>>], from)
  PROVE  LET r == ListingBuildRead(t, f)
         IN  /\ Behind(t, r.tag) /\ r.rc # "PENDING"
             /\ r.rc = "OK" => Holds(r.tag, from) /\ r.tag.rip
<1> DEFINE r == ListingBuildRead(t, f)
           u == [t EXCEPT !.rip = TRUE, !.req = "sent", !.asked = <<"from", t.nextId>>]
<1>1. Behind(t, r.tag) /\ r.rc # "PENDING"
  BY DEF ListingBuildRead, Queued, Result, Code, AbortRequest, AbortRequestOnly, Behind, TagFields
<1>2. r.rc = "OK" => r.tag = u
  BY DEF ListingBuildRead, Queued, Result, Code, TagFields
<1>3. u.kind = "listing" /\ u.req = "sent" /\ u.rip
  BY DEF TagFields
<1> HIDE DEF u, r
<1>4. Holds(u, from)
  BY <1>3 DEF u, Holds, AnswerKnown, TypedKinds, PlainCip, PlainOmron, PcccKinds, PlcKinds, DhpKinds
<1> QED BY <1>1, <1>2, <1>3, <1>4 DEF r

(* A read starts from where the PLC's entries go on. *)
LEMMA ListingStartHolds ==
  ASSUME TagKindsAssumption, NEW t, NEW f, NEW from, Fits(t), t.kind = "listing", Holds(t, from)
  PROVE  LET r == ListingReadStart(t, f)
         IN  Bare(r.tag) /\ (r.rc = "PENDING" => Holds(r.tag, t.nextId))
<1> DEFINE begun == [t EXCEPT !.rip = TRUE]
           built == ListingBuildRead(begun, f)
           u == [begun EXCEPT !.rip = TRUE, !.req = "sent", !.asked = <<"from", begun.nextId>>]
<1>1. Bare(t) /\ DOMAIN t = TagFields
  BY HoldsBare DEF Fits
<1>2. CASE t.rip \/ t.wip
  BY <1>1, <1>2 DEF ListingReadStart, Result
<1>3. CASE ~t.rip /\ ~t.wip
  <2>1. /\ u.kind = "listing" /\ u.req = "sent" /\ u.rip /\ u.asked = <<"from", u.nextId>>
        /\ u.nextId = t.nextId /\ u.size = t.size /\ u.data = t.data /\ u.offset = t.offset
        /\ DOMAIN begun = TagFields /\ begun.kind = "listing"
    BY <1>1 DEF TagFields
  <2> HIDE DEF u
  <2>2. t.offset = 0 /\ t.nextId \in Nat
    BY <1>1, <1>3 DEF Holds, ListingHolds, Bare
  <2>3. Before(t.nextId) \in 0..Len(Entries) /\ Len(Entries) \in Nat
    <3>1. t.nextId \in Int
      BY <2>2
    <3>2. IsBefore(Before(t.nextId), t.nextId)
      BY <3>1, BeforeIs
    <3>3. Len(Entries) \in Nat
      BY DEF TagKindsAssumption
    <3> QED BY <3>2, <3>3 DEF IsBefore
  <2>4. ListingHolds(u, t.nextId)
    BY <2>1, <2>2, <2>3 DEF Holds, ListingHolds, Answered
  <2>5. Behind(begun, built.tag) /\ built.rc # "PENDING" /\ (built.rc = "OK" => Holds(built.tag, t.nextId))
    BY <2>1, <2>4, ListingBuilds DEF u
  <2>6. Behind(t, built.tag)
    BY <1>1, <2>5 DEF Behind, TagFields
  <2>7. ListingReadStart(t, f) = IF built.rc = "OK" THEN Result(built.tag, "PENDING")
                                 ELSE Result([built.tag EXCEPT !.rip = FALSE], built.rc)
    BY <1>3 DEF ListingReadStart
  <2> HIDE DEF built
  <2>8. Bare(built.tag) /\ Bare([built.tag EXCEPT !.rip = FALSE])
    BY <1>1, <2>6 DEF Behind, Bare, TagFields, TypedKinds, PlainCip, PlainOmron, PcccKinds, PlcKinds, DhpKinds
  <2> QED BY <2>5, <2>7, <2>8 DEF Result
<1> QED BY <1>2, <1>3 DEF Fits

LEMMA UdtStartHolds ==
  ASSUME NEW t, NEW f, NEW from, Fits(t), t.kind = "udt"
  PROVE  LET r == UdtReadStart(t, f)
         IN  Bare(r.tag) /\ (r.rc = "PENDING" => Holds(r.tag, from))
<1> DEFINE r == UdtReadStart(t, f)
<1>1. /\ r.tag.kind = "udt"
      /\ r.rc = "PENDING" => r.tag.req = "sent" /\ r.tag.asked = <<"meta">> /\ ~r.tag.fields
  BY DEF UdtReadStart, UdtBuildMeta, Queued, Result, Code, AbortRequest, AbortRequestOnly,
     Fits, TagFields
<1> HIDE DEF r
<1> QED BY <1>1 DEF r, Bare, Holds, UdtHolds, AnswerKnown, TypedKinds, PlainCip, PlainOmron,
       PcccKinds, PlcKinds, DhpKinds

(* A plain tag that nothing is done with may be read or written. *)
LEMMA CipReadHolds ==
  ASSUME NEW t, NEW f, NEW from, Fits(t), t.kind \in PlainCip, Bare(t)
  PROVE  LET r == CipReadStart(t, f)
         IN  Bare(r.tag) /\ (~(t.rip \/ t.wip) => Holds(r.tag, from))
<1> DEFINE r == CipReadStart(t, f)
<1>1. Behind(t, r.tag) /\ r.tag.offset \in {0, t.offset}
  BY DEF CipReadStart, BuildReadConnected, BuildReadUnconnected, Built, Queued, Result, Code,
     AbortRequest, AbortRequestOnly, Fits, TagFields, Behind
<1>2. ~(t.rip \/ t.wip) => \/ r.tag.req = "sent" /\ r.tag.asked = <<"from", r.tag.offset>>
                           \/ r.tag.req = "none" /\ ~r.tag.rip
  BY DEF CipReadStart, BuildReadConnected, BuildReadUnconnected, Built, Queued, Result, Code,
     AbortRequest, AbortRequestOnly, Fits, TagFields
<1> HIDE DEF r
<1>3. /\ t.kind \in TypedKinds /\ t.kind \notin PlainOmron
      /\ t.kind \notin {"listing", "udt"} /\ t.kind \notin PcccKinds
  BY KindsApart
<1>4. Bare(r.tag)
  BY <1>1, <1>3, BehindBare DEF Bare
<1>5. ~(t.rip \/ t.wip) => Holds(r.tag, from)
  BY <1>1, <1>2, <1>3, <1>4 DEF Behind, Bare, Holds, PlainHolds, AnswerKnown, Answered
<1> QED BY <1>4, <1>5 DEF r

LEMMA CipWriteHolds ==
  ASSUME NEW t, NEW f, NEW from, Fits(t), t.kind \in PlainCip, Bare(t)
  PROVE  LET r == CipWriteStart(t, f)
         IN  Bare(r.tag) /\ (~(t.rip \/ t.wip) => Holds(r.tag, from))
<1> DEFINE r == CipWriteStart(t, f)
           first0 == [t EXCEPT !.preRead = TRUE]
<1>1. CASE t.rip \/ t.wip
  BY <1>1 DEF CipWriteStart, Result
<1>2. CASE ~(t.rip \/ t.wip) /\ t.firstRead
  <2>1. Fits(first0) /\ first0.kind \in PlainCip /\ Bare(first0) /\ ~(first0.rip \/ first0.wip)
    BY <1>2, FlagsAlike, AlikeBare DEF Fits, TagFields
  <2>2. r = CipReadStart(first0, f)
    BY <1>2 DEF CipWriteStart
  <2> QED BY <2>1, <2>2, CipReadHolds
<1>3. CASE ~(t.rip \/ t.wip) /\ ~t.firstRead
  <2>1. t.offset \in Nat /\ t.size \in Nat
    <3>1. t.offset \in Nat /\ t.size \in 0..2
      BY ZenonT(40) DEF TypedKinds, Bare
    <3> QED BY <3>1
  <2>2. /\ Behind(t, r.tag) /\ r.tag.offset \in {0, t.offset, t.offset + 1, t.size}
        /\ ~r.tag.rip /\ r.tag.req \in {"none", "sent"}
    BY <1>3, ZenonT(120) DEF CipWriteStart, BuildWriteConnected, BuildWriteUnconnected, BuildWriteBitConnected,
       BuildWriteBitUnconnected, WriteRoom, Built, Queued, Result, Code, AbortRequest,
       AbortRequestOnly, Fits, TagFields, Behind
  <2> HIDE DEF r
  <2>3. /\ t.kind \in TypedKinds /\ t.kind \notin PlainOmron
        /\ t.kind \notin {"listing", "udt"} /\ t.kind \notin PcccKinds
    BY KindsApart
  <2>4. Bare(r.tag)
    BY <2>1, <2>2, BehindBare
  <2>5. Holds(r.tag, from)
    BY <2>1, <2>2, <2>3, <2>4 DEF Behind, Bare, Holds, PlainHolds, AnswerKnown, Answered
  <2> QED BY <2>4, <2>5 DEF r
<1> QED BY <1>1, <1>2, <1>3

LEMMA OmronReadHolds ==
  ASSUME NEW t, NEW f, NEW from, Fits(t), t.kind \in PlainOmron, Bare(t)
  PROVE  LET r == OmronReadStart(t, f)
         IN  /\ Bare(r.tag)
             /\ ~(t.rip \/ t.wip) /\ t.offset = 0 => Holds(r.tag, from)
<1> DEFINE r == OmronReadStart(t, f)
<1>1. Behind(t, r.tag) /\ r.tag.offset = t.offset
  BY DEF OmronReadStart, OmronBuildRead, OmronBuilt, Queued, Result, Fits, TagFields, Behind
<1>2. ~(t.rip \/ t.wip) => /\ ~r.tag.wip
                           /\ \/ r.tag.req = "sent" /\ r.tag.asked = <<"from", 0>>
                              \/ r.tag.req = "none" /\ ~r.tag.rip
  BY DEF OmronReadStart, OmronBuildRead, OmronBuilt, Queued, Result, Fits, TagFields
<1> HIDE DEF r
<1>3. t.kind \in TypedKinds /\ t.kind \notin {"listing", "udt"} /\ t.kind \notin PcccKinds
  BY KindsApart
<1>4. Bare(r.tag)
  BY <1>1, <1>3, BehindBare DEF Bare
<1>5. ~(t.rip \/ t.wip) /\ t.offset = 0 => Holds(r.tag, from)
  BY <1>1, <1>2, <1>3, <1>4 DEF Behind, Bare, Holds, PlainHolds, AnswerKnown, Answered
<1> QED BY <1>4, <1>5 DEF r

LEMMA OmronWriteHolds ==
  ASSUME NEW t, NEW f, NEW from, Fits(t), t.kind \in PlainOmron, Bare(t)
  PROVE  LET r == OmronWriteStart(t, f)
         IN  /\ Bare(r.tag)
             /\ ~(t.rip \/ t.wip) /\ t.offset = 0 /\ r.rc = "PENDING" => Holds(r.tag, from)
<1> DEFINE r == OmronWriteStart(t, f)
           first0 == [t EXCEPT !.preRead = TRUE]
<1>1. CASE t.rip \/ t.wip
  BY <1>1 DEF OmronWriteStart, Result
<1>2. CASE ~(t.rip \/ t.wip) /\ t.firstRead
  <2>1. /\ Fits(first0) /\ first0.kind \in PlainOmron /\ Bare(first0) /\ ~(first0.rip \/ first0.wip)
        /\ first0.offset = t.offset
    BY <1>2, FlagsAlike, AlikeBare DEF Fits, TagFields
  <2>2. r = OmronReadStart(first0, f)
    BY <1>2 DEF OmronWriteStart
  <2> QED BY <2>1, <2>2, OmronReadHolds
<1>3. CASE ~(t.rip \/ t.wip) /\ ~t.firstRead
  <2>1. t.offset \in Nat /\ t.size \in Nat
    BY KindsApart, SMTT(30) DEF Bare
  <2>2. /\ Behind(t, r.tag) /\ r.tag.offset \in {0, t.offset, t.size}
        /\ ~r.tag.rip
        /\ r.rc = "PENDING" => r.tag.req = "sent" /\ r.tag.wip /\ r.tag.offset = t.size
    BY <1>3 DEF OmronWriteStart, OmronBuildWrite, OmronBuildWriteBit, OmronBuilt, WriteRoom, Built,
       Queued, Result, Code, AbortRequest, AbortRequestOnly, Fits, TagFields, Behind
  <2> HIDE DEF r
  <2>3. t.kind \in TypedKinds /\ t.kind \notin {"listing", "udt"} /\ t.kind \notin PcccKinds
    BY KindsApart
  <2>4. Bare(r.tag)
    BY <2>1, <2>2, BehindBare
  <2>5. r.rc = "PENDING" => Holds(r.tag, from)
    BY <2>1, <2>2, <2>3, <2>4 DEF Behind, Bare, Holds, PlainHolds, AnswerKnown, Answered
  <2> QED BY <2>4, <2>5 DEF r
<1> QED BY <1>1, <1>2, <1>3

(* Of raw tags and those of a ControlLogix nothing is said. *)
LEMMA LooseHolds ==
  ASSUME NEW t, NEW from, t.kind \in {"lgx"} \cup RawKinds
  PROVE  Holds(t, from) /\ Bare(t)
<1>1. t.kind \notin {"listing", "udt"} /\ t.kind \notin TypedKinds /\ t.kind \notin PcccKinds
  BY KindsApart DEF RawKinds
<1> QED BY <1>1 DEF Holds, Bare, AnswerKnown

LEMMA PcccSized ==
  ASSUME NEW t, NEW from, t.kind \in PcccKinds, t.size \in Int,
         t.req \notin {"none", "sent"} => Len(t.reply) \in Int
  PROVE  Holds(t, from) /\ Bare(t)
<1>1. t.kind \notin {"listing", "udt"} /\ t.kind \notin TypedKinds
  BY KindsApart
<1> QED BY <1>1 DEF Holds, Bare, AnswerKnown, PcccHolds

LEMMA PcccStartHolds ==
  ASSUME NEW t, NEW from, NEW r, t.kind \in PcccKinds, Holds(t, from),
         r.tag.kind = t.kind, r.tag.size = t.size, r.rc = "PENDING" => r.tag.req = "sent"
  PROVE  Bare(r.tag) /\ (r.rc = "PENDING" => Holds(r.tag, t.nextId) /\ Holds(r.tag, from))
<1>1. t.size \in Int
  BY DEF Holds, PcccHolds
<1>2. t.kind \notin {"listing", "udt"} /\ t.kind \notin TypedKinds
  BY KindsApart
<1>3. Bare(r.tag)
  BY <1>1, <1>2 DEF Bare
<1> QED BY <1>1, <1>3, PcccSized

LEMMA ReadStartHolds ==
  ASSUME TagKindsAssumption, NEW t, NEW f, NEW from, Fits(t), KindKnown(t), Holds(t, from)
  PROVE  LET r == ReadStart(t, f)
         IN  Bare(r.tag) /\ (r.rc = "PENDING" => Holds(r.tag, t.nextId))
<1> DEFINE r == ReadStart(t, f)
<1>1. Bare(t) /\ r.tag.kind = t.kind
  BY HoldsBare, ReadStarts DEF Started, From
<1>2. CASE t.kind \in {"lgx"} \cup RawKinds
  BY <1>1, <1>2, LooseHolds
<1>3. CASE t.kind = "listing"
  <2>1. r = ListingReadStart(t, f)
    BY <1>3 DEF ReadStart, RawKinds, PlainCip, PlainOmron, PlcKinds
  <2> QED BY <1>3, <2>1, ListingStartHolds
<1>4. CASE t.kind = "udt"
  <2>1. r = UdtReadStart(t, f)
    BY <1>4 DEF ReadStart, RawKinds, PlainCip, PlainOmron, PlcKinds
  <2> QED BY <1>4, <2>1, UdtStartHolds
<1>5. CASE t.kind \in PlainCip
  <2>1. r = CipReadStart(t, f)
    BY <1>5 DEF ReadStart, RawKinds, PlainCip, PlainOmron, PlcKinds
  <2>2. r.rc = "PENDING" => ~(t.rip \/ t.wip)
    BY <2>1 DEF CipReadStart, Result, Fits
  <2> QED BY <1>1, <1>5, <2>1, <2>2, CipReadHolds
<1>6. CASE t.kind \in PlainOmron
  <2>1. r = OmronReadStart(t, f)
    BY <1>6 DEF ReadStart, RawKinds, PlainCip, PlainOmron, PlcKinds
  <2>2. r.rc = "PENDING" => ~(t.rip \/ t.wip)
    BY <2>1 DEF OmronReadStart, Result, Fits
  <2>3. ~(t.rip \/ t.wip) => t.offset = 0
    BY <1>6, KindsApart DEF Holds, PlainHolds
  <2> QED BY <1>1, <1>6, <2>1, <2>2, <2>3, OmronReadHolds
<1>7. CASE t.kind \in PcccKinds
  <2>1. r = PcccReadStart(t, f)
    BY <1>7 DEF ReadStart, RawKinds, PlainCip, PlainOmron, PcccKinds, PlcKinds, DhpKinds, DhpReadStart
  <2>2. r.tag.size = t.size /\ (r.rc = "PENDING" => r.tag.req = "sent")
    BY <2>1 DEF PcccReadStart, PcccStarted, PcccBuilt, Queued, Result, Code, AbortRequest,
       AbortRequestOnly, Fits, TagFields
  <2> HIDE DEF r
  <2>3. Bare(r.tag) /\ (r.rc = "PENDING" => Holds(r.tag, t.nextId))
    BY <1>1, <1>7, <2>2, PcccStartHolds
  <2> QED BY <2>3 DEF r
<1> QED BY <1>2, <1>3, <1>4, <1>5, <1>6, <1>7 DEF KindKnown, TypedKinds

LEMMA WriteStartHolds ==
  ASSUME TagKindsAssumption, NEW t, NEW f, NEW from, Fits(t), KindKnown(t), Holds(t, from)
  PROVE  LET r == WriteStart(t, f)
         IN  Bare(r.tag) /\ (r.rc = "PENDING" => Holds(r.tag, from))
<1> DEFINE r == WriteStart(t, f)
<1>1. Bare(t) /\ r.tag.kind = t.kind
  BY HoldsBare, WriteStarts DEF Started, From
<1>2. CASE t.kind \in {"lgx"} \cup RawKinds
  BY <1>1, <1>2, LooseHolds
<1>3. CASE t.kind \in {"listing", "udt"}
  <2>1. r = Result(t, "NOT_IMPLEMENTED")
    BY <1>3 DEF WriteStart, RawKinds, PlainCip, PlainOmron, PlcKinds
  <2> QED BY <1>1, <2>1 DEF Result
<1>5. CASE t.kind \in PlainCip
  <2>1. r = CipWriteStart(t, f)
    BY <1>5 DEF WriteStart, RawKinds, PlainCip, PlainOmron, PlcKinds
  <2>2. r.rc = "PENDING" => ~(t.rip \/ t.wip)
    BY <2>1 DEF CipWriteStart, Result, Fits
  <2> QED BY <1>1, <1>5, <2>1, <2>2, CipWriteHolds
<1>6. CASE t.kind \in PlainOmron
  <2>1. r = OmronWriteStart(t, f)
    BY <1>6 DEF WriteStart, RawKinds, PlainCip, PlainOmron, PlcKinds
  <2>2. r.rc = "PENDING" => ~(t.rip \/ t.wip)
    BY <2>1 DEF OmronWriteStart, Result, Fits
  <2>3. ~(t.rip \/ t.wip) => t.offset = 0
    BY <1>6, KindsApart DEF Holds, PlainHolds
  <2> QED BY <1>1, <1>6, <2>1, <2>2, <2>3, OmronWriteHolds
<1>7. CASE t.kind \in PcccKinds
  <2>1. \E rc, keep, set : r = PcccWritten(t, rc, keep, set) /\ rc # "PENDING"
    <3>1. PcccBuilt(t, f, {"nomem", "large", "add"}) # "PENDING"
      BY DEF PcccBuilt, Code
    <3>2. r \in {PcccWriteStart(t, f), DhpWriteStart(t, f)}
      BY <1>7 DEF WriteStart, PlainCip, PlainOmron, PcccKinds, PlcKinds, DhpKinds
    <3> QED BY <3>1, <3>2 DEF PcccWriteStart, DhpWriteStart, DhpPlc5WriteBitStart,
            DhpSlcWriteBitStart, Plc5WriteBitStart, SlcWriteBitStart
  <2> HIDE DEF r
  <2>2. r.tag.size = t.size /\ (r.rc = "PENDING" => r.tag.req = "sent")
    BY <2>1 DEF PcccWritten, PcccStarted, Queued, Result, IsError, AbortRequest,
       AbortRequestOnly, Fits, TagFields
  <2>3. Bare(r.tag) /\ (r.rc = "PENDING" => Holds(r.tag, from))
    BY <1>1, <1>7, <2>2, PcccStartHolds
  <2> QED BY <2>3 DEF r
<1> QED BY <1>2, <1>3, <1>5, <1>6, <1>7 DEF KindKnown, TypedKinds

-----------------------------------------------------------------------------
(* What ticklers leave *)

(* A read that is in progress is answered. *)
Ready(t) == t.rip => t.req \notin {"none", "sent", "dead"}

LEMMA CheckHolds ==
  ASSUME NEW t, NEW from, Fits(t), Holds(t, from), NEW c,
         \/ c = CheckRequest(t)
         \/ c = OmronCheckRequest(t)
  PROVE  /\ Holds(c.tag, from) /\ Fitting(t, c.tag)
         /\ c.rc # "OK" => c.tag.status # "OK"
         /\ c.rc = "OK" => Alike(t, c.tag) /\ Ready(c.tag)
<1>1. DOMAIN t = TagFields /\ Bare(t)
  BY HoldsBare DEF Fits
<1>2. PICK v : /\ c = Result([v EXCEPT !.status = c.rc], c.rc)
               /\ \/ v = t /\ (c.rc = "OK" => ~t.abortReq /\ t.req \notin {"sent", "dead"})
                  \/ /\ c.rc # "OK"
                     /\ v \in {[AbortRequest(t) EXCEPT !.abortReq = FALSE], AbortRequest(t),
                               [AbortRequest(t) EXCEPT !.status = "ABORT"],
                               [OmronAbort(t) EXCEPT !.abortReq = FALSE], OmronAbort(t)}
  BY <1>1 DEF CheckRequest, OmronCheckRequest, TagAbort, Result, Fits
<1>3. Fitting(t, c.tag)
  BY CheckFits
<1>c. c.tag = [v EXCEPT !.status = c.rc]
  BY <1>2 DEF Result
<1>4. CASE v = t
  <2>1. Alike(t, c.tag)
    BY <1>1, <1>c, <1>4 DEF Alike, TagFields
  <2>2. Holds(c.tag, from) /\ (c.rc # "OK" => c.tag.status # "OK")
    BY <1>1, <1>2, <1>4, <2>1, AlikeHolds DEF Result, TagFields
  <2>3. c.rc = "OK" => Ready(c.tag)
    BY <1>2, <1>4, <2>1 DEF Alike, Ready, Fits
  <2> QED BY <1>3, <2>1, <2>2, <2>3
<1>5. CASE v # t
  <2>1. /\ DOMAIN v = TagFields /\ c.rc # "OK"
        /\ \/ Alike(AbortRequest(t), v)
           \/ Alike(OmronAbort(t), v)
    BY <1>1, <1>2, <1>5, AbortFits, FlagsAlike DEF Fitting, Fits, Alike, TagFields
  <2>2. Holds(v, from)
    BY <1>1, <2>1, AbortFits, AbortHolds, AlikeHolds DEF Fitting
  <2>3. Fits(v) 
    BY <1>1, <2>1, AbortFits DEF Fitting, Fits, Alike
  <2>4. Alike(v, c.tag) /\ c.tag.status = c.rc
    BY <1>c, <2>1 DEF Alike, TagFields
  <2> QED BY <1>3, <2>1, <2>2, <2>3, <2>4, AlikeHolds
<1> QED BY <1>4, <1>5

(* The tickler adds its flags to what a check function leaves. *)
Ends(t, u, from) ==
  /\ Holds(u, from)
  /\ t.rip /\ ~u.rip /\ u.status = "OK" => HasAll(u, t.reply, from)

LEMMA AlikeAll ==
  ASSUME NEW u, NEW v, NEW reply, NEW from, Alike(u, v), HasAll(u, reply, from)
  PROVE  HasAll(v, reply, from)
BY DEF Alike, HasAll

LEMMA ReadEnds ==
  ASSUME NEW t, NEW r, NEW from, NEW d, NEW x, DOMAIN r.tag = TagFields, Holds(r.tag, from),
         r.rc = "OK" /\ ~r.tag.rip => HasAll(r.tag, t.reply, from)
  PROVE  /\ Ends(t, [r.tag EXCEPT !.status = r.rc, !.rdone = d], from)
         /\ Ends(t, [r.tag EXCEPT !.status = r.rc, !.rdone = d, !.firstRead = x], from)
<1> DEFINE u == [r.tag EXCEPT !.status = r.rc, !.rdone = d]
           v == [r.tag EXCEPT !.status = r.rc, !.rdone = d, !.firstRead = x]
<1>1. /\ Alike(r.tag, u) /\ Alike(r.tag, v) /\ u.status = r.rc /\ v.status = r.rc
      /\ u.rip = r.tag.rip /\ v.rip = r.tag.rip
  BY FlagsAlike DEF TagFields
<1> HIDE DEF u, v
<1>2. Holds(u, from) /\ Holds(v, from)
  BY <1>1, AlikeHolds
<1>3. r.rc = "OK" /\ ~r.tag.rip => HasAll(u, t.reply, from) /\ HasAll(v, t.reply, from)
  BY <1>1, AlikeAll
<1>4. Ends(t, u, from) /\ Ends(t, v, from)
  BY <1>1, <1>2, <1>3 DEF Ends
<1> QED BY <1>4, ZenonT(40) DEF u, v

LEMMA ListedHas ==
  ASSUME TagKindsAssumption, NEW t, NEW from \in Nat, DOMAIN t = TagFields, t.rip, Answered(t),
         ListingHolds(t, from)
  PROVE  LET u == Listed(t)
             had == Before(from) + u.offset
         IN  /\ DOMAIN u = TagFields /\ u.kind = t.kind
             /\ u.offset \in Nat /\ u.size \in Nat /\ u.nextId \in Nat
             /\ Sequence(u.data) /\ u.offset <= Len(u.data) /\ Len(u.data) <= u.size
             /\ had <= Len(Entries) /\ Before(u.nextId) = had
             /\ \A i \in 1..u.offset : u.data[i] = Entries[Before(from) + i]
             /\ t.req = "good" => had = Len(Entries)
<1> DEFINE u == Listed(t)
           n == t.offset + Len(t.reply)
           had == Before(from) + t.offset
<1>1. /\ t.offset \in Nat /\ t.size \in Nat /\ t.nextId \in Nat
      /\ Sequence(t.data) /\ t.offset <= Len(t.data) /\ Len(t.data) <= t.size
      /\ had <= Len(Entries) /\ Before(t.nextId) = had
      /\ \A i \in 1..t.offset : t.data[i] = Entries[Before(from) + i]
      /\ Sequence(t.reply) /\ had + Len(t.reply) <= Len(Entries)
      /\ \A i \in 1..Len(t.reply) : t.reply[i] = Entries[had + i]
      /\ t.req = "good" => had + Len(t.reply) = Len(Entries)
  BY DEF ListingHolds
<1>2. /\ Len(Entries) \in Nat /\ \A i \in 1..Len(Entries) : Entries[i] \in Nat
  BY DEF TagKindsAssumption
<1>3. Before(from) \in Nat
  BY BeforeIs DEF IsBefore
<1>4. /\ Sequence(Copied(t, t.offset)) /\ Len(t.data) \in Nat /\ Len(t.reply) \in Nat
      /\ Len(Copied(t, t.offset)) = IF n > Len(t.data) THEN n ELSE Len(t.data)
      /\ \A i \in 1..t.offset : Copied(t, t.offset)[i] = t.data[i]
      /\ \A i \in 1..Len(t.reply) : Copied(t, t.offset)[t.offset + i] = t.reply[i]
  BY <1>1, CopiedFacts
<1>5. /\ DOMAIN u = TagFields /\ u.kind = t.kind /\ u.data = Copied(t, t.offset)
      /\ u.size = IF n > t.size THEN n ELSE t.size
      /\ u.offset = n
      /\ u.nextId = IF t.reply = <<>> THEN t.nextId ELSE (Last(t.reply) + 1) % IdRange
  BY DEF Listed, TagFields
<1> HIDE DEF u
<1>r. PICK o \in Nat, k \in Nat, d \in Nat, z \in Nat :
        o = t.offset /\ k = Len(t.reply) /\ d = Len(t.data) /\ z = t.size
  BY <1>1, <1>4
<1>6. n \in Nat /\ n <= Len(u.data) /\ Len(u.data) <= u.size /\ u.size \in Nat
  <2>1. /\ n = o + k /\ d <= z /\ o <= d
        /\ Len(u.data) = IF n > d THEN n ELSE d
        /\ u.size = IF n > z THEN n ELSE z
    BY <1>1, <1>4, <1>5, <1>r
  <2> HIDE DEF n
  <2> QED BY <2>1
<1>7. Before(from) + n = had + Len(t.reply) /\ had \in Nat
  BY <1>3, <1>r, SMTT(30)
<1> HIDE DEF had
<1>8. u.nextId \in Nat /\ Before(u.nextId) = had + Len(t.reply)
  <2>1. CASE t.reply = <<>>
    BY <1>1, <1>5, <1>7, <2>1
  <2>2. CASE t.reply # <<>>
    <3>1. Len(t.reply) > 0
      BY <1>1, <2>2 DEF Sequence
    <3>2. Last(t.reply) = Entries[had + Len(t.reply)] /\ had + Len(t.reply) \in 1..Len(Entries)
      BY <1>1, <1>2, <1>4, <1>7, <3>1, SMTT(30) DEF Last
    <3>3. /\ (Entries[had + Len(t.reply)] + 1) % IdRange = Entries[had + Len(t.reply)] + 1
          /\ Before(Entries[had + Len(t.reply)] + 1) = had + Len(t.reply)
      BY <3>2, BeforeNext
    <3> QED BY <1>2, <1>5, <2>2, <3>2, <3>3
  <2> QED BY <2>1, <2>2
<1>9. ASSUME NEW i \in 1..n PROVE u.data[i] = Entries[Before(from) + i]
  <2>1. CASE i <= t.offset
    BY <1>1, <1>4, <1>5, <2>1
  <2>2. CASE i > t.offset
    <3>1. PICK j \in 1..Len(t.reply) : i = t.offset + j
      <4>1. n = o + k /\ i > o /\ i \in 1..n
        BY <1>r, <2>2
      <4> HIDE DEF n
      <4>2. i - o \in 1..k /\ i = o + (i - o)
        BY <4>1
      <4>3. PICK j \in 1..k : i = o + j
        BY <4>2
      <4> QED BY <1>r, <4>3
    <3>2. u.data[i] = t.reply[j]
      BY <1>4, <1>5, <3>1
    <3>3. had + j = Before(from) + i
      BY <1>1, <1>3, <1>4, <3>1 DEF had
    <3> QED BY <1>1, <3>2, <3>3
  <2> QED BY <1>1, <2>1, <2>2
<1>10. Before(from) + u.offset = had + Len(t.reply)
  BY <1>5, <1>7
<1> QED BY <1>1, <1>4, <1>5, <1>6, <1>8, <1>9, <1>10 DEF u

(* A part of a sequence, item by item *)
LEMMA PartFacts ==
  ASSUME NEW T, NEW s \in Seq(T), NEW b \in Nat, NEW n \in Nat, b + n <= Len(s)
  PROVE  /\ SubSeq(s, b + 1, b + n) \in Seq(T) /\ Len(SubSeq(s, b + 1, b + n)) = n
         /\ \A i \in 1..n : SubSeq(s, b + 1, b + n)[i] = s[b + i]
<1>1. SubSeq(s, b + 1, b + n) \in Seq(T)
  OBVIOUS
<1>2. Len(SubSeq(s, b + 1, b + n)) = n
  OBVIOUS
<1>3. \A i \in 1..n : SubSeq(s, b + 1, b + n)[i] = s[b + i]
  OBVIOUS
<1> QED BY <1>1, <1>2, <1>3

(* The tag listing, once its entries are in the tag's data *)
LEMMA ListingReads ==
  ASSUME TagKindsAssumption, NEW t, NEW f, NEW from \in Nat, Fits(t), t.kind = "listing",
         Holds(t, from), Ready(t)
  PROVE  Ends(t, ListingTickler(t, f), from)
<1> DEFINE grows == t.offset + Len(t.reply) > t.size
           got   == CASE t.req = "odd"     -> Result(t, "BAD_DATA")
                      [] t.req = "refused" -> Result(t, "REMOTE")
                      [] t.req \in {"good", "part"} /\ f = "buffer" /\ grows ->
                           Result([t EXCEPT !.size = t.offset + Len(t.reply)], "NO_MEM")
                      [] OTHER -> Result(Listed(t), "OK")
           done  == AbortRequestOnly(got.tag)
           whole == [done EXCEPT !.offset = 0, !.nextId = 0, !.rip = FALSE]
           next  == CASE got.rc = "OK" /\ t.req = "part" -> ListingBuildRead(done, f)
                      [] got.rc = "OK" /\ t.req = "good" -> Result(whole, "OK")
                      [] OTHER -> Result(done, got.rc)
           read  == ListingCheckRead(t, f)
<1>1. DOMAIN t = TagFields /\ Bare(t) /\ ListingHolds(t, from)
  BY HoldsBare DEF Fits, Holds
<1>2. CASE t.rip
  <2>1. Answered(t) \/ t.req \in {"odd", "refused"}
    BY <1>2 DEF Ready, Holds, AnswerKnown, Answered
  <2>2. read = IF IsError(next.rc) THEN Result(AbortRequest([next.tag EXCEPT !.nextId = 0]), next.rc)
               ELSE next
    BY DEF ListingCheckRead
  <2>3. DOMAIN got.tag = TagFields /\ Bare(got.tag) /\ got.tag.kind = "listing" /\ got.rc # "PENDING"
    <3>1. CASE got.tag = t /\ got.rc # "PENDING"
      BY <1>1, <3>1
    <3>2. CASE /\ got.tag = [t EXCEPT !.size = t.offset + Len(t.reply)] /\ got.rc = "NO_MEM"
               /\ Answered(t) /\ grows
      <4>1. Len(t.reply) \in Nat /\ t.offset \in Nat /\ Len(t.data) \in Nat /\ Len(t.data) <= t.size
            /\ t.size \in Nat /\ t.nextId \in Nat /\ Sequence(t.data)
        BY <1>1, <1>2, <3>2 DEF ListingHolds, Sequence
      <4>2. t.offset + Len(t.reply) \in Nat /\ Len(t.data) <= t.offset + Len(t.reply)
        BY <3>2, <4>1
      <4>3. got.tag.size = t.offset + Len(t.reply) /\ got.tag.data = t.data
            /\ got.tag.nextId = t.nextId /\ got.tag.kind = "listing" /\ DOMAIN got.tag = TagFields
        BY <1>1, <3>2 DEF TagFields
      <4> HIDE DEF got
      <4>4. Bare(got.tag)
        BY <4>1, <4>2, <4>3, KindsApart DEF Bare
      <4> QED BY <3>2, <4>3, <4>4
    <3>3. CASE got.tag = Listed(t) /\ got.rc = "OK" /\ Answered(t)
      <4>1. /\ DOMAIN Listed(t) = TagFields /\ Listed(t).kind = t.kind
            /\ Listed(t).size \in Nat /\ Listed(t).nextId \in Nat /\ Sequence(Listed(t).data)
            /\ Len(Listed(t).data) <= Listed(t).size
        BY <1>1, <1>2, <3>3, ListedHas
      <4> HIDE DEF got
      <4>2. Bare(got.tag)
        BY <3>3, <4>1, KindsApart DEF Bare
      <4> QED BY <3>3, <4>1, <4>2
    <3> QED BY <2>1, <3>1, <3>2, <3>3, Zenon DEF Result, Answered
  <2>4. got.rc = "OK" => got.tag = Listed(t) /\ Answered(t)
    BY <2>1 DEF Result, Answered
  <2> HIDE DEF got
  <2>5. /\ DOMAIN done = TagFields /\ Bare(done) /\ done.kind = "listing"
        /\ done.offset = got.tag.offset /\ done.size = got.tag.size /\ done.data = got.tag.data
        /\ done.nextId = got.tag.nextId /\ ~done.rip /\ ~done.wip /\ done.req = "none"
    BY <2>3, AbortBare, ZenonT(60) DEF AbortRequestOnly, TagFields
  <2> HIDE DEF done
  <2>6. ASSUME got.rc = "OK", t.req = "part"
        PROVE  /\ Behind(done, ListingBuildRead(done, f).tag)
               /\ ListingBuildRead(done, f).rc = "OK" =>
                    Holds(ListingBuildRead(done, f).tag, from) /\ ListingBuildRead(done, f).tag.rip
    <3> DEFINE u == [done EXCEPT !.rip = TRUE, !.req = "sent", !.asked = <<"from", done.nextId>>]
    <3>1. /\ u.rip /\ u.req = "sent" /\ u.asked = <<"from", u.nextId>>
          /\ u.offset = got.tag.offset /\ u.size = got.tag.size /\ u.data = got.tag.data
          /\ u.nextId = got.tag.nextId
      BY <2>5 DEF TagFields
    <3>2. ListingHolds(u, from)
      <4> HIDE DEF u
      <4>1. got.tag = Listed(t) /\ Answered(t)
        BY <2>4, <2>6
      <4>2. /\ u.offset \in Nat /\ u.size \in Nat /\ u.nextId \in Nat
            /\ Sequence(u.data) /\ u.offset <= Len(u.data) /\ Len(u.data) <= u.size
            /\ Before(from) + u.offset <= Len(Entries) /\ Before(u.nextId) = Before(from) + u.offset
            /\ \A i \in 1..u.offset : u.data[i] = Entries[Before(from) + i]
        BY <1>1, <1>2, <3>1, <4>1, ListedHas
      <4> QED BY <3>1, <4>2 DEF ListingHolds, Answered
    <3> QED BY <2>5, <3>2, ListingBuilds
  <2>7. ASSUME got.rc = "OK", t.req = "good"
        PROVE  Holds(whole, from) /\ HasAll(whole, t.reply, from) /\ DOMAIN whole = TagFields
    <3>1. /\ whole.offset = 0 /\ whole.nextId = 0 /\ ~whole.rip /\ ~whole.wip
          /\ whole.size = got.tag.size /\ whole.data = got.tag.data /\ whole.req = "none"
          /\ whole.kind = "listing" /\ DOMAIN whole = TagFields
      BY <2>5 DEF TagFields
    <3> HIDE DEF whole
    <3>2. Bare(whole)
      BY <2>3, <3>1, KindsApart DEF Bare
    <3>3. Holds(whole, from)
      BY <3>1, <3>2, IdleHolds DEF Idle
    <3>4. got.tag = Listed(t) /\ Answered(t)
      BY <2>4, <2>7
    <3>5. PICK n \in Nat : n = Listed(t).offset
      BY <1>1, <1>2, <3>4, ListedHas
    <3>6. /\ n <= Len(whole.data) /\ Len(whole.data) <= whole.size /\ Sequence(whole.data)
          /\ Before(from) + n = Len(Entries) /\ whole.size \in Nat
          /\ \A i \in 1..n : whole.data[i] = Entries[Before(from) + i]
      BY <1>1, <1>2, <2>7, <3>1, <3>4, <3>5, ListedHas
    <3>7. Entries \in Seq(Nat) /\ Len(Entries) \in Nat
      BY DEF TagKindsAssumption
    <3>8. Before(from) \in Nat
      BY BeforeIs DEF IsBefore
    <3>9. PICK all : all = EntriesFrom(from)
      OBVIOUS
    <3>10. /\ Len(all) = n /\ \A i \in 1..n : all[i] = Entries[Before(from) + i]
           /\ all \in Seq(Nat)
      <4>1. PICK b \in Nat : b = Before(from) /\ b + n = Len(Entries)
        BY <3>6, <3>8
      <4>2. all = SubSeq(Entries, b + 1, b + n)
        BY <3>9, <4>1 DEF EntriesFrom
      <4>3. Entries \in Seq(Nat) /\ n \in Nat /\ b + n <= Len(Entries)
        BY <3>7, <4>1
      <4>4. all \in Seq(Nat) /\ Len(all) = n /\ \A i \in 1..n : all[i] = Entries[b + i]
        BY <4>2, <4>3, PartFacts
      <4> QED BY <4>1, <4>4
    <3>11. Len(whole.data) \in Nat
      BY <3>6 DEF Sequence
    <3>12. IsPrefix(all, whole.data)
      <4>1. PICK T : whole.data \in Seq(T)
        BY <3>6 DEF Sequence
      <4>2. SubSeq(all, 1, Len(all)) = SubSeq(whole.data, 1, Len(all))
        BY <3>6, <3>10, <3>11, <4>1, SMTT(30)
      <4> QED BY <3>6, <3>10, <4>2 DEF IsPrefix
    <3>13. whole.size >= Len(all)
      BY <3>6, <3>10, <3>11
    <3>14. HasAll(whole, t.reply, from)
      BY <3>1, <3>9, <3>12, <3>13, KindsApart DEF HasAll
    <3> QED BY <3>1, <3>3, <3>14
  <2> HIDE DEF whole
  <2>8. /\ DOMAIN next.tag = TagFields /\ Bare(next.tag) /\ next.rc # "PENDING"
        /\ next.rc = "OK" => Holds(next.tag, from)
        /\ next.rc = "OK" /\ ~next.tag.rip => HasAll(next.tag, t.reply, from)
        /\ next.tag.kind = "listing"
    <3>1. CASE got.rc = "OK" /\ t.req = "part"
      <4>1. next = ListingBuildRead(done, f)
        BY <3>1
      <4>2. Behind(done, next.tag) /\ next.rc # "PENDING"
        BY <2>6, <3>1, <4>1 DEF ListingBuildRead, Result, Code
      <4>3. DOMAIN next.tag = TagFields /\ Bare(next.tag) /\ next.tag.kind = "listing"
        BY <2>5, <4>2, KindsApart DEF Behind, Bare
      <4> QED BY <2>6, <3>1, <4>1, <4>2, <4>3
    <3>2. CASE got.rc = "OK" /\ t.req = "good"
      <4>1. next = Result(whole, "OK")
        BY <3>2
      <4>2. next.tag = whole /\ next.rc = "OK"
        BY <4>1 DEF Result
      <4>3. whole.kind = "listing"
        BY <2>5 DEF whole, TagFields
      <4> QED BY <2>7, <3>2, <4>2, <4>3, HoldsBare
    <3>3. CASE got.rc # "OK"
      <4>1. next = Result(done, got.rc)
        BY <3>3
      <4> QED BY <2>3, <2>5, <3>3, <4>1 DEF Result
    <3> QED BY <2>4, <3>1, <3>2, <3>3 DEF Answered
  <2> HIDE DEF next
  <2>9. /\ DOMAIN read.tag = TagFields /\ Holds(read.tag, from)
        /\ read.rc = "OK" /\ ~read.tag.rip => HasAll(read.tag, t.reply, from)
    <3>1. CASE IsError(next.rc)
      <4>1. DOMAIN [next.tag EXCEPT !.nextId = 0] = TagFields /\ Bare([next.tag EXCEPT !.nextId = 0])
        BY <2>8, KindsApart DEF Bare, TagFields
      <4>2. read.rc = next.rc /\ read.tag = AbortRequest([next.tag EXCEPT !.nextId = 0])
        BY <2>2, <3>1 DEF Result
      <4> QED BY <3>1, <4>1, <4>2, AbortHolds, AbortFits DEF IsError, Fitting, Fits
    <3>2. CASE ~IsError(next.rc)
      BY <2>2, <2>8, <3>2 DEF IsError
    <3> QED BY <3>1, <3>2
  <2>10. ListingTickler(t, f) = [read.tag EXCEPT !.status = read.rc, !.rdone = @ \/ ~read.tag.rip]
    BY <1>2 DEF ListingTickler, Fits
  <2> HIDE DEF read
  <2>11. PICK d : d = (read.tag.rdone \/ ~read.tag.rip)
    OBVIOUS
  <2>12. ListingTickler(t, f) = [read.tag EXCEPT !.status = read.rc, !.rdone = d]
    BY <2>10, <2>11
  <2>13. Ends(t, [read.tag EXCEPT !.status = read.rc, !.rdone = d], from)
    BY <2>9, ReadEnds, Zenon
  <2> QED BY <2>12, <2>13
<1>3. CASE ~t.rip
  <2>1. CASE t.wip
    <3>1. ListingTickler(t, f) = [AbortRequest(t) EXCEPT !.wdone = TRUE]
      BY <2>1 DEF ListingTickler
    <3>2. Alike(AbortRequest(t), ListingTickler(t, f))
      BY <1>1, <3>1, AbortFits DEF Fitting, Fits, Alike, TagFields
    <3> QED BY <1>1, <1>3, <3>2, AlikeHolds, AbortHolds DEF Ends
  <2>2. CASE ~t.wip
    BY <1>3, <2>2 DEF ListingTickler, Ends
  <2> QED BY <2>1, <2>2
<1> QED BY <1>2, <1>3

(* Sequences of the same items are the same. *)
LEMMA SameItems ==
  ASSUME NEW s, NEW r, Sequence(s), Sequence(r), Len(s) = Len(r),
         \A i \in 1..Len(s) : s[i] = r[i]
  PROVE  s = r
<1>1. PICK T1, T2 : s \in Seq(T1) /\ r \in Seq(T2)
  BY DEF Sequence
<1>2. s \in Seq(T1 \cup T2) /\ r \in Seq(T1 \cup T2)
  BY <1>1
<1> QED BY <1>2

(* A UDT's header and its first m fields *)
Described(m) == <<0>> \o SubSeq(Fields, 1, m)

LEMMA DescribedFacts ==
  ASSUME TagKindsAssumption, NEW m \in 0..Len(Fields)
  PROVE  /\ Sequence(Described(m)) /\ Len(Described(m)) = m + 1
         /\ Described(m)[1] = 0 /\ \A i \in 1..m : Described(m)[i + 1] = Fields[i]
<1>1. Fields \in Seq(Nat)
  BY DEF TagKindsAssumption
<1>2. PICK s : s = SubSeq(Fields, 1, m)
  OBVIOUS
<1>3. s \in Seq(Nat) /\ Len(s) = m /\ \A i \in 1..m : s[i] = Fields[i]
  <2>1. Len(Fields) \in Nat /\ m \in Nat
    BY <1>1
  <2>2. 0 + m <= Len(Fields) /\ 0 \in Nat /\ SubSeq(Fields, 0 + 1, 0 + m) = s
    BY <1>2, <2>1
  <2>3. s \in Seq(Nat) /\ Len(s) = m /\ \A i \in 1..m : s[i] = Fields[0 + i]
    BY <1>1, <2>1, <2>2, PartFacts, SMTT(30)
  <2> QED BY <2>1, <2>3
<1>4. Described(m) = <<0>> \o s
  BY <1>2 DEF Described
<1>5. <<0>> \o s \in Seq(Nat)
  BY <1>3
<1>6. Len(<<0>> \o s) = m + 1
  BY <1>3
<1>7. (<<0>> \o s)[1] = 0
  BY <1>3
<1>8. \A i \in 1..m : (<<0>> \o s)[i + 1] = Fields[i]
  BY <1>3
<1> QED BY <1>4, <1>5, <1>6, <1>7, <1>8 DEF Sequence

LEMMA UdtGot ==
  ASSUME TagKindsAssumption, NEW t, UdtHolds(t), t.rip, t.fields, Answered(t)
  PROVE  /\ Len(t.reply) \in Nat /\ t.offset \in Nat /\ t.offset + Len(t.reply) \in 0..Len(Fields)
         /\ t.size = t.offset + 1
         /\ Copied(t, t.offset + 1) = Described(t.offset + Len(t.reply))
         /\ t.req = "good" => t.offset + Len(t.reply) = Len(Fields)
<1>1. /\ t.offset \in 0..Len(Fields) /\ t.size = t.offset + 1 /\ t.data = Described(t.offset)
      /\ Sequence(t.reply) /\ t.offset + Len(t.reply) <= Len(Fields)
      /\ t.reply = SubSeq(Fields, t.offset + 1, t.offset + Len(t.reply))
      /\ t.req = "good" => t.offset + Len(t.reply) = Len(Fields)
  BY DEF UdtHolds, Described
<1>2. PICK b \in Nat, n \in Nat, l \in Nat : b = t.offset /\ n = Len(t.reply) /\ l = Len(Fields)
  <2>1. Len(Fields) \in Nat
    BY DEF TagKindsAssumption
  <2>2. Len(t.reply) \in Nat
    BY <1>1 DEF Sequence
  <2> QED BY <1>1, <2>1, <2>2
<1>3. \A i \in 1..n : t.reply[i] = Fields[b + i]
  <2>1. Fields \in Seq(Nat) /\ b + n <= Len(Fields)
    BY <1>1, <1>2 DEF TagKindsAssumption
  <2>2. \A i \in 1..n : SubSeq(Fields, b + 1, b + n)[i] = Fields[b + i]
    BY <2>1, PartFacts
  <2>3. t.reply = SubSeq(Fields, b + 1, b + n)
    BY <1>1, <1>2
  <2> QED BY <2>2, <2>3
<1>4. b \in 0..Len(Fields) /\ b + n \in 0..Len(Fields)
  <2>1. b \in 0..l /\ b + n <= l
    BY <1>1, <1>2
  <2> QED BY <1>2, <2>1
<1>5. /\ Sequence(t.data) /\ Len(t.data) = b + 1
      /\ t.data[1] = 0 /\ \A i \in 1..b : t.data[i + 1] = Fields[i]
  <2>1. t.data = Described(b)
    BY <1>1, <1>2
  <2>2. /\ Sequence(Described(b)) /\ Len(Described(b)) = b + 1
        /\ Described(b)[1] = 0 /\ \A i \in 1..b : Described(b)[i + 1] = Fields[i]
    BY <1>4, DescribedFacts
  <2> QED BY <2>1, <2>2
<1>6. /\ Sequence(Described(b + n)) /\ Len(Described(b + n)) = b + n + 1
      /\ Described(b + n)[1] = 0 /\ \A i \in 1..(b + n) : Described(b + n)[i + 1] = Fields[i]
  BY <1>4, DescribedFacts
<1>7. PICK c : c = Copied(t, b + 1)
  OBVIOUS
<1>8. /\ Sequence(c) /\ Len(c) = IF b + 1 + n > b + 1 THEN b + 1 + n ELSE b + 1
      /\ \A i \in 1..(b + 1) : c[i] = t.data[i]
      /\ \A i \in 1..n : c[b + 1 + i] = t.reply[i]
  <2>1. b + 1 \in Nat /\ b + 1 <= Len(t.data)
    BY <1>5
  <2>2. PICK at \in Nat : at = b + 1 /\ at = Len(t.data)
    BY <1>5, <2>1
  <2>3. /\ Sequence(Copied(t, at))
        /\ Len(Copied(t, at)) = IF at + Len(t.reply) > Len(t.data) THEN at + Len(t.reply)
                                                                  ELSE Len(t.data)
        /\ \A i \in 1..at : Copied(t, at)[i] = t.data[i]
        /\ \A i \in 1..Len(t.reply) : Copied(t, at)[at + i] = t.reply[i]
    <3>1. Sequence(t.data) /\ Sequence(t.reply) /\ at <= Len(t.data)
      BY <1>1, <1>5, <2>2
    <3> QED BY <3>1, CopiedFacts
  <2> QED BY <1>2, <1>7, <2>2, <2>3
<1>9. Len(c) = b + n + 1
  BY <1>8
<1>10. PICK w : w = Described(b + n)
  OBVIOUS
<1>11. ASSUME NEW i \in 1..(b + n + 1) PROVE c[i] = w[i]
  <2>1. CASE i = 1
    <3>1. 1 \in 1..(b + 1)
      OBVIOUS
    <3> QED BY <1>5, <1>6, <1>8, <1>10, <2>1, <3>1
  <2>2. CASE i \in 2..(b + 1)
    <3>1. PICK j \in 1..b : i = j + 1
      <4>1. i - 1 \in 1..b /\ i = (i - 1) + 1
        BY <2>2
      <4> QED BY <4>1
    <3>2. c[i] = Fields[j]
      BY <1>5, <1>8, <3>1
    <3>3. w[i] = Fields[j]
      BY <1>6, <1>10, <3>1
    <3> QED BY <3>2, <3>3
  <2>3. CASE i > b + 1
    <3>1. PICK j \in 1..n : i = b + 1 + j
      <4>1. i - b - 1 \in 1..n /\ i = b + 1 + (i - b - 1)
        BY <2>3
      <4> QED BY <4>1
    <3>2. c[i] = Fields[b + j]
      BY <1>3, <1>8, <3>1
    <3>3. b + j \in 1..(b + n) /\ (b + j) + 1 = i
      BY <3>1
    <3>4. w[i] = Fields[b + j]
      BY <1>6, <1>10, <3>3
    <3> QED BY <3>2, <3>4
  <2> QED BY <2>1, <2>2, <2>3
<1>12. c = w
  BY <1>6, <1>8, <1>9, <1>10, <1>11, SameItems
<1> QED BY <1>1, <1>2, <1>4, <1>7, <1>10, <1>12

LEMMA AllDescribed ==
  ASSUME TagKindsAssumption
  PROVE  /\ Described(Len(Fields)) = <<0>> \o Fields /\ Len(Fields) \in Nat
         /\ Len(<<0>> \o Fields) = Len(Fields) + 1
<1>1. Fields \in Seq(Nat)
  BY DEF TagKindsAssumption
<1>2. SubSeq(Fields, 1, Len(Fields)) = Fields
  BY <1>1
<1> QED BY <1>1, <1>2 DEF Described

(* For a UDT only what is said of UDTs matters. *)
LEMMA UdtKind ==
  ASSUME NEW t, NEW from, t.kind = "udt"
  PROVE  /\ Bare(t)
         /\ Holds(t, from) <=> UdtHolds(t) /\ AnswerKnown(t)
         /\ AnswerKnown(t) <=> t.req \in {"none", "sent", "good", "part", "odd", "refused", "dead"}
<1>1. t.kind \notin TypedKinds /\ t.kind \notin PcccKinds
  BY KindsApart
<1> QED BY <1>1 DEF Bare, Holds, AnswerKnown

LEMMA UdtBuilt ==
  ASSUME NEW t, NEW f, DOMAIN t = TagFields, t.kind = "udt"
  PROVE  /\ LET c == UdtBuildMeta(t, f)
            IN  /\ DOMAIN c.tag = TagFields /\ c.tag.kind = "udt"
                /\ \/ IsError(c.rc)
                   \/ /\ c.rc = "OK" /\ c.tag.rip /\ c.tag.req = "sent" /\ c.tag.asked = <<"meta">>
                      /\ c.tag.fields = t.fields
         /\ LET c == Pending(UdtBuildFields(t, f))
            IN  /\ DOMAIN c.tag = TagFields /\ c.tag.kind = "udt" /\ c.rc # "OK"
                /\ \/ IsError(c.rc)
                   \/ /\ c.tag.rip /\ c.tag.req = "sent" /\ c.tag.asked = <<"from", t.offset>>
                      /\ c.tag.fields = t.fields /\ c.tag.offset = t.offset
                      /\ c.tag.size = t.size /\ c.tag.data = t.data
<1>1. LET c == UdtBuildMeta(t, f)
      IN  /\ DOMAIN c.tag = TagFields /\ c.tag.kind = "udt"
          /\ \/ IsError(c.rc)
             \/ /\ c.rc = "OK" /\ c.tag.rip /\ c.tag.req = "sent" /\ c.tag.asked = <<"meta">>
                /\ c.tag.fields = t.fields
  BY DEF UdtBuildMeta, Queued, Result, Code, IsError, AbortRequest, AbortRequestOnly, TagFields
<1>2. LET c == UdtBuildFields(t, f)
      IN  /\ DOMAIN c.tag = TagFields /\ c.tag.kind = "udt"
          /\ \/ IsError(c.rc) /\ c.rc # "OK"
             \/ /\ c.rc = "OK" /\ c.tag.rip /\ c.tag.req = "sent" /\ c.tag.asked = <<"from", t.offset>>
                /\ c.tag.fields = t.fields /\ c.tag.offset = t.offset
                /\ c.tag.size = t.size /\ c.tag.data = t.data
  BY DEF UdtBuildFields, Queued, Result, Code, IsError, AbortRequest, AbortRequestOnly, TagFields
<1> QED BY <1>1, <1>2 DEF Pending, Result

(* What a check function has to leave, for the tickler *)
Checked(t, r, from) ==
  /\ DOMAIN r.tag = TagFields /\ Holds(r.tag, from)
  /\ r.rc = "OK" /\ ~r.tag.rip => HasAll(r.tag, t.reply, from)

LEMMA UdtEnded ==
  ASSUME NEW t, NEW c, NEW from, DOMAIN c.tag = TagFields, c.tag.kind = "udt",
         ~IsError(c.rc) => Checked(t, c, from)
  PROVE  Checked(t, UdtEnd(c), from)
<1>1. CASE IsError(c.rc)
  <2>1. DOMAIN [c.tag EXCEPT !.fields = FALSE] = TagFields /\ [c.tag EXCEPT !.fields = FALSE].kind = "udt"
    BY DEF TagFields
  <2>2. UdtEnd(c).tag = AbortRequest([c.tag EXCEPT !.fields = FALSE]) /\ UdtEnd(c).rc # "OK"
    BY <1>1 DEF UdtEnd, Result, IsError
  <2>3. PICK v : v = [c.tag EXCEPT !.fields = FALSE]
    OBVIOUS
  <2>4. Holds(AbortRequest(v), from) /\ DOMAIN AbortRequest(v) = TagFields
    <3>1. DOMAIN v = TagFields /\ Bare(v)
      BY <2>1, <2>3, UdtKind
    <3>2. Fits(AbortRequest(v))
      BY <3>1, AbortFits DEF Fitting
    <3> QED BY <3>1, <3>2, AbortHolds DEF Fits
  <2> QED BY <2>2, <2>3, <2>4 DEF Checked
<1>2. CASE ~IsError(c.rc)
  BY <1>2 DEF UdtEnd
<1> QED BY <1>1, <1>2

LEMMA UdtMetaChecked ==
  ASSUME TagKindsAssumption, NEW t, NEW f, NEW from, Fits(t), t.kind = "udt", UdtHolds(t), t.rip,
         ~t.fields, Answered(t) \/ t.req \in {"odd", "refused"}
  PROVE  Checked(t, UdtCheckMeta(t, f), from)
<1> DEFINE old  == AbortRequest(t)
           done == AbortRequest([t EXCEPT !.data = t.reply, !.size = 1])
           more == [done EXCEPT !.fields = TRUE]
           c == CASE t.req \in {"odd", "refused"} -> Result(old, Refusal(t))
                  [] t.req = "part" -> UdtBuildMeta(old, f)
                  [] t.req = "good" /\ f = "buffer" -> Result(old, "NO_MEM")
                  [] OTHER -> Pending(UdtBuildFields(more, f))
<1>1. /\ DOMAIN old = TagFields /\ old.kind = "udt" /\ ~old.fields
  BY DEF AbortRequest, AbortRequestOnly, Fits, TagFields
<1>2. /\ DOMAIN more = TagFields /\ more.kind = "udt" /\ more.fields
      /\ more.data = t.reply /\ more.size = 1 /\ more.offset = 0
  BY DEF AbortRequest, AbortRequestOnly, Fits, TagFields
<1> HIDE DEF old, more
<1>3. /\ c.tag.kind = "udt" /\ DOMAIN c.tag = TagFields /\ (c.rc = "OK" => c.tag.rip)
      /\ ~IsError(c.rc) => Holds(c.tag, from)
  <2>1. CASE t.req \in {"odd", "refused"}
    <3>1. c = Result(old, Refusal(t))
      BY <2>1
    <3> QED BY <1>1, <3>1 DEF Result, IsError, Refusal
  <2>2. CASE t.req = "part"
    <3>1. c = UdtBuildMeta(old, f)
      BY <2>2
    <3>2. /\ DOMAIN c.tag = TagFields /\ c.tag.kind = "udt"
          /\ \/ IsError(c.rc)
             \/ c.rc = "OK" /\ c.tag.rip /\ c.tag.req = "sent" /\ c.tag.asked = <<"meta">> /\ ~c.tag.fields
      <4> HIDE DEF c
      <4> QED BY <1>1, <3>1, UdtBuilt
    <3> HIDE DEF c
    <3>3. ~IsError(c.rc) => UdtHolds(c.tag) /\ c.tag.req = "sent"
      BY <3>2 DEF UdtHolds
    <3> QED BY <3>2, <3>3, UdtKind DEF IsError
  <2>3. CASE t.req = "good" /\ f = "buffer"
    <3>1. c = Result(old, "NO_MEM")
      BY <2>3
    <3> QED BY <1>1, <3>1 DEF Result, IsError
  <2>4. CASE t.req = "good" /\ f # "buffer"
    <3>1. c = Pending(UdtBuildFields(more, f))
      BY <2>4
    <3>2. /\ DOMAIN c.tag = TagFields /\ c.tag.kind = "udt" /\ c.rc # "OK"
          /\ \/ IsError(c.rc)
             \/ /\ c.tag.rip /\ c.tag.req = "sent" /\ c.tag.asked = <<"from", 0>> /\ c.tag.fields
                /\ c.tag.offset = 0 /\ c.tag.size = 1 /\ c.tag.data = t.reply
      <4> HIDE DEF c
      <4> QED BY <1>2, <3>1, UdtBuilt
    <3>3. t.reply = <<0>>
      BY <2>4 DEF UdtHolds
    <3>4. Len(Fields) \in Nat /\ <<0>> = <<0>> \o SubSeq(Fields, 1, 0)
      BY DEF TagKindsAssumption
    <3> HIDE DEF c
    <3>5. ~IsError(c.rc) => UdtHolds(c.tag) /\ c.tag.req = "sent"
      <4>1. SUFFICES ASSUME ~IsError(c.rc) PROVE UdtHolds(c.tag) /\ c.tag.req = "sent"
        OBVIOUS
      <4>2. /\ c.tag.offset \in 0..Len(Fields) /\ c.tag.size = c.tag.offset + 1
            /\ c.tag.data = <<0>> \o SubSeq(Fields, 1, c.tag.offset)
            /\ c.tag.asked = <<"from", c.tag.offset>>
        <5>1. /\ c.tag.offset = 0 /\ c.tag.size = 1 /\ c.tag.data = t.reply
              /\ c.tag.asked = <<"from", 0>>
          BY <3>2, <4>1
        <5>2. 0 \in 0..Len(Fields) /\ 1 = 0 + 1
          BY <3>4
        <5>3. c.tag.offset \in 0..Len(Fields) /\ c.tag.size = c.tag.offset + 1
          BY <5>1, <5>2
        <5>4. c.tag.data = <<0>> \o SubSeq(Fields, 1, c.tag.offset)
          BY <3>3, <3>4, <5>1, Zenon
        <5> QED BY <5>1, <5>3, <5>4
      <4>3. c.tag.fields /\ c.tag.req = "sent"
        BY <3>2, <4>1
      <4>4. UdtHolds(c.tag)
        BY <4>2, <4>3 DEF UdtHolds, Answered
      <4> QED BY <4>3, <4>4
    <3> QED BY <3>2, <3>5, UdtKind
  <2> QED BY <2>1, <2>2, <2>3, <2>4 DEF Answered
<1>4. UdtCheckMeta(t, f) = UdtEnd(c)
  BY DEF UdtCheckMeta, old, more
<1> HIDE DEF c
<1>5. ~IsError(c.rc) => Checked(t, c, from)
  BY <1>3 DEF Checked
<1> QED BY <1>3, <1>4, <1>5, UdtEnded

LEMMA UdtFieldsChecked ==
  ASSUME TagKindsAssumption, NEW t, NEW f, NEW from, Fits(t), t.kind = "udt", UdtHolds(t), t.rip,
         t.fields, Answered(t) \/ t.req \in {"odd", "refused"}
  PROVE  Checked(t, UdtCheckFields(t, f), from)
<1> DEFINE old == AbortRequestOnly(t)
           n   == t.offset + Len(t.reply)
           got == [t EXCEPT !.data = Copied(t, t.offset + 1), !.size = @ + Len(t.reply),
                            !.offset = @ + Len(t.reply)]
           more == AbortRequestOnly(got)
           last == [more EXCEPT !.fields = FALSE, !.offset = 0]
           c == CASE t.req \in {"odd", "refused"} -> Result(old, Refusal(t))
                  [] t.req \in {"good", "part"} /\ f = "buffer" /\ t.reply # <<>> ->
                       Result(old, "NO_MEM")
                  [] t.req = "part" /\ (f = "buffer" => t.reply = <<>>) ->
                       Pending(UdtBuildFields(more, f))
                  [] OTHER -> Result(last, "OK")
<1>1. DOMAIN old = TagFields /\ old.kind = "udt"
  BY DEF AbortRequestOnly, Fits, TagFields
<1>2. /\ DOMAIN more = TagFields /\ more.kind = "udt" /\ more.fields
      /\ more.data = Copied(t, t.offset + 1) /\ more.size = t.size + Len(t.reply) /\ more.offset = n
      /\ DOMAIN last = TagFields /\ last.kind = "udt" /\ last.data = Copied(t, t.offset + 1)
      /\ last.size = t.size + Len(t.reply) /\ ~last.rip /\ last.req = "none"
  BY DEF AbortRequestOnly, Fits, TagFields
<1>3. Answered(t) => /\ n \in 0..Len(Fields) /\ t.size + Len(t.reply) = n + 1
                     /\ Copied(t, t.offset + 1) = Described(n)
                     /\ t.req = "good" => n = Len(Fields)
  BY UdtGot
<1> HIDE DEF old, more, last, n
<1>4. /\ c.tag.kind = "udt" /\ DOMAIN c.tag = TagFields
      /\ ~IsError(c.rc) => Holds(c.tag, from)
      /\ c.rc = "OK" => HasAll(c.tag, t.reply, from)
  <2>1. CASE t.req \in {"odd", "refused"}
    <3>1. c = Result(old, Refusal(t))
      BY <2>1
    <3> QED BY <1>1, <3>1 DEF Result, IsError, Refusal
  <2>2. CASE Answered(t) /\ f = "buffer" /\ t.reply # <<>>
    <3>1. c = Result(old, "NO_MEM")
      BY <2>2 DEF Answered
    <3> QED BY <1>1, <3>1 DEF Result, IsError
  <2>3. CASE t.req = "part" /\ ~(f = "buffer" /\ t.reply # <<>>)
    <3>1. c = Pending(UdtBuildFields(more, f))
      BY <2>3
    <3>2. /\ DOMAIN c.tag = TagFields /\ c.tag.kind = "udt" /\ c.rc # "OK"
          /\ \/ IsError(c.rc)
             \/ /\ c.tag.rip /\ c.tag.req = "sent" /\ c.tag.asked = <<"from", more.offset>> /\ c.tag.fields
                /\ c.tag.offset = more.offset /\ c.tag.size = more.size /\ c.tag.data = more.data
      <4> HIDE DEF c
      <4> QED BY <1>2, <3>1, UdtBuilt
    <3> HIDE DEF c
    <3>3. ~IsError(c.rc) => UdtHolds(c.tag) /\ c.tag.req = "sent"
      BY <1>2, <1>3, <2>3, <3>2, ZenonT(60) DEF UdtHolds, Answered, Described
    <3> QED BY <3>2, <3>3, UdtKind
  <2>4. CASE t.req = "good" /\ ~(f = "buffer" /\ t.reply # <<>>)
    <3>1. c = Result(last, "OK")
      BY <2>4
    <3>2. c.tag = last /\ c.rc = "OK"
      BY <3>1 DEF Result
    <3>3. last.data = Described(Len(Fields)) /\ last.size = Len(Fields) + 1
      BY <1>2, <1>3, <2>4 DEF Answered
    <3>4. last.data = <<0>> \o Fields /\ last.size = Len(last.data)
      BY <3>3, AllDescribed
    <3>5. HasAll(last, t.reply, from)
      BY <1>2, <3>4, KindsApart DEF HasAll
    <3>6. Holds(last, from)
      BY <1>2, UdtKind DEF UdtHolds
    <3> QED BY <1>2, <3>2, <3>5, <3>6
  <2> QED BY <2>1, <2>2, <2>3, <2>4 DEF Answered
<1>5. UdtCheckFields(t, f) = UdtEnd(c)
  BY DEF UdtCheckFields, old, more, last
<1> HIDE DEF c
<1>6. ~IsError(c.rc) => Checked(t, c, from)
  BY <1>4 DEF Checked
<1> QED BY <1>4, <1>5, <1>6, UdtEnded

LEMMA ReadTicked ==
  ASSUME NEW t, NEW r, NEW from, Checked(t, r, from), NEW u, NEW d, NEW x,
         \/ u = [r.tag EXCEPT !.status = r.rc, !.rdone = d]
         \/ u = [r.tag EXCEPT !.status = r.rc, !.rdone = d, !.firstRead = x]
  PROVE  Ends(t, u, from)
<1>1. DOMAIN r.tag = TagFields /\ Holds(r.tag, from)
      /\ (r.rc = "OK" /\ ~r.tag.rip => HasAll(r.tag, t.reply, from))
  BY DEF Checked
<1>2. /\ Ends(t, [r.tag EXCEPT !.status = r.rc, !.rdone = d], from)
      /\ Ends(t, [r.tag EXCEPT !.status = r.rc, !.rdone = d, !.firstRead = x], from)
  BY <1>1, ReadEnds, Zenon
<1> QED BY <1>2

LEMMA UdtReads ==
  ASSUME TagKindsAssumption, NEW t, NEW f, NEW from, Fits(t), t.kind = "udt", Holds(t, from), Ready(t)
  PROVE  Ends(t, UdtTickler(t, f), from)
<1>1. DOMAIN t = TagFields /\ Bare(t) /\ UdtHolds(t)
  BY HoldsBare, SMTT(30) DEF Fits, Holds
<1>2. CASE t.rip
  <2> DEFINE read == IF t.fields THEN UdtCheckFields(t, f) ELSE UdtCheckMeta(t, f)
  <2>1. Answered(t) \/ t.req \in {"odd", "refused"}
    BY <1>2 DEF Ready, Holds, AnswerKnown, Answered
  <2>2. Checked(t, read, from)
    BY <1>1, <1>2, <2>1, UdtMetaChecked, UdtFieldsChecked
  <2>3. UdtTickler(t, f) = [read.tag EXCEPT !.status = read.rc, !.rdone = @ \/ ~read.tag.rip]
    BY <1>2 DEF UdtTickler, Fits
  <2> HIDE DEF read
  <2>4. PICK d : d = (read.tag.rdone \/ ~read.tag.rip)
    OBVIOUS
  <2>5. UdtTickler(t, f) = [read.tag EXCEPT !.status = read.rc, !.rdone = d]
    BY <2>3, <2>4
  <2> QED BY <2>2, <2>5, ReadTicked
<1>3. CASE ~t.rip
  <2>1. CASE t.wip
    <3>1. UdtTickler(t, f) = [AbortRequest(t) EXCEPT !.wdone = TRUE]
      BY <2>1 DEF UdtTickler
    <3>2. Alike(AbortRequest(t), UdtTickler(t, f))
      BY <1>1, <3>1, AbortFits DEF Fitting, Fits, Alike, TagFields
    <3> QED BY <1>1, <1>3, <3>2, AlikeHolds, AbortHolds DEF Ends
  <2>2. CASE ~t.wip
    BY <1>3, <2>2 DEF UdtTickler, Ends
  <2> QED BY <2>1, <2>2
<1> QED BY <1>2, <1>3

(* The tickler adds its flags to what the check of a write leaves. *)
LEMMA WriteTicked ==
  ASSUME NEW t, NEW r, NEW from, DOMAIN r.tag = TagFields, Holds(r.tag, from), ~t.rip, NEW u, NEW d,
         u = [r.tag EXCEPT !.status = r.rc, !.wdone = d]
  PROVE  Ends(t, u, from)
<1>1. Alike(r.tag, u)
  BY DEF Alike, TagFields
<1> QED BY <1>1, AlikeHolds DEF Ends

(* Plain tags: the buffer is as large as what has come, and no larger than *)
(* the tag.                                                                *)
LEMMA GrownFacts ==
  ASSUME NEW t, DOMAIN t = TagFields, NEW b \in Nat, NEW k \in Nat, b = t.offset, k = Len(t.reply),
         t.size \in 0..2, Sequence(t.data), Len(t.data) = t.size, b + k <= 2
  PROVE  LET g == Grown(t)
         IN  /\ DOMAIN g = TagFields /\ g.reply = t.reply /\ g.kind = t.kind
             /\ g.size \in 0..2 /\ b + k <= g.size /\ Sequence(g.data) /\ Len(g.data) = g.size
<1>1. PICK n \in Int : n = b + k - t.size
  BY SMTT(40)
<1>2. n = t.offset + Len(t.reply) - t.size
  BY <1>1
<1>3. CASE n <= 0
  <2>1. Grown(t) = t
    BY <1>2, <1>3 DEF Grown
  <2>2. b + k <= t.size
    BY <1>1, <1>3, SMTT(40)
  <2> QED BY <2>1, <2>2
<1>4. CASE n > 0
  <2>1. PICK z : z = [i \in 1..n |-> 0]
    OBVIOUS
  <2>2. PICK g : g = [t EXCEPT !.size = t.size + n, !.data = t.data \o z]
    OBVIOUS
  <2>3. Grown(t) = g
    BY <1>2, <1>4, <2>1, <2>2 DEF Grown
  <2>4. n \in Nat /\ t.size + n = b + k
    BY <1>1, <1>4, SMTT(40)
  <2>5. z \in Seq({0}) /\ Len(z) = n
    BY <2>1, <2>4
  <2>6. PICK T : t.data \in Seq(T)
    BY DEF Sequence
  <2>7. t.data \in Seq(T \cup {0}) /\ z \in Seq(T \cup {0})
    BY <2>5, <2>6
  <2>8. t.data \o z \in Seq(T \cup {0}) /\ Len(t.data \o z) = Len(t.data) + Len(z)
    BY <2>7
  <2>9. /\ DOMAIN g = TagFields /\ g.reply = t.reply /\ g.kind = t.kind /\ g.size = t.size + n
        /\ g.data = t.data \o z
    BY <2>2 DEF TagFields
  <2>10. Sequence(g.data) /\ Len(g.data) = t.size + n
    BY <2>5, <2>8, <2>9 DEF Sequence
  <2>11. g.size \in 0..2 /\ b + k <= g.size
    <3>1. g.size = b + k
      BY <2>4, <2>9
    <3>2. PICK w : w = b + k /\ w \in 0..2
      OBVIOUS
    <3> QED BY <3>1, <3>2, SMTT(40)
  <2> QED BY <2>3, <2>9, <2>10, <2>11
<1> QED BY <1>1, <1>3, <1>4

LEMMA TakenFacts ==
  ASSUME NEW t, DOMAIN t = TagFields, PlainHolds(t), t.rip, Answered(t)
  PROVE  LET u == Taken(t)
         IN  /\ DOMAIN u = TagFields /\ u.kind = t.kind
             /\ u.offset \in Nat /\ u.size \in 0..2 /\ Sequence(u.data) /\ Len(u.data) = u.size
             /\ t.req = "good" => u.size = 2
             /\ t.req = "good" /\ t.offset = 0 /\ ~t.preRead => u.data = t.reply
<1>1. /\ t.offset \in Nat /\ t.size \in 0..2 /\ Sequence(t.data) /\ Len(t.data) = t.size
      /\ Sequence(t.reply) /\ t.offset + Len(t.reply) <= 2
      /\ t.req = "good" => t.offset + Len(t.reply) = 2
  BY DEF PlainHolds
<1>2. Len(t.reply) \in Nat
  BY <1>1 DEF Sequence
<1>3. PICK b \in Nat, k \in Nat : b = t.offset /\ k = Len(t.reply)
  BY <1>1, <1>2
<1>4. b + k <= 2 /\ (t.req = "good" => b + k = 2)
  BY <1>1, <1>3
<1>5. PICK g : g = Grown(t)
  OBVIOUS
<1>6. /\ DOMAIN g = TagFields /\ g.reply = t.reply /\ g.kind = t.kind
      /\ g.size \in 0..2 /\ b + k <= g.size /\ Sequence(g.data) /\ Len(g.data) = g.size
  BY <1>1, <1>3, <1>4, <1>5, GrownFacts
<1>7. PICK c : c = Copied(g, b)
  OBVIOUS
<1>8. /\ Sequence(c) /\ Len(c) = IF b + k > g.size THEN b + k ELSE g.size
      /\ \A i \in 1..k : c[b + i] = t.reply[i]
  <2>1. b <= Len(g.data)
    BY <1>6
  <2>2. /\ Sequence(Copied(g, b))
        /\ Len(Copied(g, b)) = IF b + Len(g.reply) > Len(g.data) THEN b + Len(g.reply)
                                                                ELSE Len(g.data)
        /\ \A i \in 1..Len(g.reply) : Copied(g, b)[b + i] = g.reply[i]
    BY <1>1, <1>6, <2>1, CopiedFacts
  <2> QED BY <1>3, <1>6, <1>7, <2>2
<1>9. Len(c) = g.size
  BY <1>6, <1>8
<1>10. PICK u : u = Taken(t)
  OBVIOUS
<1>11. /\ DOMAIN u = TagFields /\ u.kind = t.kind /\ u.size = g.size
       /\ u.data = IF t.preRead THEN g.data ELSE c
  BY <1>3, <1>5, <1>6, <1>7, <1>10 DEF Taken, TagFields
<1>12. u.offset = b + k
  <2>1. g.offset = t.offset
    BY <1>5 DEF Grown, TagFields
  <2> QED BY <1>3, <1>5, <1>6, <1>10, <2>1 DEF Taken, TagFields
<1>13. /\ u.offset \in Nat /\ u.size \in 0..2 /\ Sequence(u.data) /\ Len(u.data) = u.size
  BY <1>6, <1>8, <1>9, <1>11, <1>12
<1>14. t.req = "good" => u.size = 2
  BY <1>4, <1>6, <1>11
<1>15. ASSUME t.req = "good", t.offset = 0, ~t.preRead PROVE u.data = t.reply
  <2>1. b = 0 /\ k = 2 /\ Len(c) = 2 /\ u.data = c
    BY <1>3, <1>4, <1>9, <1>11, <1>14, <1>15
  <2>2. \A i \in 1..Len(c) : c[i] = t.reply[i]
    BY <1>8, <2>1
  <2>3. Len(c) = Len(t.reply) /\ Sequence(c) /\ Sequence(t.reply)
    BY <1>1, <1>3, <1>8, <2>1
  <2>4. c = t.reply
    BY <2>2, <2>3, SameItems
  <2> QED BY <2>1, <2>4
<1> QED BY <1>10, <1>11, <1>13, <1>14, <1>15

(* For a plain tag only what is said of those matters. *)
LEMMA PlainKind ==
  ASSUME NEW t, NEW from, t.kind \in TypedKinds
  PROVE  /\ Holds(t, from) <=> PlainHolds(t) /\ AnswerKnown(t)
         /\ Bare(t) <=> t.offset \in Nat /\ t.size \in 0..2 /\ Sequence(t.data) /\ Len(t.data) = t.size
<1>1. t.kind \notin {"listing", "udt"} /\ t.kind \notin PcccKinds
  BY KindsApart
<1> QED BY <1>1 DEF Holds, Bare

LEMMA PlainBare ==
  ASSUME NEW t, t.kind \in TypedKinds, t.offset \in Nat, t.size \in 0..2, Sequence(t.data),
         Len(t.data) = t.size
  PROVE  Bare(t)
BY PlainKind

LEMMA CipReadChecked ==
  ASSUME NEW t, NEW f, NEW from, Fits(t), t.kind \in PlainCip, PlainHolds(t), t.rip,
         Answered(t) \/ t.req \in {"odd", "refused"}
  PROVE  Checked(t, CipCheckReadConnected(t, f), from)
<1> DEFINE taken == Taken(t)
           old   == AbortRequestOnly(t)
           got   == AbortRequestOnly(taken)
           again == [got EXCEPT !.preRead = FALSE, !.offset = 0]
           last  == [got EXCEPT !.offset = 0]
           c == CASE t.req \in {"odd", "refused"} -> Result(old, Refusal(t))
                  [] t.req \notin {"odd", "refused"} /\ t.preRead -> CipWriteStart(again, f)
                  [] t.req = "part" /\ ~t.preRead -> CipReadStart(got, f)
                  [] OTHER -> Result(last, "OK")
           r == CipCheckReadConnected(t, f)
<1>1. t.kind \in TypedKinds /\ DOMAIN t = TagFields
  BY KindsApart DEF Fits
<1>2. DOMAIN old = TagFields /\ Bare(old) /\ old.kind = t.kind
  <2>1. Bare(t)
    BY <1>1, PlainKind DEF PlainHolds
  <2>2. Fitting(t, old)
    BY <1>1, AbortFits
  <2> QED BY <1>1, <2>1, <2>2, AbortBare DEF Fitting, Fits
<1>3. ASSUME Answered(t)
      PROVE  /\ Fits(got) /\ Fits(again) /\ DOMAIN last = TagFields
             /\ Bare(got) /\ Bare(again) /\ Bare(last)
             /\ got.kind = t.kind /\ again.kind = t.kind /\ last.kind = t.kind
             /\ ~(got.rip \/ got.wip) /\ ~(again.rip \/ again.wip)
             /\ t.req = "good" => last.size = 2 /\ Len(last.data) = 2
  <2>1. /\ DOMAIN taken = TagFields /\ taken.kind = t.kind
        /\ taken.offset \in Nat /\ taken.size \in 0..2 /\ Sequence(taken.data)
        /\ Len(taken.data) = taken.size
        /\ t.req = "good" => taken.size = 2
    BY <1>1, <1>3, TakenFacts
  <2> HIDE DEF taken
  <2>2. Fitting(taken, got)
    BY <2>1, AbortFits
  <2>3. /\ got.offset = taken.offset /\ got.size = taken.size /\ got.data = taken.data
        /\ ~got.rip /\ ~got.wip
    BY <2>1 DEF AbortRequestOnly, TagFields
  <2> HIDE DEF got
  <2>4. Fits(got) /\ got.kind = t.kind /\ DOMAIN got = TagFields
    BY <2>1, <2>2 DEF Fitting, Fits
  <2>5. /\ Fits(again) /\ again.kind = t.kind /\ again.offset = 0 /\ again.size = taken.size
        /\ again.data = taken.data /\ ~again.rip /\ ~again.wip
        /\ DOMAIN last = TagFields /\ last.kind = t.kind /\ last.offset = 0
        /\ last.size = taken.size /\ last.data = taken.data
    BY <2>3, <2>4 DEF Fits, TagFields
  <2> HIDE DEF again, last
  <2>6. Bare(got) /\ Bare(again) /\ Bare(last)
    <3>1. Bare(got)
      BY <1>1, <2>1, <2>3, <2>4, PlainBare
    <3>2. Bare(again)
      BY <1>1, <2>1, <2>5, PlainBare
    <3>3. Bare(last)
      BY <1>1, <2>1, <2>5, PlainBare
    <3> QED BY <3>1, <3>2, <3>3
  <2> QED BY <2>1, <2>3, <2>4, <2>5, <2>6
<1> HIDE DEF taken, old, got, again, last
<1>4. /\ DOMAIN c.tag = TagFields /\ Bare(c.tag) /\ c.tag.kind = t.kind
      /\ c.rc = "PENDING" => Holds(c.tag, from)
      /\ c.rc = "OK" => c.tag = last /\ t.req = "good"
  <2>1. CASE t.req \in {"odd", "refused"}
    <3>1. c = Result(old, Refusal(t))
      BY <2>1
    <3>2. c.tag = old /\ c.rc = Refusal(t)
      BY <3>1 DEF Result
    <3> QED BY <1>2, <3>2 DEF Refusal
  <2>2. CASE Answered(t) /\ t.preRead
    <3>1. c = CipWriteStart(again, f)
      BY <2>2 DEF Answered
    <3> HIDE DEF c
    <3>2. again.kind \in PlainCip
      BY <1>3, <2>2
    <3>3. Started(again, c) /\ c.rc # "OK"
      BY <1>3, <2>2, <3>1, <3>2, CipWriteStarts
    <3>4. Bare(c.tag) /\ Holds(c.tag, from)
      BY <1>3, <2>2, <3>1, <3>2, CipWriteHolds
    <3> QED BY <1>3, <2>2, <3>3, <3>4 DEF Started, From
  <2>3. CASE t.req = "part" /\ ~t.preRead
    <3>1. c = CipReadStart(got, f)
      BY <2>3
    <3> HIDE DEF c
    <3>2. got.kind \in PlainCip /\ Answered(t)
      BY <1>3, <2>3 DEF Answered
    <3>3. Started(got, c) /\ c.rc # "OK"
      BY <1>3, <3>1, <3>2, CipReadStarts
    <3>4. Bare(c.tag) /\ Holds(c.tag, from)
      BY <1>3, <3>1, <3>2, CipReadHolds
    <3> QED BY <1>3, <3>2, <3>3, <3>4 DEF Started, From
  <2>4. CASE t.req = "good" /\ ~t.preRead
    <3>1. c = Result(last, "OK")
      BY <2>4
    <3>2. c.tag = last /\ c.rc = "OK"
      BY <3>1 DEF Result
    <3> QED BY <1>3, <2>4, <3>2 DEF Answered
  <2> QED BY <2>1, <2>2, <2>3, <2>4 DEF Answered
<1>5. r = IF c.rc = "PENDING" THEN c ELSE Result(AbortRequest(c.tag), c.rc)
  BY DEF CipCheckReadConnected, last, again, got, taken, old
<1> HIDE DEF r, c
<1>6. CASE c.rc = "PENDING"
  <2>1. r = c
    BY <1>5, <1>6
  <2>2. Checked(t, r, from)
    BY <1>4, <1>6, <2>1 DEF Checked
  <2> QED BY <2>2 DEF r
<1>7. CASE c.rc # "PENDING"
  <2>1. r.tag = AbortRequest(c.tag) /\ r.rc = c.rc
    BY <1>5, <1>7 DEF Result
  <2>2. /\ Fits(r.tag) /\ r.tag.kind = t.kind /\ Holds(r.tag, from)
    BY <1>4, <2>1, AbortFits, AbortHolds DEF Fitting
  <2>3. r.tag.size = c.tag.size /\ r.tag.data = c.tag.data
    BY <1>4, <2>1 DEF AbortRequest, AbortRequestOnly, TagFields
  <2>4. r.rc = "OK" => HasAll(r.tag, t.reply, from)
    <3>1. r.rc = "OK" => r.tag.size = 2 /\ Len(r.tag.data) = 2
      BY <1>3, <1>4, <2>1, <2>3 DEF Answered
    <3>2. /\ r.tag.kind \notin {"listing", "udt"} /\ r.tag.kind \notin PcccKinds
          /\ r.tag.kind \notin PlainOmron
      BY <1>1, <2>2, KindsApart
    <3> QED BY <3>1, <3>2 DEF HasAll
  <2>5. Checked(t, r, from)
    BY <2>2, <2>4 DEF Checked, Fits
  <2> QED BY <2>5 DEF r
<1> QED BY <1>6, <1>7

LEMMA CipWriteChecked ==
  ASSUME NEW t, NEW f, NEW from, Fits(t), t.kind \in PlainCip, PlainHolds(t), NEW r,
         r \in {CipCheckWriteConnected(t, f), CipCheckWriteUnconnected(t)}
  PROVE  DOMAIN r.tag = TagFields /\ Holds(r.tag, from)
<1> DEFINE done == AbortRequestOnly(t)
           last == [done EXCEPT !.offset = 0]
<1>1. t.kind \in TypedKinds /\ DOMAIN t = TagFields
  BY KindsApart DEF Fits
<1>2. Bare(t)
  BY <1>1, PlainKind DEF PlainHolds
<1>3. Fits(done) /\ Bare(done) /\ done.kind = t.kind /\ ~done.rip /\ ~done.wip /\ done.req = "none"
  BY <1>1, <1>2, AbortFits, AbortBare DEF Fitting, AbortRequestOnly, TagFields
<1> HIDE DEF done
<1>4. /\ DOMAIN last = TagFields /\ last.kind = t.kind /\ Idle(last) /\ last.size = done.size
      /\ last.data = done.data
  BY <1>3 DEF Fits, TagFields, Idle
<1> HIDE DEF last
<1>5. Holds(last, from)
  <2>1. /\ done.size \in 0..2 /\ Sequence(done.data) /\ Len(done.data) = done.size
        /\ done.kind \in TypedKinds
    BY <1>1, <1>3, PlainKind
  <2>2. last.offset \in Nat
    BY <1>4 DEF Idle
  <2>3. Bare(last)
    BY <1>1, <1>4, <2>1, <2>2, PlainBare
  <2> QED BY <1>4, <2>3, IdleHolds
<1>6. CASE r = CipCheckWriteUnconnected(t)
  <2>1. r.tag = AbortRequest(t)
    BY <1>6 DEF CipCheckWriteUnconnected, Result
  <2> QED BY <1>1, <1>2, <2>1, AbortFits, AbortHolds DEF Fitting, Fits
<1>7. CASE r = CipCheckWriteConnected(t, f)
  <2>1. r.tag \in {last, CipWriteStart(done, f).tag}
    BY <1>7 DEF CipCheckWriteConnected, Result, last, done
  <2>2. Holds(CipWriteStart(done, f).tag, from)
    BY <1>3, CipWriteHolds
  <2>3. DOMAIN CipWriteStart(done, f).tag = TagFields
    BY <1>3, CipWriteStarts DEF Started, From
  <2> QED BY <1>4, <1>5, <2>1, <2>2, <2>3
<1> QED BY <1>6, <1>7

LEMMA CipReads ==
  ASSUME NEW t, NEW f, NEW from, Fits(t), t.kind \in PlainCip, Holds(t, from), Ready(t)
  PROVE  Ends(t, CipTickler(t, f), from)
<1> DEFINE read  == CipCheckReadConnected(t, f)
           write == IF t.connected THEN CipCheckWriteConnected(t, f) ELSE CipCheckWriteUnconnected(t)
<1>1. PlainHolds(t) /\ t.kind \in TypedKinds
  BY KindsApart, PlainKind, SMTT(30)
<1>2. CASE t.rip
  <2>1. Answered(t) \/ t.req \in {"odd", "refused"}
    BY <1>1, <1>2 DEF Ready, Holds, AnswerKnown, Answered
  <2>2. Checked(t, read, from)
    BY <1>1, <1>2, <2>1, CipReadChecked
  <2>3. CipTickler(t, f) = [read.tag EXCEPT !.status = read.rc, !.rdone = @ \/ ~read.tag.rip,
                                            !.firstRead = @ /\ read.tag.rip]
    BY <1>2 DEF CipTickler, CipCheckReadUnconnected
  <2> HIDE DEF read
  <2>4. PICK d, x : d = (read.tag.rdone \/ ~read.tag.rip) /\ x = (read.tag.firstRead /\ read.tag.rip)
    OBVIOUS
  <2>5. CipTickler(t, f) = [read.tag EXCEPT !.status = read.rc, !.rdone = d, !.firstRead = x]
    BY <2>3, <2>4
  <2> QED BY <2>2, <2>5, ReadTicked
<1>3. CASE ~t.rip /\ t.wip
  <2>1. DOMAIN write.tag = TagFields /\ Holds(write.tag, from)
    BY <1>1, CipWriteChecked
  <2>2. CipTickler(t, f) = [write.tag EXCEPT !.status = write.rc, !.wdone = @ \/ ~write.tag.wip]
    BY <1>3 DEF CipTickler
  <2> HIDE DEF write
  <2>3. PICK d : d = (write.tag.wdone \/ ~write.tag.wip)
    OBVIOUS
  <2>4. CipTickler(t, f) = [write.tag EXCEPT !.status = write.rc, !.wdone = d]
    BY <2>2, <2>3
  <2> QED BY <1>3, <2>1, <2>4, WriteTicked
<1>4. CASE ~t.rip /\ ~t.wip
  BY <1>4 DEF CipTickler, Ends
<1> QED BY <1>2, <1>3, <1>4

(* Omron's fragments are all one request's: the offset starts at zero. *)
LEMMA OmronReadChecked ==
  ASSUME NEW t, NEW f, NEW from, Fits(t), t.kind \in PlainOmron, PlainHolds(t), t.rip,
         Answered(t) \/ t.req \in {"odd", "refused"}
  PROVE  Checked(t, OmronCheckRead(t, f), from)
<1> DEFINE taken == Taken(t)
           old   == OmronAbort(t)
           got   == OmronAbort(taken)
           again == [got EXCEPT !.preRead = FALSE]
           c == CASE t.req \in {"odd", "refused"} -> Result(old, Refusal(t))
                  [] t.req \notin {"odd", "refused"} /\ t.preRead -> OmronWriteStart(again, f)
                  [] t.req = "part" /\ ~t.preRead -> OmronReadStart(got, f)
                  [] OTHER -> Result(got, "OK")
           r == OmronCheckRead(t, f)
<1>1. t.kind \in TypedKinds /\ DOMAIN t = TagFields /\ t.offset = 0
  BY KindsApart DEF Fits, PlainHolds
<1>2. DOMAIN old = TagFields /\ Bare(old) /\ old.kind = t.kind
  <2>1. Bare(t)
    BY <1>1, PlainKind DEF PlainHolds
  <2>2. Fitting(t, old)
    BY <1>1, AbortFits
  <2> QED BY <1>1, <2>1, <2>2, AbortBare DEF Fitting, Fits
<1>3. ASSUME Answered(t)
      PROVE  /\ Fits(got) /\ Fits(again) /\ Bare(got) /\ Bare(again) /\ Idle(got) /\ Idle(again)
             /\ got.kind = t.kind /\ again.kind = t.kind
             /\ t.req = "good" /\ ~t.preRead => got.size = 2 /\ got.data = t.reply
  <2>1. /\ DOMAIN taken = TagFields /\ taken.kind = t.kind
        /\ taken.offset \in Nat /\ taken.size \in 0..2 /\ Sequence(taken.data)
        /\ Len(taken.data) = taken.size
        /\ t.req = "good" => taken.size = 2
        /\ t.req = "good" /\ ~t.preRead => taken.data = t.reply
    BY <1>1, <1>3, TakenFacts
  <2> HIDE DEF taken
  <2>2. Fitting(taken, got) /\ Idle(got)
    BY <2>1, AbortFits, AbortBare
  <2>3. Bare(got)
    BY <1>1, <2>1, PlainBare, AbortBare
  <2>4. got.size = taken.size /\ got.data = taken.data
    BY <2>1 DEF OmronAbort, OmronAbortRequest, OmronAbortRequestOnly, TagFields
  <2> HIDE DEF got
  <2>5. Fits(got) /\ got.kind = t.kind /\ DOMAIN got = TagFields
    <3>1. Fits(got) /\ got.kind = taken.kind
      BY <2>2 DEF Fitting
    <3> QED BY <2>1, <3>1 DEF Fits
  <2>6. Fits(again) /\ again.kind = t.kind /\ Alike(got, again)
    BY <2>5, SMTT(30) DEF Fits, TagFields, Alike
  <2>7. Bare(again) /\ Idle(again)
    BY <2>2, <2>3, <2>6, AlikeBare DEF Alike, Idle
  <2> QED BY <2>1, <2>2, <2>3, <2>4, <2>5, <2>6, <2>7
<1> HIDE DEF taken, old, got, again
<1>4. /\ DOMAIN c.tag = TagFields /\ Bare(c.tag) /\ c.tag.kind = t.kind
      /\ c.rc = "PENDING" => Holds(c.tag, from)
      /\ c.rc = "OK" => c.tag = got /\ t.req = "good" /\ ~t.preRead
  <2>1. CASE t.req \in {"odd", "refused"}
    <3>1. c = Result(old, Refusal(t))
      BY <2>1
    <3>2. c.tag = old /\ c.rc = Refusal(t)
      BY <3>1 DEF Result
    <3> QED BY <1>2, <3>2 DEF Refusal
  <2>2. CASE Answered(t) /\ t.preRead
    <3>1. c = OmronWriteStart(again, f)
      BY <2>2 DEF Answered
    <3> HIDE DEF c
    <3>2. again.kind \in PlainOmron /\ Fits(again) /\ Bare(again) /\ Idle(again)
      BY <1>3, <2>2
    <3>3. Started(again, c) /\ c.rc # "OK"
      BY <3>1, <3>2, OmronWriteStarts
    <3>4. Bare(c.tag) /\ (c.rc = "PENDING" => Holds(c.tag, from))
      BY <3>1, <3>2, OmronWriteHolds DEF Idle
    <3> QED BY <1>3, <2>2, <3>3, <3>4 DEF Started, From
  <2>3. CASE t.req = "part" /\ ~t.preRead
    <3>1. c = OmronReadStart(got, f)
      BY <2>3
    <3> HIDE DEF c
    <3>2. got.kind \in PlainOmron /\ Fits(got) /\ Bare(got) /\ Idle(got) /\ Answered(t)
      BY <1>3, <2>3 DEF Answered
    <3>3. Started(got, c) /\ c.rc # "OK"
      BY <3>1, <3>2, OmronReadStarts
    <3>4. Bare(c.tag) /\ Holds(c.tag, from)
      BY <3>1, <3>2, OmronReadHolds DEF Idle
    <3> QED BY <1>3, <3>2, <3>3, <3>4 DEF Started, From
  <2>4. CASE t.req = "good" /\ ~t.preRead
    <3>1. c = Result(got, "OK")
      BY <2>4
    <3>2. c.tag = got /\ c.rc = "OK"
      BY <3>1 DEF Result
    <3> QED BY <1>3, <2>4, <3>2 DEF Answered, Fits
  <2> QED BY <2>1, <2>2, <2>3, <2>4 DEF Answered
<1>5. r = IF IsError(c.rc) THEN Result(OmronAbort(c.tag), c.rc) ELSE c
  BY DEF OmronCheckRead, again, got, taken, old
<1> HIDE DEF r, c
<1>6. CASE ~IsError(c.rc)
  <2>1. r = c
    BY <1>5, <1>6
  <2>2. CASE c.rc = "PENDING"
    <3>1. Checked(t, r, from)
      BY <1>4, <2>1, <2>2 DEF Checked
    <3> QED BY <3>1 DEF r
  <2>3. CASE c.rc = "OK"
    <3>1. c.tag = got /\ Answered(t) /\ got.size = 2 /\ got.data = t.reply /\ Bare(got) /\ Idle(got)
          /\ got.kind = t.kind
      BY <1>3, <1>4, <2>3 DEF Answered
    <3>2. Holds(got, from)
      BY <3>1, IdleHolds
    <3>3. /\ got.kind \notin {"listing", "udt"} /\ got.kind \notin PcccKinds
          /\ got.kind \notin PlainCip
      BY <1>1, <3>1, KindsApart
    <3>4. HasAll(got, t.reply, from)
      BY <3>1, <3>3 DEF HasAll
    <3>5. Checked(t, r, from)
      BY <1>4, <2>1, <3>1, <3>2, <3>4 DEF Checked
    <3> QED BY <3>5 DEF r
  <2> QED BY <1>6, <2>2, <2>3 DEF IsError
<1>7. CASE IsError(c.rc)
  <2>1. r.tag = OmronAbort(c.tag) /\ r.rc = c.rc
    BY <1>5, <1>7 DEF Result
  <2>2. Fits(r.tag) /\ Holds(r.tag, from)
    BY <1>4, <2>1, AbortFits, AbortHolds DEF Fitting
  <2>3. Checked(t, r, from)
    BY <1>7, <2>1, <2>2 DEF Checked, Fits, IsError
  <2> QED BY <2>3 DEF r
<1> QED BY <1>6, <1>7

(* A write is one request, so that the offset is at its end. *)
LEMMA OmronWriteChecked ==
  ASSUME NEW t, NEW f, NEW from, Fits(t), t.kind \in PlainOmron, PlainHolds(t), t.wip
  PROVE  LET r == OmronCheckWrite(t, f) IN DOMAIN r.tag = TagFields /\ Holds(r.tag, from)
<1> DEFINE last == [OmronAbortRequestOnly(t) EXCEPT !.offset = 0]
<1>1. t.kind \in TypedKinds /\ DOMAIN t = TagFields /\ t.offset = t.size /\ t.size \in 0..2
  BY KindsApart DEF Fits, PlainHolds
<1>2. ~(t.offset < t.size)
  BY <1>1
<1>3. OmronCheckWrite(t, f).tag = last
  BY <1>2 DEF OmronCheckWrite, Result
<1>4. last = OmronAbortRequest(t)
  BY <1>1 DEF OmronAbortRequest, OmronAbortRequestOnly, TagFields
<1>5. Bare(t)
  BY <1>1, PlainKind DEF PlainHolds
<1> HIDE DEF last
<1>6. Holds(last, from) /\ DOMAIN last = TagFields
  BY <1>1, <1>4, <1>5, AbortHolds, AbortFits DEF Fitting, Fits
<1> QED BY <1>3, <1>6

LEMMA OmronReads ==
  ASSUME NEW t, NEW f, NEW from, Fits(t), t.kind \in PlainOmron, Holds(t, from), Ready(t)
  PROVE  Ends(t, OmronTickler(t, f), from)
<1> DEFINE read  == OmronCheckRead(t, f)
           write == OmronCheckWrite(t, f)
<1>1. PlainHolds(t) /\ t.kind \in TypedKinds
  BY KindsApart, PlainKind, SMTT(30)
<1>2. CASE t.rip
  <2>1. Answered(t) \/ t.req \in {"odd", "refused"}
    BY <1>1, <1>2 DEF Ready, Holds, AnswerKnown, Answered
  <2>2. Checked(t, read, from)
    BY <1>1, <1>2, <2>1, OmronReadChecked
  <2>3. OmronTickler(t, f) = [read.tag EXCEPT !.status = read.rc, !.rdone = @ \/ ~read.tag.rip,
                                              !.firstRead = @ /\ read.tag.rip]
    BY <1>2 DEF OmronTickler
  <2> HIDE DEF read
  <2>4. PICK d, x : d = (read.tag.rdone \/ ~read.tag.rip) /\ x = (read.tag.firstRead /\ read.tag.rip)
    OBVIOUS
  <2>5. OmronTickler(t, f) = [read.tag EXCEPT !.status = read.rc, !.rdone = d, !.firstRead = x]
    BY <2>3, <2>4
  <2> QED BY <2>2, <2>5, ReadTicked
<1>3. CASE ~t.rip /\ t.wip
  <2>1. DOMAIN write.tag = TagFields /\ Holds(write.tag, from)
    BY <1>1, <1>3, OmronWriteChecked
  <2>2. OmronTickler(t, f) = [write.tag EXCEPT !.status = write.rc, !.wdone = @ \/ ~write.tag.wip]
    BY <1>3 DEF OmronTickler
  <2> HIDE DEF write
  <2>3. PICK d : d = (write.tag.wdone \/ ~write.tag.wip)
    OBVIOUS
  <2>4. OmronTickler(t, f) = [write.tag EXCEPT !.status = write.rc, !.wdone = d]
    BY <2>2, <2>3
  <2> QED BY <1>3, <2>1, <2>4, WriteTicked
<1>4. CASE ~t.rip /\ ~t.wip
  BY <1>4 DEF OmronTickler, Ends
<1> QED BY <1>2, <1>3, <1>4

(* A PCCC answer is the whole tag, or is refused. *)
LEMMA PcccReads ==
  ASSUME NEW t, NEW from, Fits(t), t.kind \in PcccKinds, Holds(t, from), Ready(t)
  PROVE  Ends(t, PcccTickler(t), from) /\ Ends(t, DhpTickler(t), from)
<1> SUFFICES ASSUME NEW w, DOMAIN w.tag = TagFields, w.tag.kind = t.kind, w.tag.size = t.size,
                    w.tag.req = "none"
             PROVE  Ends(t, PcccTicked(t, PcccCheckRead(t), w), from)
  <2>1. \A c \in {PcccCheckWrite(t), DhpCheckWrite(t)} :
          /\ DOMAIN c.tag = TagFields /\ c.tag.kind = t.kind /\ c.tag.size = t.size
          /\ c.tag.req = "none"
    <3>1. DOMAIN t = TagFields
      BY DEF Fits
    <3>2. ASSUME NEW c, NEW v PROVE Result(c, v).tag = c
      BY DEF Result
    <3>3. \A a \in {AbortRequest(t), AbortRequest([t EXCEPT !.wdone = TRUE])} :
            DOMAIN a = TagFields /\ a.kind = t.kind /\ a.size = t.size /\ a.req = "none"
      BY <3>1, ZenonT(60) DEF AbortRequest, AbortRequestOnly, TagFields
    <3>4. \A c \in {PcccCheckWrite(t), DhpCheckWrite(t)} :
            c.tag \in {AbortRequest(t), AbortRequest([t EXCEPT !.wdone = TRUE])}
      BY <3>2, ZenonT(60) DEF PcccCheckWrite, DhpCheckWrite
    <3> QED BY <3>3, <3>4
  <2> QED BY <2>1, Zenon DEF PcccTickler, DhpTickler, DhpCheckRead
<1> DEFINE u == PcccTicked(t, PcccCheckRead(t), w)
<1>1. /\ t.size \in Int /\ Bare(t) /\ DOMAIN t = TagFields
      /\ t.req \notin {"none", "sent"} => Len(t.reply) \in Int
  BY HoldsBare, SMTT(30) DEF Holds, PcccHolds, Fits
<1>2. CASE t.rip
  <2> DEFINE r == PcccCheckRead(t)
  <2>1. /\ DOMAIN r.tag = TagFields /\ r.tag.kind = t.kind /\ r.tag.size = t.size /\ r.tag.req = "none"
        /\ r.rc = "OK" => r.tag.data = t.reply /\ ~(Len(t.reply) > t.size) /\ ~(Len(t.reply) < t.size)
    BY <1>1 DEF PcccCheckRead, Result, AbortRequest, AbortRequestOnly, TagFields
  <2> HIDE DEF r
  <2>2. Holds(r.tag, from)
    BY <1>1, <2>1, PcccSized
  <2>3. Len(t.reply) \in Int
    BY <1>1, <1>2 DEF Ready
  <2>4. r.rc = "OK" => r.tag.data = t.reply /\ r.tag.size = Len(r.tag.data)
    BY <1>1, <2>1, <2>3
  <2>5. /\ r.tag.kind \notin {"listing", "udt"} /\ r.tag.kind \notin PlainCip
        /\ r.tag.kind \notin PlainOmron
    BY <2>1, KindsApart
  <2>6. r.rc = "OK" => HasAll(r.tag, t.reply, from)
    BY <2>4, <2>5 DEF HasAll
  <2>7. Checked(t, r, from)
    BY <2>1, <2>2, <2>6 DEF Checked
  <2>8. u = [r.tag EXCEPT !.status = r.rc, !.rdone = @ \/ ~r.tag.rip]
    BY <1>2 DEF PcccTicked, r
  <2>9. PICK d : d = (r.tag.rdone \/ ~r.tag.rip)
    OBVIOUS
  <2>10. u = [r.tag EXCEPT !.status = r.rc, !.rdone = d]
    BY <2>8, <2>9
  <2> QED BY <2>7, <2>10, ReadTicked
<1>3. CASE ~t.rip /\ t.wip
  <2>1. Holds(w.tag, from)
    BY <1>1, PcccSized
  <2>2. u = [w.tag EXCEPT !.status = w.rc, !.wdone = @ \/ ~w.tag.wip]
    BY <1>3 DEF PcccTicked
  <2>3. PICK d : d = (w.tag.wdone \/ ~w.tag.wip)
    OBVIOUS
  <2>4. u = [w.tag EXCEPT !.status = w.rc, !.wdone = d]
    BY <2>2, <2>3
  <2> QED BY <1>3, <2>1, <2>4, WriteTicked
<1>4. CASE ~t.rip /\ ~t.wip
  BY <1>4 DEF PcccTicked, Ends
<1> QED BY <1>2, <1>3, <1>4

(* Every kind's tickler leaves a tag that holds what it did, and ends a     *)
(* read with success only when all has come.                               *)
LEMMA TicklerReads ==
  ASSUME TagKindsAssumption, NEW t, NEW f, NEW from, Fits(t), KindKnown(t), Holds(t, from),
         t.kind = "listing" => from \in Nat
  PROVE  Ends(t, Tickler(t, f), from)
<1> DEFINE c == IF t.kind \in OmronKinds THEN OmronCheckRequest(t) ELSE CheckRequest(t)
           v == c.tag
           u == Tickler(t, f)
<1>1. /\ Holds(v, from) /\ Fits(v) /\ v.kind = t.kind
      /\ c.rc # "OK" => v.status # "OK"
      /\ c.rc = "OK" => Alike(t, v) /\ Ready(v)
  BY CheckHolds, Zenon DEF Fitting
<1>2. u = CASE c.rc # "OK" -> v
            [] c.rc = "OK" /\ v.kind = "raw"       -> RawTickler(v, f)
            [] c.rc = "OK" /\ v.kind = "listing"   -> ListingTickler(v, f)
            [] c.rc = "OK" /\ v.kind = "udt"       -> UdtTickler(v, f)
            [] c.rc = "OK" /\ v.kind = "lgx"       -> LgxTickler(v)
            [] c.rc = "OK" /\ v.kind = "omron_raw" -> OmronRawTickler(v, f)
            [] c.rc = "OK" /\ v.kind \in PlainCip   -> CipTickler(v, f)
            [] c.rc = "OK" /\ v.kind \in PlainOmron -> OmronTickler(v, f)
            [] c.rc = "OK" /\ v.kind \in PlcKinds   -> PcccTickler(v)
            [] OTHER -> DhpTickler(v)
  BY DEF Tickler
<1>3. u.kind = t.kind
  BY Ticks DEF Fitting
<1> HIDE DEF c, v, u
<1>4. CASE c.rc # "OK"
  <2>1. u = v
    BY <1>2, <1>4
  <2>2. Ends(t, u, from)
    BY <1>1, <1>4, <2>1 DEF Ends
  <2> QED BY <2>2 DEF u
<1>5. CASE c.rc = "OK"
  <2>1. Fits(v) /\ Holds(v, from) /\ Ready(v) /\ v.kind = t.kind /\ v.rip = t.rip
        /\ (t.rip => v.reply = t.reply)
    BY <1>1, <1>5 DEF Alike
  <2>2. Ends(v, u, from)
    <3>1. CASE v.kind \in {"lgx"} \cup RawKinds
      <4>1. Holds(u, from)
        BY <1>3, <2>1, <3>1, LooseHolds
      <4>2. /\ u.kind \notin {"listing", "udt"} /\ u.kind \notin PcccKinds
            /\ u.kind \notin PlainCip /\ u.kind \notin PlainOmron
        BY <1>3, <2>1, <3>1, KindsApart DEF RawKinds
      <4> QED BY <4>1, <4>2 DEF Ends, HasAll
    <3>2. CASE v.kind = "listing"
      <4>1. u = ListingTickler(v, f)
        BY <1>2, <1>5, <3>2 DEF PlainCip, PlainOmron, PlcKinds
      <4> QED BY <1>1, <2>1, <3>2, <4>1, ListingReads
    <3>3. CASE v.kind = "udt"
      <4>1. u = UdtTickler(v, f)
        BY <1>2, <1>5, <3>3 DEF PlainCip, PlainOmron, PlcKinds
      <4> QED BY <2>1, <3>3, <4>1, UdtReads
    <3>4. CASE v.kind \in PlainCip
      <4>1. u = CipTickler(v, f)
        BY <1>2, <1>5, <3>4 DEF PlainCip, PlainOmron, PlcKinds
      <4> QED BY <2>1, <3>4, <4>1, CipReads
    <3>5. CASE v.kind \in PlainOmron
      <4>1. u = OmronTickler(v, f)
        BY <1>2, <1>5, <3>5 DEF PlainCip, PlainOmron, PlcKinds
      <4> QED BY <2>1, <3>5, <4>1, OmronReads
    <3>6. CASE v.kind \in PcccKinds
      <4>1. Ends(v, PcccTickler(v), from) /\ Ends(v, DhpTickler(v), from)
        BY <2>1, <3>6, PcccReads
      <4>2. u = PcccTickler(v) \/ u = DhpTickler(v)
        BY <1>2, <1>5, <3>6 DEF PcccKinds, DhpKinds, PlainCip, PlainOmron, PlcKinds
      <4> QED BY <4>1, <4>2
    <3> QED BY <2>1, <3>1, <3>2, <3>3, <3>4, <3>5, <3>6 DEF KindKnown, TypedKinds
  <2>3. Ends(t, u, from)
    BY <2>1, <2>2 DEF Ends
  <2> QED BY <2>3 DEF u
<1> QED BY <1>4, <1>5

-----------------------------------------------------------------------------
(* Answers *)

(* r is the first n items of all that s has behind its first b. *)
Cut(s, b, all, n, r) ==
  /\ Sequence(s) /\ b \in 0..Len(s) /\ all = SubSeq(s, b + 1, Len(s))
  /\ n \in 0..Len(all) /\ r = SubSeq(all, 1, n)
Served(s, b, all, n, r) ==
  /\ n \in Nat /\ b + n <= Len(s) /\ (n = Len(all) <=> b + n = Len(s))
  /\ Sequence(r) /\ Len(r) = n /\ r = SubSeq(s, b + 1, b + n)
  /\ \A i \in 1..n : r[i] = s[b + i]

LEMMA RestPart ==
  ASSUME NEW s, NEW b, NEW all, NEW n, NEW r, Cut(s, b, all, n, r)
  PROVE  Served(s, b, all, n, r)
<1>0. PICK T : s \in Seq(T)
  BY DEF Cut, Sequence
<1> USE DEF Cut
<1>1. PICK l \in Nat : l = Len(s) /\ b \in 0..l
  BY <1>0
<1>2. PICK m \in Nat : b + m = l
  <2>1. l - b \in Nat /\ b + (l - b) = l
    BY <1>1
  <2> QED BY <2>1
<1>3. b \in Nat /\ b + m <= Len(s) /\ all = SubSeq(s, b + 1, b + m)
  <2>1. b \in Nat /\ b + m <= Len(s)
    BY <1>1, <1>2
  <2>2. b + m = Len(s)
    BY <1>1, <1>2
  <2>3. all = SubSeq(s, b + 1, Len(s))
    OBVIOUS
  <2>4. all = SubSeq(s, b + 1, b + m)
    BY <2>2, <2>3, Zenon
  <2> QED BY <2>1, <2>4, Zenon
<1>4. all \in Seq(T) /\ Len(all) = m /\ \A i \in 1..m : all[i] = s[b + i]
  BY <1>0, <1>3, PartFacts, SMTT(30)
<1>5. n \in Nat /\ n <= m /\ b + n <= Len(s)
  BY <1>1, <1>2, <1>4
<1>6. r = SubSeq(all, 0 + 1, 0 + n) /\ 0 + n <= Len(all)
  BY <1>4, <1>5
<1>7. r \in Seq(T) /\ Len(r) = n /\ \A i \in 1..n : r[i] = all[0 + i]
  BY <1>4, <1>5, <1>6, PartFacts
<1>8. \A i \in 1..n : r[i] = s[b + i]
  <2>1. ASSUME NEW i \in 1..n PROVE r[i] = s[b + i]
    <3>1. 0 + i = i /\ i \in 1..m
      BY <1>5
    <3> QED BY <1>4, <1>7, <3>1
  <2> QED BY <2>1
<1>9. PICK w : w = SubSeq(s, b + 1, b + n)
  OBVIOUS
<1>10. w \in Seq(T) /\ Len(w) = n /\ \A i \in 1..n : w[i] = s[b + i]
  BY <1>0, <1>3, <1>5, <1>9, PartFacts
<1>11. r = w
  BY <1>7, <1>8, <1>10, SameItems DEF Sequence
<1>12. n = Len(all) <=> b + n = Len(s)
  BY <1>1, <1>2, <1>4, <1>5, SMTT(30)
<1> QED BY <1>5, <1>7, <1>8, <1>9, <1>11, <1>12 DEF Sequence, Served

(* What a PLC sends of something it is asked for in parts *)
LEMMA PartReplies ==
  ASSUME NEW answer, NEW reply \in PartReply(answer), NEW b, tag.asked = <<"from", b>>
  PROVE  \E n \in 0..Len(Rest(b)) : /\ reply = SubSeq(Rest(b), 1, n)
                                    /\ (n = Len(Rest(b))) <=> (answer = "good")
                                    /\ n = 0 => tag.kind \notin TypedKinds
<1>1. tag.asked # <<"meta">> /\ tag.asked[2] = b
  OBVIOUS
<1> QED BY <1>1 DEF PartReply

(* An answer in parts goes on where the tag's data end. *)
LEMMA RespondParts ==
  ASSUME TagKindsAssumption, KindsInv, DataInv, NEW answer, Respond(answer), NEW reply,
         tag' = [tag EXCEPT !.req = answer, !.reply = reply], tag.rip,
         tag.kind \in {"listing", "udt"} \cup TypedKinds,
         answer \in {"good", "part"} => reply \in PartReply(answer)
  PROVE  Holds(tag', first)
<1>1. /\ DOMAIN tag = TagFields /\ tag.req = "sent" /\ Holds(tag, first)
  BY DEF KindsInv, Fits, Respond, DataInv
<1>2. PICK u : u = tag'
  OBVIOUS
<1>3. /\ u.kind = tag.kind /\ u.rip = tag.rip /\ u.wip = tag.wip /\ u.req = answer /\ u.offset = tag.offset
      /\ u.nextId = tag.nextId /\ u.fields = tag.fields /\ u.data = tag.data /\ u.size = tag.size
      /\ u.asked = tag.asked /\ u.reply = reply
  BY <1>1, <1>2 DEF TagFields
<1>4. answer \in {"good", "part", "odd", "refused", "dead"}
  <2>1. answer \in AnswersTo(tag)
    BY DEF Respond
  <2>2. tag.kind \notin RawKinds
    BY KindsApart DEF RawKinds
  <2> QED BY <2>1, <2>2, KindsApart DEF AnswersTo
<1>5. AnswerKnown(u)
  BY <1>3, <1>4 DEF AnswerKnown
<1>6. CASE tag.kind = "listing"
  <2>1. ListingHolds(tag, first)
    BY <1>1, <1>6 DEF Holds
  <2>2. PICK had : had = Before(first) + tag.offset
    OBVIOUS
  <2>3. /\ had <= Len(Entries) /\ Before(tag.nextId) = had /\ tag.asked = <<"from", tag.nextId>>
        /\ tag.nextId \in Nat
    BY <1>1, <2>1, <2>2 DEF ListingHolds
  <2>4. had \in 0..Len(Entries) /\ Entries \in Seq(0..(IdRange - 2))
    <3>1. IsBefore(Before(tag.nextId), tag.nextId)
      BY <2>3, BeforeIs
    <3> QED BY <2>3, <3>1 DEF IsBefore, TagKindsAssumption
  <2>5. ASSUME Answered(u)
        PROVE  /\ Sequence(reply) /\ had + Len(reply) <= Len(Entries)
               /\ \A i \in 1..Len(reply) : reply[i] = Entries[had + i]
               /\ u.req = "good" => had + Len(reply) = Len(Entries)
    <3>1. answer \in {"good", "part"}
      BY <1>3, <2>5 DEF Answered
    <3>2. PICK all : all = Rest(tag.nextId)
      OBVIOUS
    <3>3. all = SubSeq(Entries, had + 1, Len(Entries))
      BY <1>6, <2>3, <3>2 DEF Rest, EntriesFrom
    <3>4. PICK n \in 0..Len(all) : reply = SubSeq(all, 1, n) /\ ((n = Len(all)) <=> (answer = "good"))
      BY <2>3, <3>1, <3>2, PartReplies
    <3>5. /\ had + n <= Len(Entries) /\ (n = Len(all) <=> had + n = Len(Entries))
          /\ Sequence(reply) /\ Len(reply) = n
          /\ \A i \in 1..n : reply[i] = Entries[had + i]
      <4>1. Cut(Entries, had, all, n, reply)
        BY <2>4, <3>3, <3>4 DEF Cut, Sequence
      <4>2. Served(Entries, had, all, n, reply)
        BY <4>1, RestPart
      <4> QED BY <4>2 DEF Served
    <3> QED BY <1>3, <3>4, <3>5
  <2>6. ListingHolds(u, first)
    <3>1. u.req # "sent"
      BY <1>3, <1>4
    <3> QED BY <1>3, <2>1, <2>2, <2>5, <3>1 DEF ListingHolds
  <2> QED BY <1>2, <1>3, <1>5, <1>6, <2>6, KindsApart DEF Holds
<1>7. CASE tag.kind = "udt"
  <2>1. UdtHolds(tag)
    BY <1>1, <1>7 DEF Holds
  <2>2. CASE ~tag.fields
    <3>1. tag.asked = <<"meta">>
      BY <1>1, <2>1, <2>2 DEF UdtHolds
    <3>2. answer = "good" => reply = <<0>>
      BY <3>1 DEF PartReply
    <3>3. UdtHolds(u)
      BY <1>3, <1>4, <2>2, <3>2 DEF UdtHolds
    <3> QED BY <1>2, <1>3, <1>5, <1>7, <3>3, UdtKind
  <2>3. CASE tag.fields
    <3>1. PICK b : b = tag.offset
      OBVIOUS
    <3>2. /\ b \in 0..Len(Fields) /\ tag.asked = <<"from", b>>
          /\ tag.size = b + 1 /\ tag.data = <<0>> \o SubSeq(Fields, 1, b)
      BY <1>1, <2>1, <2>3, <3>1 DEF UdtHolds
    <3>3. ASSUME Answered(u)
          PROVE  /\ Sequence(reply) /\ b + Len(reply) <= Len(Fields)
                 /\ reply = SubSeq(Fields, b + 1, b + Len(reply))
                 /\ u.req = "good" => b + Len(reply) = Len(Fields)
      <4>1. answer \in {"good", "part"}
        BY <1>3, <3>3 DEF Answered
      <4>2. PICK all : all = Rest(b)
        OBVIOUS
      <4>3. all = SubSeq(Fields, b + 1, Len(Fields)) /\ Fields \in Seq(Nat)
        BY <1>7, <4>2 DEF Rest, TagKindsAssumption
      <4>4. PICK n \in 0..Len(all) : reply = SubSeq(all, 1, n) /\ ((n = Len(all)) <=> (answer = "good"))
        BY <3>2, <4>1, <4>2, PartReplies
      <4>5. /\ b + n <= Len(Fields) /\ (n = Len(all) <=> b + n = Len(Fields))
            /\ Sequence(reply) /\ Len(reply) = n /\ reply = SubSeq(Fields, b + 1, b + n)
        <5>1. Cut(Fields, b, all, n, reply)
          BY <3>2, <4>3, <4>4 DEF Cut, Sequence
        <5>2. Served(Fields, b, all, n, reply)
          BY <5>1, RestPart
        <5> QED BY <5>2 DEF Served
      <4> QED BY <1>3, <4>4, <4>5
    <3>4. UdtHolds(u)
      <4>1. u.req # "sent" /\ u.fields /\ u.offset = b /\ u.reply = reply /\ u.size = b + 1
            /\ u.data = <<0>> \o SubSeq(Fields, 1, b)
        BY <1>3, <1>4, <2>3, <3>1, <3>2
      <4> QED BY <3>2, <3>3, <4>1 DEF UdtHolds
    <3> QED BY <1>2, <1>3, <1>5, <1>7, <3>4, UdtKind
  <2> QED BY <2>2, <2>3
<1>8. CASE tag.kind \in TypedKinds
  <2>1. PlainHolds(tag)
    BY <1>1, <1>8 DEF Holds
  <2>2. PICK b \in Nat : b = tag.offset
    BY <2>1 DEF PlainHolds
  <2>3. tag.asked = <<"from", b>>
    BY <1>1, <2>1, <2>2 DEF PlainHolds
  <2>4. ASSUME Answered(u)
        PROVE  /\ Sequence(reply) /\ b + Len(reply) <= 2 /\ (u.req = "good" => b + Len(reply) = 2)
    <3>1. answer \in {"good", "part"}
      BY <1>3, <2>4 DEF Answered
    <3>2. PICK all : all = Rest(b)
      OBVIOUS
    <3>3. all = SubSeq(plc, b + 1, 2)
      BY <1>8, <3>2, KindsApart DEF Rest
    <3>4. PICK n \in 0..Len(all) : /\ reply = SubSeq(all, 1, n) /\ ((n = Len(all)) <=> (answer = "good"))
                                   /\ n # 0
      BY <1>8, <2>3, <3>1, <3>2, PartReplies
    <3>5. Sequence(plc) /\ Len(plc) = 2
      BY DEF DataInv
    <3>6. b \in 0..2
      <4>1. CASE b > 2
        <5>1. Len(all) = 0
          BY <3>3, <3>5, <4>1 DEF Sequence
        <5> QED BY <3>4, <5>1
      <4> QED BY <4>1
    <3>7. /\ b + n <= 2 /\ (n = Len(all) <=> b + n = 2) /\ Sequence(reply) /\ Len(reply) = n
      <4>1. Cut(plc, b, all, n, reply)
        BY <3>3, <3>4, <3>5, <3>6 DEF Cut
      <4>2. Served(plc, b, all, n, reply)
        BY <4>1, RestPart
      <4> QED BY <3>5, <4>2 DEF Served
    <3> QED BY <1>3, <3>4, <3>7
  <2>5. PlainHolds(u)
    <3>1. u.req # "sent"
      BY <1>3, <1>4
    <3> QED BY <1>3, <2>1, <2>2, <2>4, <3>1 DEF PlainHolds
  <2> QED BY <1>2, <1>3, <1>5, <1>8, <2>5, PlainKind
<1> QED BY <1>6, <1>7, <1>8

(* A function on 1..n is a sequence of what it is mapped to. *)
LEMMA Mapped ==
  ASSUME NEW n \in Nat, NEW s, s = [i \in 1..n |-> s[i]]
  PROVE  Sequence(s) /\ Len(s) = n
<1>1. s \in [1..n -> {s[i] : i \in 1..n}]
  OBVIOUS
<1>2. s \in Seq({s[i] : i \in 1..n}) /\ Len(s) = n
  BY <1>1, SMTT(30)
<1> QED BY <1>2 DEF Sequence

(* What is written in the PLC is a word, and a tag whose data change in    *)
(* one place has as many items as before.                                  *)
LEMMA WrittenWord ==
  ASSUME NEW w, NEW asked
  PROVE  Sequence(Written(w, asked)) /\ Len(Written(w, asked)) = 2
<1>1. PICK s : s = Written(w, asked)
  OBVIOUS
<1>2. PICK n \in Nat : n = 2
  OBVIOUS
<1>3. s = [b \in 1..n |-> s[b]]
  BY <1>1, <1>2 DEF Written
<1>4. Sequence(s) /\ Len(s) = n
  BY <1>3, Mapped
<1> QED BY <1>1, <1>2, <1>4

LEMMA ChangedIn ==
  ASSUME NEW s, NEW i, NEW x, NEW r, Sequence(s), r = [s EXCEPT ![i] = x]
  PROVE  Sequence(r) /\ Len(r) = Len(s)
<1>1. PICK n \in Nat : n = Len(s)
  BY DEF Sequence
<1>2. DOMAIN s = 1..n
  BY <1>1 DEF Sequence
<1>3. r = [j \in 1..n |-> r[j]]
  BY <1>2
<1>4. Sequence(r) /\ Len(r) = n
  BY <1>3, Mapped
<1> QED BY <1>1, <1>4

(* Whatever a PLC answers, tag and answer together are what was asked for. *)
LEMMA RespondHolds ==
  ASSUME TagKindsAssumption, KindsInv, KindKnown(tag), DataInv, NEW answer, Respond(answer)
  PROVE  DataInv'
<1> DEFINE inParts == tag.kind \in {"listing", "udt"} \cup TypedKinds /\ tag.rip
<1>1. PICK reply : /\ tag' = [tag EXCEPT !.req = answer, !.reply = reply]
                   /\ reply \in (CASE ~inParts -> WordReply(answer)
                                   [] inParts /\ answer \in {"good", "part"} -> PartReply(answer)
                                   [] OTHER -> {<<>>})
  BY Zenon DEF Respond
<1>2. /\ DOMAIN tag = TagFields /\ tag.req = "sent" /\ Holds(tag, first) /\ answer \in AnswersTo(tag)
      /\ Sequence(plc) /\ Len(plc) = 2
  BY DEF KindsInv, Fits, Respond, DataInv
<1>3. /\ tag'.kind = tag.kind /\ tag'.rip = tag.rip /\ tag'.wip = tag.wip /\ tag'.req = answer
      /\ tag'.offset = tag.offset /\ tag'.nextId = tag.nextId /\ tag'.fields = tag.fields
      /\ tag'.data = tag.data /\ tag'.size = tag.size /\ tag'.asked = tag.asked /\ tag'.reply = reply
  BY <1>1, <1>2 DEF TagFields
<1>4. Holds(tag', first)
  <2>1. CASE inParts
    <3>1. answer \in {"good", "part"} => reply \in PartReply(answer)
      BY <1>1, <2>1
    <3> QED BY <1>1, <2>1, <3>1, RespondParts
  <2>2. CASE ~inParts /\ tag.kind \in {"listing", "udt"} \cup TypedKinds
    <3>1. PICK u : u = tag'
      OBVIOUS
    <3>2. answer \in {"good", "part", "odd", "refused", "dead"}
      <4>1. tag.kind \notin RawKinds
        BY <2>2, KindsApart DEF RawKinds
      <4> QED BY <1>2, <2>2, <4>1, KindsApart DEF AnswersTo
    <3>3. AnswerKnown(u)
      BY <1>3, <3>1, <3>2 DEF AnswerKnown
    <3>4. ~u.rip /\ u.kind = tag.kind
      BY <1>3, <2>2, <3>1
    <3>5. CASE tag.kind = "listing"
      <4>1. ListingHolds(u, first)
        BY <1>2, <1>3, <3>1, <3>4, <3>5 DEF Holds, ListingHolds
      <4> QED BY <3>1, <3>3, <3>4, <3>5, <4>1, KindsApart DEF Holds
    <3>6. CASE tag.kind = "udt"
      <4>1. UdtHolds(u)
        BY <3>4 DEF UdtHolds
      <4> QED BY <3>1, <3>3, <3>4, <3>6, <4>1, UdtKind
    <3>7. CASE tag.kind \in TypedKinds
      <4>1. PlainHolds(tag)
        BY <1>2, <3>7 DEF Holds
      <4>2. PlainHolds(u)
        BY <1>3, <3>1, <3>4, <4>1 DEF PlainHolds
      <4> QED BY <3>1, <3>3, <3>4, <3>7, <4>2, PlainKind
    <3> QED BY <2>2, <3>5, <3>6, <3>7
  <2>3. CASE tag.kind \in PcccKinds
    <3>1. reply \in WordReply(answer)
      BY <1>1, <2>3, KindsApart
    <3>2. Len(reply) \in Int
      <4>1. PICK T : plc \in Seq(T)
        BY <1>2 DEF Sequence
      <4>2. reply = <<plc[1]>> \/ reply = plc \o <<0>> \/ reply = plc
        BY <3>1 DEF WordReply
      <4>3. Len(<<plc[1]>>) = 1 /\ Len(plc) \in Int
        BY <1>2
      <4>4. Len(plc \o <<0>>) = Len(plc) + 1
        <5>1. plc \in Seq(T \cup {0}) /\ <<0>> \in Seq(T \cup {0})
          BY <4>1
        <5> QED BY <5>1
      <4> QED BY <4>2, <4>3, <4>4
    <3>3. tag.size \in Int
      BY <1>2, <2>3 DEF Holds, PcccHolds
    <3>4. PICK u : u = tag'
      OBVIOUS
    <3>5. u.kind \in PcccKinds /\ u.size \in Int /\ Len(u.reply) \in Int
      BY <1>3, <2>3, <3>2, <3>3, <3>4
    <3> QED BY <3>4, <3>5, PcccSized
  <2>4. CASE tag.kind \in {"lgx"} \cup RawKinds
    BY <1>3, <2>4, LooseHolds
  <2> QED BY <2>1, <2>2, <2>3, <2>4 DEF KindKnown
<1>5. Sequence(plc') /\ Len(plc') = 2
  BY <1>2, WrittenWord DEF Respond
<1> QED BY <1>3, <1>4, <1>5 DEF DataInv, Respond

-----------------------------------------------------------------------------
(* The specification *)

(* What the application and the tickler make of a tag holds what it did. *)
LEMMA KeptHolds ==
  ASSUME NEW t, NEW from, Fits(t), Holds(t, from)
  PROVE  Holds(Kept(t), from)
BY KeptAlike, AlikeHolds

LEMMA AbortedHolds ==
  ASSUME NEW t, NEW from, DOMAIN t = TagFields, Bare(t)
  PROVE  /\ Holds(ClearFlight(VtableAbort(t)), from) /\ Fits(ClearFlight(VtableAbort(t)))
         /\ ClearFlight(VtableAbort(t)).kind = t.kind
<1>1. DOMAIN VtableAbort(t) = TagFields
  BY AbortFits DEF VtableAbort, Fitting, Fits
<1>2. Holds(VtableAbort(t), from)
  BY AbortHolds
<1> DEFINE v == VtableAbort(t)
<1> HIDE DEF v
<1>3. Alike(v, ClearFlight(v))
  BY <1>1 DEF v, Alike, TagFields, ClearFlight
<1>4. Holds(ClearFlight(v), from)
  BY <1>2, <1>3, AlikeHolds DEF v
<1> QED BY <1>4, VtableAborts DEF v, Fitting

(* A read that starts, or that fails to *)
LEMMA ReadHolds ==
  ASSUME TagKindsAssumption, KindsInv, KindKnown(tag), DataInv, NEW f, Read(f)
  PROVE  DataInv'
<1> DEFINE begun == [tag EXCEPT !.rif = TRUE, !.status = "PENDING"]
           r == ReadStart(begun, f)
           over == [r.tag EXCEPT !.abortReq = TRUE]
<1>1. DOMAIN tag = TagFields /\ Fits(tag) /\ Holds(tag, first)
  BY DEF KindsInv, Fits, DataInv
<1>2. Alike(tag, begun) /\ Fitting(tag, begun) /\ KindKnown(begun) /\ begun.nextId = tag.nextId
  BY <1>1 DEF Alike, Fitting, Fits, TagFields, KindKnown
<1>3. tag' = Kept(IF r.rc = "PENDING" THEN r.tag ELSE ClearFlight(VtableAbort(over)))
      /\ first' = tag.nextId /\ plc' = plc
  BY DEF Read
<1> HIDE DEF begun
<1>4. Holds(begun, first)
  BY <1>1, <1>2, AlikeHolds
<1>5. Bare(r.tag) /\ (r.rc = "PENDING" => Holds(r.tag, tag.nextId))
  BY <1>2, <1>4, ReadStartHolds DEF Fitting
<1>6. DOMAIN r.tag = TagFields /\ r.tag.kind = tag.kind /\ (r.rc = "PENDING" => Fits(r.tag))
  BY <1>2, ReadStarts DEF Started, From, Fitting
<1> HIDE DEF r
<1>7. DOMAIN over = TagFields /\ Alike(r.tag, over) /\ over.kind = tag.kind
  BY <1>6 DEF Alike, TagFields
<1>8. Bare(over)
  BY <1>5, <1>7, AlikeBare
<1> HIDE DEF over
<1>9. Holds(tag', tag.nextId)
  <2>1. CASE r.rc = "PENDING"
    BY <1>3, <1>5, <1>6, <2>1, KeptHolds
  <2>2. CASE r.rc # "PENDING"
    BY <1>3, <1>7, <1>8, <2>2, AbortedHolds, KeptHolds
  <2> QED BY <2>1, <2>2
<1>10. tag'.kind = tag.kind
  BY CallsKeep DEF Fitting
<1>11. tag.kind = "listing" => tag.nextId \in Nat
  BY <1>1 DEF Holds, ListingHolds
<1> QED BY <1>3, <1>9, <1>10, <1>11 DEF DataInv

LEMMA WriteHolds ==
  ASSUME TagKindsAssumption, KindsInv, KindKnown(tag), DataInv, NEW f, Write(f)
  PROVE  DataInv'
<1> DEFINE begun == [tag EXCEPT !.wif = TRUE, !.status = "OK"]
           r == WriteStart(begun, f)
           aborted == VtableAbort(r.tag)
           over == [aborted EXCEPT !.wif = FALSE]
<1>1. DOMAIN tag = TagFields /\ Fits(tag) /\ Holds(tag, first)
  BY DEF KindsInv, Fits, DataInv
<1>2. Alike(tag, begun) /\ Fitting(tag, begun) /\ KindKnown(begun)
  BY <1>1 DEF Alike, Fitting, Fits, TagFields, KindKnown
<1>3. tag' = Kept(IF r.rc = "PENDING" THEN r.tag ELSE over) /\ first' = first /\ plc' = plc
  BY DEF Write
<1> HIDE DEF begun
<1>4. Holds(begun, first)
  BY <1>1, <1>2, AlikeHolds
<1>5. Bare(r.tag) /\ (r.rc = "PENDING" => Holds(r.tag, first))
  BY <1>2, <1>4, WriteStartHolds DEF Fitting
<1>6. DOMAIN r.tag = TagFields /\ (r.rc = "PENDING" => Fits(r.tag))
  BY <1>2, WriteStarts DEF Started, From, Fitting
<1> HIDE DEF r
<1>7. DOMAIN aborted = TagFields /\ Fits(aborted) /\ Holds(aborted, first)
  BY <1>5, <1>6, AbortFits, AbortHolds DEF VtableAbort, Fitting, Fits
<1> HIDE DEF aborted
<1>8. Alike(aborted, over) /\ Fits(over)
  BY <1>7 DEF Alike, Fits, TagFields
<1> HIDE DEF over
<1>9. Holds(tag', first)
  <2>1. CASE r.rc = "PENDING"
    BY <1>3, <1>5, <1>6, <2>1, KeptHolds
  <2>2. CASE r.rc # "PENDING"
    BY <1>3, <1>7, <1>8, <2>2, AlikeHolds, KeptHolds
  <2> QED BY <2>1, <2>2
<1>10. tag'.kind = tag.kind
  BY CallsKeep DEF Fitting
<1> QED BY <1>3, <1>9, <1>10 DEF DataInv

(* What a turn of the tickler makes of a tag, and how it ends a read *)
LEMMA TurnEnds ==
  ASSUME TagKindsAssumption, KindsInv, KindKnown(tag), DataInv, NEW f, Status(f) \/ Tick(f)
  PROVE  Holds(tag', first) /\ (~tag.abortReq => Ends(tag, tag', first))
<1>1. DOMAIN tag = TagFields /\ Fits(tag) /\ Holds(tag, first)
      /\ (tag.kind = "listing" => first \in Nat)
  BY DEF KindsInv, Fits, DataInv
<1>2. ASSUME NEW t, NEW u, Fits(u), Ends(t, u, first)
      PROVE  Ends(t, Kept(u), first)
  <2>1. Alike(u, Kept(u)) /\ Kept(u).status = u.status
    BY <1>2, KeptAlike DEF Kept, Fits, TagFields
  <2> DEFINE k == Kept(u)
  <2> HIDE DEF k
  <2>2. Holds(k, first) /\ k.rip = u.rip
    BY <1>2, <2>1, AlikeHolds DEF Ends, Alike, k
  <2>3. HasAll(u, t.reply, first) => HasAll(k, t.reply, first)
    BY <2>1, AlikeAll DEF k
  <2>4. Ends(t, k, first)
    BY <1>2, <2>1, <2>2, <2>3 DEF Ends, k
  <2> QED BY <2>4 DEF k
<1>3. CASE Status(f)
  <2>1. Ends(tag, Tickler(tag, f), first) /\ Fits(Tickler(tag, f))
    BY <1>1, TicklerReads, Ticks DEF Fitting
  <2>2. tag' = Kept(Tickler(tag, f))
    BY <1>3 DEF Status
  <2>3. Ends(tag, tag', first)
    BY <1>2, <2>1, <2>2
  <2> QED BY <2>3 DEF Ends
<1>4. CASE Tick(f)
  <2> DEFINE aborted == ClearFlight(VtableAbort(tag))
             before == IF tag.abortReq THEN [aborted EXCEPT !.abortReq = FALSE] ELSE tag
             after == Tickler(before, f)
             end == [after EXCEPT !.rif = @ /\ ~after.rdone, !.rdone = FALSE,
                                  !.wif = @ /\ ~after.wdone, !.wdone = FALSE]
  <2>1. Fits(aborted) /\ Holds(aborted, first) /\ aborted.kind = tag.kind /\ DOMAIN aborted = TagFields
    BY <1>1, HoldsBare, AbortedHolds DEF Fits
  <2> HIDE DEF aborted
  <2>2. Fits(before) /\ Holds(before, first) /\ before.kind = tag.kind
        /\ (~tag.abortReq => before = tag)
    <3>1. CASE tag.abortReq
      <4>1. PICK v : v = [aborted EXCEPT !.abortReq = FALSE]
        OBVIOUS
      <4>2. Alike(aborted, v) /\ Fits(v) /\ v.kind = tag.kind
        BY <2>1, <4>1 DEF Alike, Fits, TagFields
      <4>3. Holds(v, first)
        BY <2>1, <4>2, AlikeHolds
      <4> QED BY <3>1, <4>1, <4>2, <4>3
    <3>2. CASE ~tag.abortReq
      BY <1>1, <3>2
    <3> QED BY <3>1, <3>2
  <2> HIDE DEF before
  <2>3. KindKnown(before) /\ (before.kind = "listing" => first \in Nat)
    BY <1>1, <2>2 DEF KindKnown
  <2>4. Ends(before, after, first) /\ Fits(after)
    BY <2>2, <2>3, TicklerReads, Ticks DEF Fitting
  <2> HIDE DEF after
  <2>5. Alike(after, end) /\ Fits(end) /\ end.status = after.status
    <3>1. PICK a, b : a = (after.rif /\ ~after.rdone) /\ b = (after.wif /\ ~after.wdone)
      OBVIOUS
    <3>2. end = [after EXCEPT !.rif = a, !.rdone = FALSE, !.wif = b, !.wdone = FALSE]
      BY <2>4, <3>1 DEF Fits, TagFields
    <3> HIDE DEF end
    <3> QED BY <2>4, <3>2 DEF Alike, Fits, TagFields
  <2>6. tag' = Kept(end)
    BY <1>4 DEF Tick, end, after, before, aborted
  <2> HIDE DEF end
  <2>7. Holds(end, first) /\ end.rip = after.rip
    BY <2>4, <2>5, AlikeHolds DEF Ends, Alike
  <2>8. HasAll(after, before.reply, first) => HasAll(end, before.reply, first)
    BY <2>5, AlikeAll
  <2>9. Ends(before, end, first)
    BY <2>4, <2>5, <2>7, <2>8 DEF Ends
  <2>10. Ends(before, tag', first)
    BY <1>2, <2>5, <2>6, <2>9
  <2> QED BY <2>2, <2>10 DEF Ends
<1> QED BY <1>3, <1>4

LEMMA OthersHold ==
  ASSUME TagKindsAssumption, KindsInv, DataInv, Abort \/ GiveUpWait \/ Set \/ PlcChange \/ UNCHANGED vars
  PROVE  DataInv'
<1>1. DOMAIN tag = TagFields /\ Fits(tag) /\ Holds(tag, first) /\ Bare(tag)
  BY HoldsBare DEF KindsInv, Fits, DataInv
<1>2. CASE Abort
  <2> DEFINE asked == [tag EXCEPT !.abortReq = TRUE]
  <2>1. DOMAIN asked = TagFields /\ Alike(tag, asked) /\ asked.kind = tag.kind
    BY <1>1 DEF Alike, TagFields
  <2>2. tag' = Kept(ClearFlight(VtableAbort(asked))) /\ first' = first /\ plc' = plc
    BY <1>2 DEF Abort
  <2> HIDE DEF asked
  <2>3. Bare(asked)
    BY <1>1, <2>1, AlikeBare
  <2>4. Holds(tag', first)
    BY <2>1, <2>2, <2>3, AbortedHolds, KeptHolds
  <2>5. tag'.kind = tag.kind
    BY <1>2, OthersKeep DEF Fitting
  <2> QED BY <2>2, <2>4, <2>5 DEF DataInv
<1>3. CASE GiveUpWait
  <2>1. tag' = [tag EXCEPT !.rif = FALSE, !.wif = FALSE, !.rdone = FALSE, !.wdone = FALSE]
        /\ first' = first /\ plc' = plc
    BY <1>3 DEF GiveUpWait
  <2>2. PICK u : u = tag'
    OBVIOUS
  <2>3. Alike(tag, u) /\ u.kind = tag.kind
    BY <1>1, <2>1, <2>2 DEF Alike, TagFields
  <2>4. Holds(u, first)
    BY <1>1, <2>3, AlikeHolds
  <2> QED BY <2>1, <2>2, <2>3, <2>4 DEF DataInv
<1>4. CASE Set
  <2>1. PICK i, x, d : i = 1 /\ x = 1 - tag.data[i] /\ d = [tag.data EXCEPT ![i] = x]
    OBVIOUS
  <2>2. PICK u : u = [tag EXCEPT !.data = d]
    OBVIOUS
  <2>3. tag' = u /\ first' = first /\ plc' = plc /\ tag.kind \notin {"listing", "udt"}
    BY <1>1, <1>4, <2>1, <2>2 DEF Set, TagFields
  <2>4. /\ u.kind = tag.kind /\ u.rip = tag.rip /\ u.wip = tag.wip /\ u.req = tag.req /\ u.offset = tag.offset
        /\ u.size = tag.size /\ u.asked = tag.asked /\ u.reply = tag.reply /\ u.data = d
    BY <1>1, <2>2 DEF TagFields
  <2>5. tag.kind \in TypedKinds => PlainHolds(u)
    <3>1. SUFFICES ASSUME tag.kind \in TypedKinds PROVE PlainHolds(u)
      OBVIOUS
    <3>2. PlainHolds(tag)
      BY <1>1, <3>1 DEF Holds
    <3>3. Sequence(d) /\ Len(d) = Len(tag.data)
      <4>1. PICK s : s = tag.data
        OBVIOUS
      <4>2. Sequence(s) /\ d = [s EXCEPT ![i] = x]
        BY <2>1, <3>2, <4>1 DEF PlainHolds
      <4>3. Sequence(d) /\ Len(d) = Len(s)
        BY <4>2, ChangedIn
      <4> QED BY <4>1, <4>3
    <3>4. Sequence(u.data) /\ Len(u.data) = tag.size
      BY <2>4, <3>2, <3>3 DEF PlainHolds
    <3> QED BY <2>4, <3>2, <3>4, Zenon DEF PlainHolds, Answered
  <2>6. tag.kind \in PcccKinds => PcccHolds(u)
    BY <1>1, <2>4 DEF Holds, PcccHolds
  <2>7. AnswerKnown(u)
    BY <1>1, <2>4 DEF Holds, AnswerKnown
  <2>8. Holds(u, first)
    BY <2>3, <2>4, <2>5, <2>6, <2>7 DEF Holds
  <2> QED BY <2>3, <2>4, <2>8 DEF DataInv
<1>5. CASE PlcChange
  <2>1. PICK b : plc' = [plc EXCEPT ![b] = 1 - @]
    BY <1>5 DEF PlcChange
  <2>2. PICK x : plc' = [plc EXCEPT ![b] = x]
    BY <2>1
  <2>3. Sequence(plc') /\ Len(plc') = 2
    BY <2>2, ChangedIn DEF DataInv
  <2> QED BY <1>5, <2>3 DEF PlcChange, DataInv
<1>6. CASE UNCHANGED vars
  BY <1>6 DEF vars, DataInv
<1> QED BY <1>2, <1>3, <1>4, <1>5, <1>6

(* A new tag holds nothing yet. *)
LEMMA NewHolds ==
  ASSUME NEW k, NEW connected
  PROVE  LET t == NewTag(k, connected)
         IN  Bare(t) /\ Idle(t) /\ t.kind = k /\ t.offset = 0 /\ t.nextId = 0
<1> DEFINE t == NewTag(k, connected)
<1>1. /\ t.kind = k /\ ~t.rip /\ ~t.wip /\ t.req = "none" /\ t.offset = 0 /\ t.nextId = 0
      /\ k \in PcccKinds => t.size = 2
      /\ k \notin PcccKinds /\ k # "lgx" => t.size = 0 /\ t.data = <<>>
  BY DEF NewTag
<1> HIDE DEF t
<1>2. Sequence(<<>>) /\ Len(<<>>) = 0
  BY DEF Sequence
<1>3. Bare(t)
  <2>1. CASE k \in PcccKinds
    BY <1>1, <2>1, KindsApart DEF Bare
  <2>2. CASE k \notin PcccKinds
    <3>1. k = "listing" \/ k \in TypedKinds => t.size = 0 /\ t.data = <<>>
      BY <1>1, <2>2, KindsApart
    <3> QED BY <1>1, <1>2, <2>2, <3>1 DEF Bare
  <2> QED BY <2>1, <2>2
<1>4. Idle(t)
  BY <1>1 DEF Idle
<1> QED BY <1>1, <1>3, <1>4 DEF t

LEMMA DataInit == ASSUME TagKindsAssumption, Init PROVE DataInv
<1>1. PICK k \in Kinds, connected \in BOOLEAN :
        LET t == NewTag(k, connected)
        IN  IF k \in TypedKinds THEN \E f \in FaultsOf(t) : tag = Kept(ReadStart(t, f).tag)
                                ELSE tag = t
  BY DEF Init
<1> DEFINE t == NewTag(k, connected)
<1>2. Fits(t) /\ ~(t.rip \/ t.wip)
  BY NewFits DEF NewTag
<1>3. Bare(t) /\ Idle(t) /\ t.kind = k /\ t.offset = 0
  BY NewHolds
<1>4. first = 0 /\ Sequence(plc) /\ Len(plc) = 2
  <2>1. first = 0 /\ plc = <<0, 1>>
    BY DEF Init, Word
  <2>2. <<0, 1>> \in Seq(Nat) /\ Len(<<0, 1>>) = 2
    OBVIOUS
  <2> QED BY <2>1, <2>2 DEF Sequence
<1>5. (k \in TypedKinds => \E f \in FaultsOf(t) : tag = Kept(ReadStart(t, f).tag))
      /\ (k \notin TypedKinds => tag = t)
  BY <1>1
<1> HIDE DEF t
<1>6. ASSUME k \in TypedKinds PROVE Holds(tag, first) /\ tag.kind = k
  <2>1. PICK f \in FaultsOf(t) : tag = Kept(ReadStart(t, f).tag)
    BY <1>5, <1>6
  <2>2. /\ k \in PlainCip => ReadStart(t, f) = CipReadStart(t, f)
        /\ k \in PlainOmron => ReadStart(t, f) = OmronReadStart(t, f)
    BY <1>3, <1>6 DEF ReadStart, RawKinds, PlainCip, PlainOmron, PlcKinds
  <2>3. Fitting(t, ReadStart(t, f).tag)
    BY <1>2, <1>3, <1>6, <2>2, CipReadStarts, OmronReadStarts DEF TypedKinds, Fitting, Started, From
  <2>4. Holds(ReadStart(t, f).tag, first)
    <3>1. CASE k \in PlainCip
      BY <1>2, <1>3, <2>2, <3>1, CipReadHolds
    <3>2. CASE k \in PlainOmron
      BY <1>2, <1>3, <2>2, <3>2, OmronReadHolds
    <3> QED BY <1>6, <3>1, <3>2 DEF TypedKinds
  <2> DEFINE u == ReadStart(t, f).tag
  <2> HIDE DEF u
  <2>5. Fits(u) /\ Holds(u, first) /\ u.kind = k
    BY <1>3, <2>3, <2>4 DEF u, Fitting
  <2>6. tag = Kept(u)
    BY <2>1 DEF u
  <2> QED BY <2>5, <2>6, KeptHolds, KeptFits DEF Fitting
<1>7. ASSUME k \notin TypedKinds PROVE Holds(tag, first) /\ tag.kind = k
  BY <1>3, <1>5, <1>7, IdleHolds
<1> QED BY <1>4, <1>6, <1>7 DEF DataInv

LEMMA DataNext ==
  ASSUME TagKindsAssumption, KindsInv, KindKnown(tag), DataInv, [Next]_vars
  PROVE  DataInv'
<1>1. ASSUME NEW f, Status(f) \/ Tick(f) PROVE DataInv'
  <2>1. Holds(tag', first)
    BY <1>1, TurnEnds
  <2>2. tag'.kind = tag.kind
    BY <1>1, CallsKeep DEF Fitting
  <2>3. first' = first /\ plc' = plc
    BY <1>1 DEF Status, Tick
  <2> QED BY <2>1, <2>2, <2>3 DEF DataInv
<1>2. CASE \E f \in FaultsOf(tag) : Read(f) \/ Write(f) \/ Status(f) \/ Tick(f)
  BY <1>1, <1>2, ReadHolds, WriteHolds
<1>3. CASE Abort \/ GiveUpWait \/ Set \/ PlcChange \/ UNCHANGED vars
  BY <1>3, OthersHold
<1>4. CASE \E answer \in Answers : Respond(answer)
  BY <1>4, RespondHolds
<1> QED BY <1>2, <1>3, <1>4 DEF Next

LEMMA DataInvariant ==
  ASSUME TagKindsAssumption
  PROVE  Spec => [](KindsInv /\ KindKnown(tag) /\ DataInv)
<1> DEFINE IInv == KindsInv /\ KindKnown(tag) /\ DataInv
<1>1. Init => IInv
  BY KindsInit, DataInit
<1>2. IInv /\ [Next]_vars => IInv'
  BY KindsNext, DataNext
<1> HIDE DEF IInv
<1>3. Spec => []IInv
  BY <1>1, <1>2, PTL DEF Spec
<1> QED BY <1>3 DEF IInv

(* A read that the tickler ends with success has all it was for: a listing *)
(* every entry from where it began, once and in order; a UDT its header    *)
(* and every field; the other kinds the word of the last answer.  That is  *)
(* so whatever the read met on the way: partial answers and empty ones,    *)
(* errors and aborts of reads before it, other programs that change the    *)
(* PLC's word (eip_cip_special.c:870, 1310, 1613; eip_cip.c:1300, 1462;    *)
(* pccc.c:1648, 2597; omron_standard_tag.c:1252).                          *)
THEOREM KindsReadsWhole ==
  ASSUME TagKindsAssumption
  PROVE  Spec => ReadsWhole
<1>1. ASSUME KindsInv, KindKnown(tag), DataInv, tag.rip, ~tag'.rip, tag'.status = "OK", ~tag.abortReq,
             NEW f \in FaultsOf(tag), Status(f) \/ Tick(f)
      PROVE  Whole(tag')
  <2>1. HasAll(tag', tag.reply, first)
    BY <1>1, TurnEnds DEF Ends
  <2> QED BY <2>1, Zenon DEF HasAll, Whole
<1>2. (KindsInv /\ KindKnown(tag) /\ DataInv) /\ [Next]_vars =>
        [/\ tag.rip /\ ~tag'.rip /\ tag'.status = "OK" /\ ~tag.abortReq
         /\ \E f \in FaultsOf(tag) : Status(f) \/ Tick(f)
         => Whole(tag')]_vars
  BY <1>1
<1> QED BY <1>2, DataInvariant, PTL DEF Spec, ReadsWhole

-----------------------------------------------------------------------------
(* The events of the run's tags *)

EventsInv == /\ part = "pair" => Two!IInv
             /\ part = "auto" => Automatic!IInv
             /\ part \notin {"pair", "auto"} => One!IInv

(* Every tag's callback in the run calls functions of its own tag, or of   *)
(* the second of two.                                                      *)
LEMMA Hierarchies == One!Hierarchy /\ Two!Hierarchy /\ Automatic!Hierarchy
<1>1. [t \in {e1} |-> 0] \in [{e1} -> Nat]
  OBVIOUS
<1>2. One!Hierarchy
  BY <1>1 DEF One!Hierarchy
<1>3. Automatic!Hierarchy
  BY <1>1 DEF Automatic!Hierarchy
<1>4. Two!Hierarchy
  <2> DEFINE level == [t \in {e1, e2} |-> IF t = e2 THEN 0 ELSE 1]
  <2>1. level \in [{e1, e2} -> Nat]
    OBVIOUS
  <2>2. \A t \in {e1, e2} :
          [u \in {e1, e2} |-> e2][t] \notin {None, t} =>
            level[[u \in {e1, e2} |-> e2][t]] < level[t]
    OBVIOUS
  <2> HIDE DEF level
  <2> QED BY <2>1, <2>2, Zenon DEF Two!Hierarchy
<1> QED BY <1>2, <1>3, <1>4

(* The invariant of each choice of tags in the run's own specification *)
LEMMA EventsHold == TagsSpec => []EventsInv
<1>1. TagsInit => EventsInv
  <2> SUFFICES ASSUME TagsInit PROVE EventsInv
    OBVIOUS
  <2>1. ASSUME part = "pair" PROVE Two!IInv
    <3>1. Two!Init
      BY <2>1, Zenon DEF TagsInit
    <3> QED BY <3>1, EventAssumption, Two!InitIInv
  <2>2. ASSUME part = "auto" PROVE Automatic!IInv
    <3>1. Automatic!Init
      BY <2>2, Zenon DEF TagsInit
    <3> QED BY <3>1, EventAssumption, Automatic!InitIInv
  <2>3. ASSUME part \notin {"pair", "auto"} PROVE One!IInv
    <3>1. One!Init
      BY <2>3, Zenon DEF TagsInit
    <3> QED BY <3>1, EventAssumption, One!InitIInv
  <2> QED BY <2>1, <2>2, <2>3 DEF EventsInv
<1>2. EventsInv /\ [TagsNext]_tagsVars => EventsInv'
  <2> SUFFICES ASSUME EventsInv, [TagsNext]_tagsVars PROVE EventsInv'
    OBVIOUS
  <2>1. part' = part
    BY DEF TagsNext, tagsVars
  <2>2. ASSUME part = "pair" PROVE [Two!Next]_(Two!vars)
    BY <2>2 DEF TagsNext, tagsVars, eventVars, Two!vars
  <2>3. ASSUME part = "auto" PROVE [Automatic!Next]_(Automatic!vars)
    BY <2>3 DEF TagsNext, tagsVars, eventVars, Automatic!vars
  <2>4. ASSUME part \notin {"pair", "auto"} PROVE [One!Next]_(One!vars)
    BY <2>4 DEF TagsNext, tagsVars, eventVars, One!vars
  <2>5. ASSUME part = "pair" PROVE Two!IInv'
    BY <2>2, <2>5, EventAssumption, Two!NextIInv DEF EventsInv
  <2>6. ASSUME part = "auto" PROVE Automatic!IInv'
    BY <2>3, <2>6, EventAssumption, Automatic!NextIInv DEF EventsInv
  <2>7. ASSUME part \notin {"pair", "auto"} PROVE One!IInv'
    BY <2>4, <2>7, EventAssumption, One!NextIInv DEF EventsInv
  <2> QED BY <2>1, <2>5, <2>6, <2>7 DEF EventsInv
<1> QED BY <1>1, <1>2, PTL DEF TagsSpec

(* Among any threads of the run's application and the tickler, one waits   *)
(* for none of them (libplctag.h:260).                                     *)
THEOREM TagsNoDeadlock == TagsSpec => []NoDeadlock
<1>1. EventsInv => NoDeadlock
  BY EventAssumption, Hierarchies, One!HierarchyFree, Two!HierarchyFree, Automatic!HierarchyFree
     DEF EventsInv, NoDeadlock
<1> QED BY <1>1, EventsHold, PTL

(* With and without automatic reads, the run's callbacks are told of the   *)
(* creation before what follows it, and of no more ends than starts        *)
(* (tag_raise_event()).                                                    *)
THEOREM TagsToldInOrder == TagsSpec => []ToldInOrder
<1>1. One!Single /\ Two!Single /\ Automatic!Single
  BY DEF One!Single, Two!Single, Automatic!Single
<1>2. EventsInv => ToldInOrder
  BY <1>1, EventAssumption, One!OrderedWhenTold, Two!OrderedWhenTold, Automatic!OrderedWhenTold
     DEF EventsInv, ToldInOrder
<1> QED BY <1>2, EventsHold, PTL

=============================================================================
