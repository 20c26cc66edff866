---------------------------- MODULE TagOpsProofs ----------------------------
(***************************************************************************)
(* Proofs about TagOps: whatever threads, tickler and session do, the tag  *)
(* has its types, a request exactly while an operation is in progress, and *)
(* a fragment offset of zero between operations.  Under the conditions     *)
(* that the two last parts name, data waiting for its automatic write is   *)
(* kept, and a call that returns PLCTAG_STATUS_OK has done its work.       *)
(***************************************************************************)
EXTENDS TagOps, TLAPS

(* What IInv says of the tag, for any tag record: the protocol's functions *)
(* are called between the blocks, and one upon the other's result.         *)
Fits(t) ==
  /\ t \in TagRecord
  /\ (t.req # "none") <=> (t.rip \/ t.wip)
  /\ ~(t.rip /\ t.wip)
  /\ t.req = "part" => t.rip /\ t.offset + 1 < Fragments
  /\ t.wip => t.typed

Reset(t) == t.req = "none" => t.offset = 0

(* Tags that differ only in what Fits and Reset do not look at. *)
SameRequest(t, u) ==
  /\ u.req = t.req /\ u.rip = t.rip /\ u.wip = t.wip
  /\ u.offset = t.offset /\ u.typed = t.typed

LEMMA SameFits ==
  ASSUME NEW t, Fits(t), NEW u \in TagRecord, SameRequest(t, u)
  PROVE  Fits(u) /\ (Reset(t) => Reset(u))
BY DEF Fits, Reset, SameRequest

-----------------------------------------------------------------------------
(* The protocol's functions *)

(* Whatever the tag was like, it fits once its request is aborted. *)
LEMMA AbortRequestFits ==
  ASSUME NEW t \in TagRecord
  PROVE  /\ Fits(AbortRequest(t)) /\ Reset(AbortRequest(t))
         /\ AbortRequest(t).req = "none"
<1> DEFINE u == AbortRequestOnly(t)
<1>1. u \in TagRecord /\ u.req = "none" /\ ~u.rip /\ ~u.wip
  BY DEF TagRecord, AbortRequestOnly
<1> HIDE DEF u
<1>2. 0 \in 0..Fragments
  BY SizeAssumption
<1> DEFINE v == [u EXCEPT !.offset = 0]
<1>3. v \in TagRecord /\ v.req = "none" /\ ~v.rip /\ ~v.wip /\ v.offset = 0
  BY <1>1, <1>2 DEF TagRecord
<1>4. AbortRequest(t) = v
  BY DEF AbortRequest, u
<1> HIDE DEF v
<1> QED BY <1>3, <1>4 DEF Fits, Reset

LEMMA TagAbortFits ==
  ASSUME NEW t, Fits(t)
  PROVE  Fits(TagAbort(t).tag) /\ (Reset(t) => Reset(TagAbort(t).tag))
<1> DEFINE u == AbortRequest(t)
           v == [u EXCEPT !.status = "ABORT"]
<1>1. Fits(u) /\ Reset(u)
  BY AbortRequestFits DEF Fits
<1> HIDE DEF u
<1>2. v \in TagRecord /\ SameRequest(u, v)
  BY <1>1 DEF Fits, TagRecord, Codes, SameRequest
<1>3. Fits(v) /\ Reset(v)
  BY <1>1, <1>2, SameFits
<1>4. TagAbort(t) = IF t.req = "none" THEN Result(t, "OK") ELSE Result(v, "ABORT")
  BY DEF TagAbort, u
<1> HIDE DEF v
<1> QED BY <1>3, <1>4 DEF Result

(* A start leaves a tag that fits as one that fits, and any idle tag, at   *)
(* whatever offset, if a request goes out.                                 *)
Started(t, r) ==
  /\ r.tag \in TagRecord /\ r.rc \in Codes
  /\ Fits(t) => Fits(r.tag)
  /\ Reset(t) => Reset(r.tag)
  /\ ~(t.rip \/ t.wip) /\ r.rc = "PENDING" => Fits(r.tag) /\ Reset(r.tag)

LEMMA NotStarted ==
  ASSUME NEW t \in TagRecord, NEW code \in Codes \ {"PENDING"}
  PROVE  Started(t, Result(t, code))
BY DEF Started, Result

LEMMA ReadStartFits ==
  ASSUME NEW t \in TagRecord, NEW b \in BOOLEAN
  PROVE  /\ Started(t, ReadStart(t, b))
         /\ ~(t.rip \/ t.wip) /\ b => ReadStart(t, b).rc = "PENDING"
<1>1. CASE t.rip \/ t.wip
  <2>1. ReadStart(t, b) = Result(t, "BUSY")
    BY <1>1 DEF ReadStart
  <2> QED BY <1>1, <2>1, NotStarted DEF Codes
<1>2. CASE ~(t.rip \/ t.wip) /\ b
  <2> DEFINE v == [t EXCEPT !.rip = TRUE, !.req = "sent"]
  <2>1. ReadStart(t, b) = Result(v, "PENDING")
    BY <1>2 DEF ReadStart, BuildRead, Result
  <2>2. v \in TagRecord /\ v.rip /\ v.req = "sent" /\ v.wip = t.wip
    BY DEF TagRecord
  <2> HIDE DEF v
  <2>3. Fits(v) /\ Reset(v)
    BY <1>2, <2>2 DEF Fits, Reset
  <2> QED BY <2>1, <2>2, <2>3 DEF Started, Result, Codes
<1>3. CASE ~(t.rip \/ t.wip) /\ ~b
  <2>1. [[t EXCEPT !.rip = TRUE] EXCEPT !.rip = FALSE] = t
    BY <1>3 DEF TagRecord
  <2>2. ReadStart(t, b) = Result(t, "NO_MEM")
    BY <1>3, <2>1 DEF ReadStart, BuildRead, Result
  <2> QED BY <1>3, <2>2, NotStarted DEF Codes
<1> QED BY <1>1, <1>2, <1>3

LEMMA WriteStartFits ==
  ASSUME NEW t \in TagRecord, NEW b \in BOOLEAN
  PROVE  /\ Started(t, WriteStart(t, b))
         /\ ~(t.rip \/ t.wip) /\ b /\ t.typed => WriteStart(t, b).rc = "PENDING"
<1>1. CASE t.rip \/ t.wip
  <2>1. WriteStart(t, b) = Result(t, "BUSY")
    BY <1>1 DEF WriteStart
  <2> QED BY <1>1, <2>1, NotStarted DEF Codes
<1>2. CASE ~(t.rip \/ t.wip) /\ t.firstRead
  <2> DEFINE u == [t EXCEPT !.preRead = TRUE]
  <2>1. WriteStart(t, b) = ReadStart(u, b)
    BY <1>2 DEF WriteStart
  <2>2. u \in TagRecord /\ SameRequest(t, u)
    BY DEF TagRecord, SameRequest
  <2> HIDE DEF u
  <2>3. ~(u.rip \/ u.wip)
    BY <1>2, <2>2 DEF SameRequest
  <2> QED BY <1>2, <2>1, <2>2, <2>3, ReadStartFits, SameFits DEF Started, Reset, SameRequest
<1>3. CASE ~(t.rip \/ t.wip \/ t.firstRead)
  <2> DEFINE u == [t EXCEPT !.wip = TRUE]
             next == IF u.offset < Fragments THEN u.offset + 1 ELSE u.offset
             v == [u EXCEPT !.req = "sent", !.offset = next]
  <2>1. u \in TagRecord /\ u.wip /\ ~u.rip /\ u.typed = t.typed /\ [u EXCEPT !.wip = FALSE] = t
    BY <1>3 DEF TagRecord
  <2>0. WriteStart(t, b) = IF BuildWrite(u, b).rc = "OK"
                             THEN Result(BuildWrite(u, b).tag, "PENDING")
                             ELSE Result([BuildWrite(u, b).tag EXCEPT !.wip = FALSE],
                                         BuildWrite(u, b).rc)
    BY <1>3 DEF WriteStart
  <2> HIDE DEF u
  <2>2. CASE b /\ t.typed
    <3>1. BuildWrite(u, b) = Result(v, "OK")
      BY <2>1, <2>2 DEF BuildWrite, TagRecord
    <3>2. next \in 0..Fragments
      BY <2>1, SizeAssumption DEF TagRecord
    <3> HIDE DEF next
    <3>3. v \in TagRecord /\ v.req = "sent" /\ v.wip /\ ~v.rip /\ v.typed
      BY <2>1, <2>2, <3>2 DEF TagRecord
    <3> HIDE DEF v
    <3>4. Fits(v) /\ Reset(v)
      BY <3>3 DEF Fits, Reset
    <3>5. WriteStart(t, b) = Result(v, "PENDING")
      BY <2>0, <3>1 DEF Result
    <3> QED BY <3>3, <3>4, <3>5 DEF Started, Result, Codes
  <2>3. CASE ~(b /\ t.typed)
    <3>1. PICK code \in {"NO_MEM", "UNSUPPORTED"} : BuildWrite(u, b) = Result(u, code)
      BY <2>1, <2>3 DEF BuildWrite
    <3>2. BuildWrite(u, b).tag = u /\ BuildWrite(u, b).rc = code /\ code # "OK"
      BY <3>1 DEF Result
    <3>3. WriteStart(t, b) = Result([u EXCEPT !.wip = FALSE], code)
      BY <2>0, <3>2
    <3>4. WriteStart(t, b) = Result(t, code)
      BY <2>1, <3>3
    <3>5. code \in Codes \ {"PENDING"}
      BY DEF Codes
    <3> QED BY <2>3, <3>4, <3>5, NotStarted
  <2> QED BY <2>2, <2>3
<1> QED BY <1>1, <1>2, <1>3

(* check_request_status() lets an operation go on only with an answer. *)
LEMMA CheckRequestFits ==
  ASSUME NEW t, Fits(t)
  PROVE  LET r == CheckRequest(t)
         IN  /\ Fits(r.tag) /\ r.rc \in Codes
             /\ Reset(t) => Reset(r.tag)
             /\ r.rc = "OK" /\ r.tag.req # "none" => r.tag.req \in {"good", "part", "refused"}
<1>0. t \in TagRecord /\ {"DEAD", "ABORT", "PENDING", "OK"} \subseteq Codes
  BY DEF Fits, Codes
<1>1. ASSUME NEW u, Fits(u), NEW code \in Codes
      PROVE  LET v == [u EXCEPT !.status = code]
             IN  Fits(v) /\ (Reset(u) => Reset(v)) /\ v.req = u.req
  <2> DEFINE v == [u EXCEPT !.status = code]
  <2>1. v \in TagRecord /\ SameRequest(u, v)
    BY <1>1 DEF Fits, TagRecord, SameRequest
  <2> HIDE DEF v
  <2>2. Fits(v) /\ (Reset(u) => Reset(v)) /\ v.req = u.req
    BY <1>1, <2>1, SameFits DEF SameRequest
  <2> QED BY <2>2 DEF v
<1>2. ASSUME NEW u, Fits(u), Reset(t) => Reset(u), NEW code \in Codes,
             CheckRequest(t) = Result([u EXCEPT !.status = code], code),
             code = "OK" /\ u.req # "none" => u.req \in {"good", "part", "refused"}
      PROVE  LET r == CheckRequest(t)
             IN  /\ Fits(r.tag) /\ r.rc \in Codes
                 /\ Reset(t) => Reset(r.tag)
                 /\ r.rc = "OK" /\ r.tag.req # "none" => r.tag.req \in {"good", "part", "refused"}
  <2> DEFINE v == [u EXCEPT !.status = code]
  <2>1. Fits(v) /\ (Reset(u) => Reset(v)) /\ v.req = u.req
    BY <1>1, <1>2
  <2>2. CheckRequest(t) = Result(v, code)
    BY <1>2
  <2> HIDE DEF v
  <2> QED BY <1>2, <2>1, <2>2 DEF Result
<1>3. CASE t.abortReq
  <2> DEFINE a == AbortRequest(t)
             u == [a EXCEPT !.abortReq = FALSE]
  <2>1. CheckRequest(t) = Result([u EXCEPT !.status = "ABORT"], "ABORT")
    BY <1>3 DEF CheckRequest, Result
  <2>2. Fits(a) /\ Reset(a)
    BY <1>0, AbortRequestFits
  <2> HIDE DEF a
  <2>3. u \in TagRecord /\ SameRequest(a, u)
    BY <2>2 DEF Fits, TagRecord, SameRequest
  <2> HIDE DEF u
  <2>4. Fits(u) /\ Reset(u)
    BY <2>2, <2>3, SameFits
  <2>5. "ABORT" \in Codes /\ "ABORT" # "OK"
    BY <1>0
  <2> QED BY <1>2, <2>1, <2>4, <2>5
<1>4. CASE ~t.abortReq /\ t.req = "dead"
  <2>1. CheckRequest(t) = Result([TagAbort(t).tag EXCEPT !.status = "DEAD"], "DEAD")
    BY <1>4 DEF CheckRequest, Result
  <2>2. "DEAD" \in Codes /\ "DEAD" # "OK"
    BY <1>0
  <2> QED BY <1>2, <2>1, <2>2, TagAbortFits
<1>5. CASE ~t.abortReq /\ t.req = "sent"
  <2>1. CheckRequest(t) = Result([t EXCEPT !.status = "PENDING"], "PENDING")
    BY <1>5 DEF CheckRequest, Result
  <2>2. "PENDING" \in Codes /\ "PENDING" # "OK"
    BY <1>0
  <2> QED BY <1>2, <2>1, <2>2
<1>6. CASE ~t.abortReq /\ t.req \notin {"dead", "sent"}
  <2>1. t.req \in {"none", "good", "part", "refused"}
    BY <1>6 DEF Fits, TagRecord, AllAnswers
  <2>2. CheckRequest(t) = Result([t EXCEPT !.status = "OK"], "OK")
    BY <1>6, <2>1 DEF CheckRequest, Result, Fits
  <2> QED BY <1>0, <1>2, <2>1, <2>2
<1> QED BY <1>3, <1>4, <1>5, <1>6

(* AbortRequestOnly() makes the tag idle and keeps the offset, from which  *)
(* the next fragment starts.                                               *)
LEMMA IdleTag ==
  ASSUME NEW t \in TagRecord
  PROVE  LET u == AbortRequestOnly(t)
         IN  /\ u \in TagRecord /\ u.req = "none" /\ ~u.rip /\ ~u.wip
             /\ u.offset = t.offset /\ u.typed = t.typed
BY DEF TagRecord, AbortRequestOnly

(* The end of check_read_status_*(): an error gives the request up. *)
LEMMA GoOnOrAbort ==
  ASSUME NEW t \in TagRecord, NEW r, Started(t, r), ~(t.rip \/ t.wip),
         NEW w, w = IF r.rc = "PENDING" THEN r ELSE Result(AbortRequest(r.tag), r.rc)
  PROVE  Fits(w.tag) /\ Reset(w.tag) /\ w.rc \in Codes
<1>1. Fits(AbortRequest(r.tag)) /\ Reset(AbortRequest(r.tag))
  BY AbortRequestFits DEF Started
<1> QED BY <1>1 DEF Started, Result

LEMMA CheckReadFits ==
  ASSUME NEW t, Fits(t), t.req # "none", NEW b \in BOOLEAN
  PROVE  LET r == CheckRead(t, b) IN Fits(r.tag) /\ Reset(r.tag) /\ r.rc \in Codes
<1>0. t \in TagRecord
  BY DEF Fits
<1>1. CASE t.req = "refused"
  <2>1. CheckRead(t, b) = Result(AbortRequest(t), "REMOTE")
    BY <1>1 DEF CheckRead
  <2> QED BY <1>0, <2>1, AbortRequestFits DEF Result, Codes
<1>2. CASE t.req # "refused"
  <2> DEFINE idle == AbortRequestOnly(t)
             got  == [idle EXCEPT !.typed = TRUE, !.data = IF t.preRead THEN @ ELSE "plc"]
             back == [got EXCEPT !.preRead = FALSE, !.offset = 0]
             more == [got EXCEPT !.offset = @ + 1]
  <2>1. idle \in TagRecord /\ ~idle.rip /\ ~idle.wip /\ idle.offset = t.offset
    BY <1>0, IdleTag
  <2>2. CheckRead(t, b) =
          LET next == CASE t.preRead -> WriteStart(back, b)
                        [] ~t.preRead /\ t.req = "part" -> ReadStart(more, b)
                        [] OTHER -> Result(got, "OK")
          IN  IF next.rc = "PENDING" THEN next ELSE Result(AbortRequest(next.tag), next.rc)
    BY <1>2 DEF CheckRead
  <2> HIDE DEF idle
  <2>3. got \in TagRecord /\ ~got.rip /\ ~got.wip /\ got.offset = t.offset
    BY <2>1 DEF TagRecord
  <2> HIDE DEF got
  <2>4. CASE t.preRead
    <3>1. 0 \in 0..Fragments
      BY SizeAssumption
    <3>2. back \in TagRecord /\ ~back.rip /\ ~back.wip
      BY <2>3, <3>1 DEF TagRecord
    <3>3. CheckRead(t, b) = LET next == WriteStart(back, b)
                            IN  IF next.rc = "PENDING" THEN next
                                ELSE Result(AbortRequest(next.tag), next.rc)
      BY <2>2, <2>4
    <3> HIDE DEF back
    <3> QED BY <3>2, <3>3, WriteStartFits, GoOnOrAbort
  <2>5. CASE ~t.preRead /\ t.req = "part"
    <3>1. t.offset + 1 \in 0..Fragments
      BY <1>0, <2>5, SizeAssumption DEF Fits, TagRecord
    <3>2. more \in TagRecord /\ ~more.rip /\ ~more.wip
      BY <2>3, <3>1 DEF TagRecord
    <3>3. CheckRead(t, b) = LET next == ReadStart(more, b)
                            IN  IF next.rc = "PENDING" THEN next
                                ELSE Result(AbortRequest(next.tag), next.rc)
      BY <2>2, <2>5
    <3> HIDE DEF more
    <3> QED BY <3>2, <3>3, ReadStartFits, GoOnOrAbort
  <2>6. CASE ~t.preRead /\ t.req # "part"
    <3>1. CheckRead(t, b) = LET next == Result(got, "OK")
                            IN  IF next.rc = "PENDING" THEN next
                                ELSE Result(AbortRequest(next.tag), next.rc)
      BY <2>2, <2>6
    <3>2. Started(got, Result(got, "OK"))
      BY <2>3, NotStarted DEF Codes
    <3> QED BY <2>3, <3>1, <3>2, GoOnOrAbort
  <2> QED BY <2>4, <2>5, <2>6
<1> QED BY <1>1, <1>2

(* The offset is kept by a write that goes on, and by one whose next       *)
(* request cannot be built.                                                *)
LEMMA CheckWriteFits ==
  ASSUME NEW t, Fits(t), t.wip, NEW b \in BOOLEAN
  PROVE  LET r == CheckWrite(t, b)
         IN  Fits(r.tag) /\ (b => Reset(r.tag)) /\ r.rc \in Codes
<1>0. t \in TagRecord /\ t.typed
  BY DEF Fits
<1>1. ASSUME NEW code \in Codes, CheckWrite(t, b) = Result(AbortRequest(t), code)
      PROVE  LET r == CheckWrite(t, b)
             IN  Fits(r.tag) /\ (b => Reset(r.tag)) /\ r.rc \in Codes
  BY <1>0, <1>1, AbortRequestFits DEF Result
<1>2. {"BAD_DATA", "REMOTE", "OK"} \subseteq Codes
  BY DEF Codes
<1>3. CASE ~Connected
  <2>1. CheckWrite(t, b) = Result(AbortRequest(t), "BAD_DATA")
    BY <1>3 DEF CheckWrite
  <2> QED BY <1>1, <1>2, <2>1
<1>4. CASE Connected /\ t.req = "refused"
  <2>1. CheckWrite(t, b) = Result(AbortRequest(t), "REMOTE")
    BY <1>4 DEF CheckWrite
  <2> QED BY <1>1, <1>2, <2>1
<1>5. CASE Connected /\ t.req # "refused" /\ t.offset < Fragments
  <2> DEFINE u == AbortRequestOnly(t)
  <2>1. CheckWrite(t, b) = WriteStart(u, b)
    BY <1>5 DEF CheckWrite
  <2>2. u \in TagRecord /\ u.req = "none" /\ ~u.rip /\ ~u.wip /\ u.typed
    BY <1>0, IdleTag
  <2> HIDE DEF u
  <2>3. Fits(u)
    BY <2>2 DEF Fits
  <2> QED BY <2>1, <2>2, <2>3, WriteStartFits DEF Started
<1>6. CASE Connected /\ t.req # "refused" /\ ~(t.offset < Fragments)
  <2>1. CheckWrite(t, b) = Result(AbortRequest(t), "OK")
    BY <1>6 DEF CheckWrite
  <2> QED BY <1>1, <1>2, <2>1
<1> QED BY <1>3, <1>4, <1>5, <1>6

LEMMA TagTicklerFits ==
  ASSUME NEW t, Fits(t), NEW b \in BOOLEAN
  PROVE  Fits(TagTickler(t, b)) /\ (b /\ Reset(t) => Reset(TagTickler(t, b)))
<1> DEFINE checked == CheckRequest(t)
           read    == CheckRead(checked.tag, b)
           write   == CheckWrite(checked.tag, b)
<1>1. Fits(checked.tag) /\ (Reset(t) => Reset(checked.tag))
  BY CheckRequestFits
<1>2. checked.tag \in TagRecord
  BY <1>1 DEF Fits
<1>3. CASE checked.rc = "OK" /\ checked.tag.rip
  <2> DEFINE first == read.tag.firstRead /\ read.tag.rip
             done  == read.tag.rdone \/ ~read.tag.rip
             v == [read.tag EXCEPT !.status = read.rc, !.firstRead = first, !.rdone = done]
  <2>1. TagTickler(t, b) = v
    BY <1>3 DEF TagTickler
  <2>2. Fits(read.tag) /\ Reset(read.tag) /\ read.rc \in Codes
    BY <1>1, <1>3, CheckReadFits DEF Fits
  <2> first \in BOOLEAN /\ done \in BOOLEAN
    OBVIOUS
  <2> HIDE DEF read, first, done
  <2>3. v \in TagRecord /\ SameRequest(read.tag, v)
    BY <2>2, ZenonT(60) DEF Fits, TagRecord, SameRequest
  <2> HIDE DEF v
  <2> QED BY <2>1, <2>2, <2>3, SameFits
<1>4. CASE checked.rc = "OK" /\ ~checked.tag.rip /\ checked.tag.wip
  <2> DEFINE v == [write.tag EXCEPT !.status = write.rc, !.wdone = @ \/ ~write.tag.wip]
  <2>1. TagTickler(t, b) = v
    BY <1>4 DEF TagTickler
  <2>2. Fits(write.tag) /\ (b => Reset(write.tag)) /\ write.rc \in Codes
    BY <1>1, <1>4, CheckWriteFits
  <2> HIDE DEF write
  <2>3. v \in TagRecord /\ SameRequest(write.tag, v)
    BY <2>2 DEF Fits, TagRecord, SameRequest
  <2> HIDE DEF v
  <2> QED BY <2>1, <2>2, <2>3, SameFits
<1>5. CASE ~(checked.rc = "OK" /\ (checked.tag.rip \/ checked.tag.wip))
  <2>1. TagTickler(t, b) = checked.tag
    BY <1>5 DEF TagTickler
  <2> QED BY <1>1, <2>1
<1> QED BY <1>3, <1>4, <1>5

-----------------------------------------------------------------------------
(* The tag tickler thread *)

(* An automatic operation starts on a tag whose flags have been set, and   *)
(* its code becomes the tag's status.                                      *)
LEMMA StatusFits ==
  ASSUME NEW t, Fits(t), NEW r, Started(t, r)
  PROVE  LET v == [r.tag EXCEPT !.status = r.rc]
         IN  Fits(v) /\ (Reset(t) => Reset(v))
<1> DEFINE v == [r.tag EXCEPT !.status = r.rc]
<1>1. v \in TagRecord /\ SameRequest(r.tag, v)
  BY DEF Started, TagRecord, SameRequest
<1> HIDE DEF v
<1>2. Fits(v) /\ (Reset(t) => Reset(v))
  BY <1>1, SameFits DEF Started
<1> QED BY <1>2 DEF v

LEMMA AutoWriteFits ==
  ASSUME NEW t, Fits(t), NEW due \in BOOLEAN, NEW b \in BOOLEAN
  PROVE  LET v == AutoWriteStep(t, due, b) IN Fits(v) /\ (Reset(t) => Reset(v))
<1> DEFINE a == AbortRequest(t)
           f == [a EXCEPT !.rif = FALSE, !.rdone = FALSE]
           u == IF t.rif THEN f ELSE t
           q == [u EXCEPT !.nextWrite = TRUE]
           w == [u EXCEPT !.dirty = FALSE, !.wif = TRUE, !.nextWrite = FALSE]
           r == WriteStart(w, b)
           v == [r.tag EXCEPT !.status = r.rc]
<1>1. AutoWriteStep(t, due, b) \in {t, u, q, v}
  BY DEF AutoWriteStep
<1>2. Fits(a) /\ Reset(a)
  BY AbortRequestFits DEF Fits
<1> HIDE DEF a
<1>3. f \in TagRecord /\ SameRequest(a, f)
  BY <1>2 DEF Fits, TagRecord, SameRequest
<1> HIDE DEF f
<1>4. Fits(u) /\ (Reset(t) => Reset(u))
  BY <1>2, <1>3, SameFits
<1> HIDE DEF u
<1>5. q \in TagRecord /\ SameRequest(u, q) /\ w \in TagRecord /\ SameRequest(u, w)
  BY <1>4, ZenonT(60) DEF Fits, TagRecord, SameRequest
<1> HIDE DEF q, w
<1>6. Fits(q) /\ (Reset(u) => Reset(q)) /\ Fits(w) /\ (Reset(u) => Reset(w))
  BY <1>4, <1>5, SameFits
<1>7. Started(w, r)
  BY <1>5, WriteStartFits
<1> HIDE DEF r
<1>8. Fits(v) /\ (Reset(w) => Reset(v))
  BY <1>6, <1>7, StatusFits
<1> HIDE DEF v
<1> QED BY <1>1, <1>4, <1>6, <1>8

LEMMA AutoReadFits ==
  ASSUME NEW t, Fits(t), NEW due \in BOOLEAN, NEW b \in BOOLEAN
  PROVE  LET v == AutoReadStep(t, due, b) IN Fits(v) /\ (Reset(t) => Reset(v))
<1> DEFINE u == [t EXCEPT !.rif = TRUE]
           r == ReadStart(u, b)
           v == [r.tag EXCEPT !.status = r.rc]
<1>1. AutoReadStep(t, due, b) \in {t, v}
  BY DEF AutoReadStep
<1>2. u \in TagRecord /\ SameRequest(t, u)
  BY DEF Fits, TagRecord, SameRequest
<1> HIDE DEF u
<1>3. Fits(u) /\ (Reset(t) => Reset(u))
  BY <1>2, SameFits
<1>4. Started(u, r)
  BY <1>2, ReadStartFits
<1> HIDE DEF r
<1>5. Fits(v) /\ (Reset(u) => Reset(v))
  BY <1>3, <1>4, StatusFits
<1> HIDE DEF v
<1> QED BY <1>1, <1>3, <1>5

LEMMA GenericTicklerFits ==
  ASSUME NEW t, Fits(t), NEW due \in BOOLEAN, NEW b \in BOOLEAN
  PROVE  LET v == GenericTickler(t, due, b) IN Fits(v) /\ (Reset(t) => Reset(v))
<1>1. CASE t.abortReq
  <2> DEFINE a == AbortRequest(t)
             v == [ClearFlight(a) EXCEPT !.abortReq = FALSE]
  <2>1. GenericTickler(t, due, b) = v
    BY <1>1 DEF GenericTickler
  <2>2. Fits(a) /\ Reset(a)
    BY AbortRequestFits DEF Fits
  <2> HIDE DEF a
  <2>3. v \in TagRecord /\ SameRequest(a, v)
    BY <2>2, ZenonT(60) DEF Fits, TagRecord, SameRequest, ClearFlight
  <2> HIDE DEF v
  <2> QED BY <2>1, <2>2, <2>3, SameFits
<1>2. CASE ~t.abortReq
  <2>1. GenericTickler(t, due, b) = AutoReadStep(AutoWriteStep(t, due, b), due, b)
    BY <1>2 DEF GenericTickler
  <2> QED BY <2>1, AutoWriteFits, AutoReadFits
<1> QED BY <1>1, <1>2

-----------------------------------------------------------------------------
(* The actions *)

(* IInv in two halves: the tag, and the types of the other variables. *)
Good(t) == Fits(t) /\ (FALSE \notin Builds => Reset(t))
Rest ==
  /\ cond \in BOOLEAN
  /\ pc \in [Clients -> {"idle", "gone", "create", "create_check", "create_end", "wait",
                         "check", "flag", "abort", "end", "return"}]
  /\ call \in [Clients -> {"none", "read", "write", "abort"}]
  /\ rc \in [Clients -> Codes]
  /\ answered \subseteq Clients

LEMMA Halves == IInv <=> Good(tag) /\ Rest
BY DEF IInv, TypeOK, RequestFits, Sound, OffsetReset, Good, Fits, Reset, Rest

LEMMA NextHalves == IInv' <=> Good(tag') /\ Rest'
BY DEF IInv, TypeOK, RequestFits, Sound, OffsetReset, Good, Fits, Reset, Rest

LEMMA SameGood ==
  ASSUME NEW t, Good(t), NEW u \in TagRecord, SameRequest(t, u)
  PROVE  Good(u)
BY SameFits DEF Good

LEMMA AbortedGood ==
  ASSUME NEW t \in TagRecord
  PROVE  Good(AbortRequest(t))
BY AbortRequestFits DEF Good

(* If no request can fail to be built, b is TRUE in every step. *)
LEMMA TickledGood ==
  ASSUME NEW t, Good(t), NEW b \in Builds
  PROVE  Good(TagTickler(t, b))
BY TagTicklerFits, ModeAssumption DEF Good

LEMMA StartedGood ==
  ASSUME NEW t, Good(t), NEW r, Started(t, r)
  PROVE  Good(r.tag)
BY DEF Good, Started

LEMMA FlightGood ==
  ASSUME NEW t, Good(t)
  PROVE  Good(ClearFlight(t))
<1> DEFINE v == ClearFlight(t)
<1>1. v \in TagRecord /\ SameRequest(t, v)
  BY DEF Good, Fits, TagRecord, SameRequest, ClearFlight
<1> HIDE DEF v
<1>2. Good(v)
  BY <1>1, SameGood
<1> QED BY <1>2 DEF v

LEMMA CodeTypes ==
  ASSUME NEW t \in TagRecord
  PROVE  TagStatus(t) \in Codes /\ StatusImpl(t) \in Codes
BY DEF TagStatus, StatusImpl, TagRecord, Codes

LEMMA ServedClients ==
  ASSUME NEW t
  PROVE  Served(t) \subseteq Clients
BY DEF Served

LEMMA InitGood == Init => IInv
<1> SUFFICES ASSUME Init PROVE IInv
  OBVIOUS
<1>1. PICK b \in Builds, c \in Clients, sync \in BOOLEAN :
        /\ tag = ReadStart(NewTag, b).tag
        /\ pc = [d \in Clients |-> IF d = c /\ sync /\ b THEN "create" ELSE "idle"]
  BY DEF Init
<1>2. 0 \in 0..Fragments
  BY SizeAssumption
<1> DEFINE n == NewTag
<1>3. /\ n \in TagRecord /\ n.req = "none" /\ ~n.rip /\ ~n.wip /\ n.offset = 0
  BY <1>2 DEF NewTag, TagRecord, Codes
<1> HIDE DEF n
<1>4. Good(n)
  BY <1>3 DEF Good, Fits, Reset
<1>5. b \in BOOLEAN
  BY ModeAssumption
<1>6. Good(ReadStart(n, b).tag)
  BY <1>3, <1>4, <1>5, ReadStartFits, StartedGood
<1>7. Good(tag)
  BY <1>1, <1>6 DEF n
<1>8. Rest
  BY <1>1 DEF Init, Rest, Codes
<1> QED BY <1>7, <1>8, Halves

LEMMA TickKeeps ==
  ASSUME IInv, NEW due \in BOOLEAN, NEW b \in Builds, Tick(due, b)
  PROVE  IInv'
<1> DEFINE before == GenericTickler(tag, due, b)
           after  == TagTickler(before, b)
           rif    == after.rif /\ ~after.rdone
           wif    == after.wif /\ ~after.wdone
           again  == after.nextWrite /\ ~after.wdone
           v == [after EXCEPT !.rif = rif, !.rdone = FALSE, !.wif = wif,
                              !.wdone = FALSE, !.nextWrite = again]
<1>1. Good(tag) /\ Rest
  BY Halves
<1>2. b \in BOOLEAN
  BY ModeAssumption
<1>3. Good(before)
  BY <1>1, <1>2, GenericTicklerFits DEF Good
<1>4. tag' = v /\ answered' = answered \cup Served(before) /\ UNCHANGED <<pc, call, rc>>
  BY DEF Tick
<1>c. cond' = (cond \/ after.rdone \/ after.wdone)
  BY DEF Tick
<1> HIDE DEF before
<1>5. Good(after)
  BY <1>3, TickledGood
<1> HIDE DEF after
<1>6. rif \in BOOLEAN /\ wif \in BOOLEAN /\ again \in BOOLEAN
  OBVIOUS
<1> HIDE DEF rif, wif, again
<1> DEFINE w == [after EXCEPT !.rif = rif, !.wif = wif, !.nextWrite = again]
<1>7. w \in TagRecord /\ SameRequest(after, w)
  <2>1. after \in TagRecord
    BY <1>5 DEF Good, Fits
  <2>2. w \in TagRecord
    BY <1>6, <2>1 DEF TagRecord
  <2>3. SameRequest(after, w)
    BY <2>1 DEF TagRecord, SameRequest
  <2> QED BY <2>2, <2>3
<1>8. v \in TagRecord /\ SameRequest(after, v) /\ Good(v)
  <2>1. v = [w EXCEPT !.rdone = FALSE, !.wdone = FALSE]
    BY <1>5 DEF Good, Fits, TagRecord
  <2> HIDE DEF w, v
  <2>2. v \in TagRecord /\ SameRequest(w, v)
    BY <1>7, <2>1 DEF TagRecord, SameRequest
  <2>3. SameRequest(after, v)
    BY <1>7, <2>2 DEF SameRequest
  <2> QED BY <1>5, <2>2, <2>3, SameGood
<1>9. cond' \in BOOLEAN
  BY <1>c
<1>10. Rest'
  BY <1>1, <1>4, <1>9, ServedClients DEF Rest
<1> QED BY <1>4, <1>8, <1>10, NextHalves

(* An answer in part is one to a read, and leaves data to ask for. *)
LEMMA RespondKeeps ==
  ASSUME IInv, NEW answer \in Answers, Respond(answer)
  PROVE  IInv'
<1> DEFINE v == [tag EXCEPT !.req = answer]
<1>1. Good(tag) /\ Rest
  BY Halves
<1>2. /\ tag.req = "sent" /\ tag' = v
      /\ answer = "part" => tag.rip /\ tag.offset + 1 < Fragments
      /\ UNCHANGED <<cond, pc, call, rc, answered>>
  BY DEF Respond
<1>3. answer \in AllAnswers /\ answer # "none"
  BY AnswerAssumption DEF AllAnswers
<1>4. /\ v \in TagRecord /\ v.req = answer /\ v.rip = tag.rip /\ v.wip = tag.wip
      /\ v.offset = tag.offset /\ v.typed = tag.typed
  BY <1>1, <1>3 DEF Good, Fits, TagRecord
<1> HIDE DEF v
<1>5. Good(v)
  BY <1>1, <1>2, <1>3, <1>4 DEF Good, Fits, Reset
<1>6. Rest'
  BY <1>1, <1>2 DEF Rest
<1> QED BY <1>2, <1>5, <1>6, NextHalves

(* plc_tag_create_ex() *)
LEMMA CreateKeeps ==
  ASSUME IInv, NEW c \in Clients,
         CreateWake(c) \/ CreateTimeout(c) \/ CreateCheck(c) \/ CreateEnd(c)
  PROVE  IInv'
<1>1. Good(tag) /\ Rest
  BY Halves
<1>2. tag \in TagRecord
  BY <1>1 DEF Good, Fits
<1>3. Good(AbortRequest(tag))
  BY <1>2, AbortedGood
<1>4. Good([tag EXCEPT !.rif = FALSE, !.wif = FALSE])
  <2> DEFINE v == [tag EXCEPT !.rif = FALSE, !.wif = FALSE]
  <2>1. v \in TagRecord /\ SameRequest(tag, v)
    BY <1>2 DEF TagRecord, SameRequest
  <2> HIDE DEF v
  <2>2. Good(v)
    BY <1>1, <2>1, SameGood
  <2> QED BY <2>2 DEF v
<1>5. Good(tag')
  BY <1>1, <1>3, <1>4 DEF CreateWake, CreateTimeout, CreateCheck, CreateEnd
<1>6. rc' \in [Clients -> Codes]
  <2>1. TagStatus(tag) \in Codes /\ "OK" \in Codes
    BY <1>2, CodeTypes DEF Codes
  <2> QED BY <1>1, <2>1 DEF Rest, CreateWake, CreateTimeout, CreateCheck, CreateEnd
<1>7. Rest'
  BY <1>1, <1>6 DEF Rest, CreateWake, CreateTimeout, CreateCheck, CreateEnd
<1> QED BY <1>5, <1>7, NextHalves

(* plc_tag_read(): a read that cannot start is taken back at once. *)
LEMMA StartReadKeeps ==
  ASSUME IInv, NEW c \in Clients, NEW sync \in BOOLEAN, NEW b \in Builds, StartRead(c, sync, b)
  PROVE  IInv'
<1> DEFINE u == [tag EXCEPT !.rif = TRUE, !.status = "PENDING"]
           r == ReadStart(u, b)
           w == [r.tag EXCEPT !.abortReq = TRUE]
           v == ClearFlight(AbortRequest(w))
<1>1. Good(tag) /\ Rest /\ b \in BOOLEAN
  BY Halves, ModeAssumption
<1>2. tag' \in {r.tag, v}
  BY DEF StartRead
<1>3. Rest'
  BY <1>1 DEF Rest, StartRead, Return, Codes
<1>4. u \in TagRecord /\ SameRequest(tag, u)
  BY <1>1 DEF Good, Fits, TagRecord, SameRequest, Codes
<1> HIDE DEF u
<1>5. Good(u)
  BY <1>1, <1>4, SameGood
<1>6. Started(u, r)
  BY <1>1, <1>4, ReadStartFits
<1> HIDE DEF r
<1>7. w \in TagRecord
  BY <1>6 DEF Started, TagRecord
<1> HIDE DEF w
<1>8. Good(r.tag) /\ Good(v)
  BY <1>5, <1>6, <1>7, StartedGood, AbortedGood, FlightGood
<1> HIDE DEF v
<1>9. Good(tag')
  BY <1>2, <1>8
<1> QED BY <1>3, <1>9, NextHalves

(* plc_tag_write() *)
LEMMA StartWriteKeeps ==
  ASSUME IInv, NEW c \in Clients, NEW sync \in BOOLEAN, NEW b \in Builds, StartWrite(c, sync, b)
  PROVE  IInv'
<1> DEFINE u == [tag EXCEPT !.wif = TRUE, !.status = "OK"]
           r == WriteStart(u, b)
           a == AbortRequest(r.tag)
           v == [a EXCEPT !.wif = FALSE]
<1>1. Good(tag) /\ Rest /\ b \in BOOLEAN
  BY Halves, ModeAssumption
<1>2. tag' \in {r.tag, v}
  BY DEF StartWrite
<1>4. u \in TagRecord /\ SameRequest(tag, u)
  BY <1>1 DEF Good, Fits, TagRecord, SameRequest, Codes
<1>b. r = WriteStart([tag EXCEPT !.wif = TRUE, !.status = "OK"], b)
  OBVIOUS
<1> HIDE DEF u
<1>5. Good(u)
  BY <1>1, <1>4, SameGood
<1>6. Started(u, r)
  BY <1>1, <1>4, WriteStartFits
<1> HIDE DEF r
<1>3. Rest'
  BY <1>1, <1>b, <1>6 DEF Rest, StartWrite, Return, Codes, Started
<1>7. Good(r.tag) /\ Good(a)
  BY <1>5, <1>6, StartedGood, AbortedGood DEF Started
<1> HIDE DEF a
<1>8. v \in TagRecord /\ SameRequest(a, v)
  BY <1>7 DEF Good, Fits, TagRecord, SameRequest
<1> HIDE DEF v
<1>9. Good(v)
  BY <1>7, <1>8, SameGood
<1>10. Good(tag')
  BY <1>2, <1>7, <1>9
<1> QED BY <1>3, <1>10, NextHalves

(* The steps that tickle the tag: the status check of a waiting thread and *)
(* plc_tag_status().                                                       *)
LEMMA TickledKeeps ==
  ASSUME IInv, NEW c \in Clients, NEW b \in Builds, Check(c, b) \/ Status(c, b)
  PROVE  IInv'
<1> DEFINE ticked == TagTickler(tag, b)
<1>1. Good(tag) /\ Rest
  BY Halves
<1>2. Good(ticked)
  BY <1>1, TickledGood
<1>3. tag' = ticked
  BY DEF Check, Status
<1>4. StatusImpl(ticked) \in Codes
  BY <1>2, CodeTypes DEF Good, Fits
<1>5. Rest'
  BY <1>1, <1>4, ServedClients DEF Rest, Check, Status
<1> QED BY <1>2, <1>3, <1>5, NextHalves

(* plc_tag_abort_impl() *)
LEMMA AbortKeeps ==
  ASSUME IInv, NEW c \in Clients, AbortFlag(c) \/ AbortRun(c) \/ Abort(c)
  PROVE  IInv'
<1>1. Good(tag) /\ Rest
  BY Halves
<1>2. CASE AbortFlag(c)
  <2> DEFINE v == [tag EXCEPT !.abortReq = TRUE]
  <2>1. tag' = v
    BY <1>2 DEF AbortFlag
  <2>2. v \in TagRecord /\ SameRequest(tag, v)
    BY <1>1 DEF Good, Fits, TagRecord, SameRequest
  <2> HIDE DEF v
  <2>3. Good(v)
    BY <1>1, <2>2, SameGood
  <2>4. Rest'
    BY <1>1, <1>2 DEF Rest, AbortFlag
  <2> QED BY <2>1, <2>3, <2>4, NextHalves
<1>3. CASE AbortRun(c)
  <2>1. tag' \in {ClearFlight(AbortRequest(tag)), ClearFlight(tag)}
    BY <1>3 DEF AbortRun
  <2>2. Good(ClearFlight(AbortRequest(tag))) /\ Good(ClearFlight(tag))
    BY <1>1, AbortedGood, FlightGood DEF Good, Fits
  <2>3. Good(tag')
    BY <2>1, <2>2
  <2>4. Rest'
    BY <1>1, <1>3 DEF Rest, AbortRun
  <2> QED BY <2>3, <2>4, NextHalves
<1>4. CASE Abort(c)
  <2>1. tag' = tag /\ Rest'
    BY <1>1, <1>4 DEF Rest, Abort
  <2> QED BY <1>1, <2>1, NextHalves
<1> QED BY <1>2, <1>3, <1>4

(* Waking up, the end of a call and what leaves the tag alone *)
LEMMA EndKeeps ==
  ASSUME IInv, NEW c \in Clients, End(c)
  PROVE  IInv'
<1> DEFINE u == [tag EXCEPT !.rif = FALSE, !.rdone = FALSE]
           w == [tag EXCEPT !.wif = FALSE, !.wdone = FALSE]
<1>1. Good(tag) /\ Rest
  BY Halves
<1>2. tag' \in {tag, u, w}
  BY DEF End
<1>3. /\ u \in TagRecord /\ SameRequest(tag, u)
      /\ w \in TagRecord /\ SameRequest(tag, w)
  BY <1>1 DEF Good, Fits, TagRecord, SameRequest
<1> HIDE DEF u, w
<1>4. Good(tag')
  BY <1>1, <1>2, <1>3, SameGood
<1>5. Rest'
  BY <1>1 DEF Rest, End
<1> QED BY <1>4, <1>5, NextHalves

LEMMA WaitKeeps ==
  ASSUME IInv, NEW c \in Clients, Wake(c) \/ WaitTimeout(c) \/ Leave(c)
  PROVE  IInv'
<1>1. Good(tag) /\ Rest
  BY Halves
<1>2. tag' = tag
  BY DEF Wake, WaitTimeout, Leave
<1>3. Rest'
  BY <1>1 DEF Rest, Wake, WaitTimeout, Leave, Codes
<1> QED BY <1>1, <1>2, <1>3, NextHalves

(* plc_tag_set_*() *)
LEMMA SetKeeps ==
  ASSUME IInv, NEW c \in Clients, Set(c)
  PROVE  IInv'
<1> DEFINE u == [tag EXCEPT !.data = "user", !.dirty = AutoWrite, !.status = "OK"]
           w == [tag EXCEPT !.status = "NO_DATA"]
<1>1. Good(tag) /\ Rest
  BY Halves
<1>2. tag' \in {u, w}
  BY DEF Set
<1>3. /\ u \in TagRecord /\ SameRequest(tag, u)
      /\ w \in TagRecord /\ SameRequest(tag, w)
  BY <1>1, ModeAssumption DEF Good, Fits, TagRecord, SameRequest, Codes
<1> HIDE DEF u, w
<1>4. Good(tag')
  BY <1>1, <1>2, <1>3, SameGood
<1>5. Rest'
  BY <1>1 DEF Rest, Set
<1> QED BY <1>4, <1>5, NextHalves

LEMMA ClientKeeps ==
  ASSUME IInv, NEW c \in Clients, Client(c)
  PROVE  IInv'
BY CreateKeeps, StartReadKeeps, StartWriteKeeps, TickledKeeps, AbortKeeps, EndKeeps, WaitKeeps,
   SetKeeps
DEF Client

LEMMA NextKeeps == IInv /\ [Next]_vars => IInv'
<1> SUFFICES ASSUME IInv, [Next]_vars PROVE IInv'
  OBVIOUS
<1>1. CASE Next
  BY <1>1, TickKeeps, RespondKeeps, ClientKeeps DEF Next
<1>2. CASE UNCHANGED vars
  <2>1. tag' = tag /\ UNCHANGED <<cond, pc, call, rc, answered>>
    BY <1>2 DEF vars
  <2>2. Rest'
    BY <2>1, Halves DEF Rest
  <2> QED BY <2>1, <2>2, Halves, NextHalves
<1> QED BY <1>1, <1>2

-----------------------------------------------------------------------------
(* The inductive invariant: the tag's types, its request and the operation *)
(* it belongs to agree in every state, whatever the threads, the tickler   *)
(* and the session do.                                                     *)
THEOREM TagInvariant == Spec => []IInv
BY InitGood, NextKeeps, PTL DEF Spec

THEOREM TypeCorrect == Spec => []TypeOK
<1>1. IInv => TypeOK
  BY DEF IInv
<1> QED BY <1>1, TagInvariant, PTL

(* No request is overwritten or forgotten and none takes the answer to the *)
(* other kind of operation, for any number of threads and whatever fails.  *)
THEOREM RequestKept == Spec => []RequestFits
<1>1. IInv => RequestFits
  BY DEF IInv
<1> QED BY <1>1, TagInvariant, PTL

(* Every read and write moves the whole tag, if the memory for requests    *)
(* never runs out (otherwise this is false: see check_write_status).       *)
THEOREM OffsetsReset == ASSUME FALSE \notin Builds PROVE Spec => []OffsetReset
<1>1. IInv => OffsetReset
  BY DEF IInv
<1> QED BY <1>1, TagInvariant, PTL


-----------------------------------------------------------------------------
(* What a block does to a tag besides its request *)

(* The read in progress, if there is one, will replace the tag's data. *)
ReadsData(t) == t.rip /\ ~t.preRead
Idle(t) == ~t.rip /\ ~t.wip

(* The protocol's functions leave what lib.c keeps alone, start no read    *)
(* that replaces data, and replace none without one.                       *)
Same(t, u) ==
  /\ u.dirty = t.dirty /\ u.rif = t.rif /\ u.wif = t.wif
  /\ u.rdone = t.rdone /\ u.wdone = t.wdone
  /\ ReadsData(u) => ReadsData(t)
  /\ ~ReadsData(t) => u.data = t.data
  /\ u.req \in {t.req, "none", "sent"}
Plain(t) == ~t.preRead /\ ~t.wip

LEMMA SameReflexive == \A t : Same(t, t)
BY DEF Same

LEMMA SameTransitive ==
  ASSUME NEW t, NEW u, NEW v, Same(t, u), Same(u, v)
  PROVE  Same(t, v)
BY DEF Same

LEMMA AbortRequestOnlySame ==
  ASSUME NEW t \in TagRecord
  PROVE  LET u == AbortRequestOnly(t)
         IN  /\ Same(t, u) /\ Idle(u) /\ u.preRead = t.preRead /\ u.abortReq = t.abortReq
             /\ u.firstRead = t.firstRead /\ u.data = t.data
BY DEF TagRecord, AbortRequestOnly, Same, ReadsData, Idle

LEMMA AbortRequestSame ==
  ASSUME NEW t \in TagRecord
  PROVE  LET u == AbortRequest(t)
         IN  /\ u \in TagRecord /\ Same(t, u) /\ Idle(u) /\ u.preRead = t.preRead
             /\ u.abortReq = t.abortReq /\ u.firstRead = t.firstRead /\ u.data = t.data
<1> DEFINE u == AbortRequestOnly(t)
           v == [u EXCEPT !.offset = 0]
<1>1. /\ Same(t, u) /\ Idle(u) /\ u.preRead = t.preRead /\ u.abortReq = t.abortReq
      /\ u.firstRead = t.firstRead /\ u.data = t.data /\ u \in TagRecord
  BY AbortRequestOnlySame, IdleTag
<1>2. AbortRequest(t) = v
  BY DEF AbortRequest
<1> HIDE DEF u
<1>3. v \in TagRecord
  BY <1>1, SizeAssumption DEF TagRecord
<1>4. /\ Same(u, v) /\ Idle(v) /\ v.preRead = u.preRead /\ v.abortReq = u.abortReq
      /\ v.firstRead = u.firstRead /\ v.data = u.data
  BY <1>1 DEF TagRecord, Same, ReadsData, Idle
<1>5. Same(t, v)
  BY <1>1, <1>4, SameTransitive
<1> HIDE DEF v
<1> QED BY <1>1, <1>2, <1>3, <1>4, <1>5

(* tag_read_start() on an idle tag, or on any. *)
LEMMA ReadStartSame ==
  ASSUME NEW t \in TagRecord, NEW b \in BOOLEAN
  PROVE  LET r == ReadStart(t, b)
         IN  /\ r.tag \in TagRecord /\ r.rc \in Codes \ {"OK"}
             /\ r.tag.dirty = t.dirty /\ r.tag.rif = t.rif /\ r.tag.wif = t.wif
             /\ r.tag.rdone = t.rdone /\ r.tag.wdone = t.wdone /\ r.tag.data = t.data
             /\ r.tag.preRead = t.preRead /\ r.tag.wip = t.wip /\ r.tag.firstRead = t.firstRead
             /\ r.tag.abortReq = t.abortReq /\ r.tag.req \in {t.req, "sent"}
             /\ ReadsData(t) \/ t.preRead => Same(t, r.tag)
             /\ r.rc = "PENDING" => r.tag.rip
             /\ r.rc # "PENDING" => r.tag.rip = t.rip
             /\ Idle(t) /\ b => r.rc = "PENDING"
<1> DEFINE v == [t EXCEPT !.rip = TRUE, !.req = "sent"]
<1>1. [[t EXCEPT !.rip = TRUE] EXCEPT !.rip = FALSE] = t \/ t.rip
  BY DEF TagRecord
<1>2. ReadStart(t, b) \in {Result(t, "BUSY"), Result(v, "PENDING"), Result(t, "NO_MEM")}
  BY <1>1 DEF ReadStart, BuildRead, Result
<1>3. Idle(t) /\ b => ReadStart(t, b) = Result(v, "PENDING")
  BY DEF ReadStart, BuildRead, Result, Idle
<1>4. /\ v \in TagRecord /\ v.rip
      /\ v.dirty = t.dirty /\ v.rif = t.rif /\ v.wif = t.wif /\ v.rdone = t.rdone
      /\ v.wdone = t.wdone /\ v.data = t.data /\ v.preRead = t.preRead /\ v.wip = t.wip
      /\ v.firstRead = t.firstRead /\ v.abortReq = t.abortReq /\ v.req = "sent"
  BY DEF TagRecord
<1> HIDE DEF v
<1>5. \A x, code : Result(x, code).tag = x /\ Result(x, code).rc = code
  BY DEF Result
<1>6. {"BUSY", "PENDING", "NO_MEM"} \subseteq Codes \ {"OK"}
  BY DEF Codes
<1>7. ReadsData(t) \/ t.preRead => Same(t, v) /\ Same(t, t)
  BY <1>4 DEF Same, ReadsData
<1>8. CASE ReadStart(t, b) = Result(v, "PENDING")
  BY <1>3, <1>4, <1>5, <1>6, <1>7, <1>8
<1>9. CASE ReadStart(t, b) = Result(t, "BUSY") /\ ReadStart(t, b) # Result(v, "PENDING")
  BY <1>3, <1>4, <1>5, <1>6, <1>7, <1>9
<1>10. CASE ReadStart(t, b) = Result(t, "NO_MEM") /\ ReadStart(t, b) # Result(v, "PENDING")
  BY <1>3, <1>4, <1>5, <1>6, <1>7, <1>10
<1> QED BY <1>2, <1>8, <1>9, <1>10

(* tag_write_start(): its read, if it needs one, keeps the data. *)
LEMMA WriteStartSame ==
  ASSUME NEW t \in TagRecord, NEW b \in BOOLEAN
  PROVE  LET r == WriteStart(t, b)
         IN  /\ r.tag \in TagRecord /\ r.rc \in Codes \ {"OK"}
             /\ Same(t, r.tag) /\ r.tag.data = t.data /\ r.tag.abortReq = t.abortReq
             /\ r.tag.firstRead = t.firstRead
             /\ r.tag.preRead => t.preRead \/ t.firstRead
             /\ Idle(t) => IF t.firstRead THEN ~r.tag.wip /\ (r.tag.rip => r.tag.preRead)
                                          ELSE ~r.tag.rip /\ r.tag.preRead = t.preRead
             /\ Idle(t) /\ b /\ (t.firstRead \/ t.typed) => r.rc = "PENDING" /\ ~Idle(r.tag)
             /\ ~Idle(t) => r.tag = t /\ r.rc # "PENDING"
             /\ Idle(t) => (r.rc = "PENDING" <=> ~Idle(r.tag))
<1>0. {"BUSY", "PENDING", "NO_MEM", "UNSUPPORTED"} \subseteq Codes \ {"OK"}
  BY DEF Codes
<1>5. \A x, code : Result(x, code).tag = x /\ Result(x, code).rc = code
  BY DEF Result
<1>1. CASE ~Idle(t)
  <2>1. WriteStart(t, b) = Result(t, "BUSY")
    BY <1>1 DEF WriteStart, Idle
  <2> QED BY <1>0, <1>1, <1>5, <2>1, SameReflexive
<1>2. CASE Idle(t) /\ t.firstRead
  <2> DEFINE u == [t EXCEPT !.preRead = TRUE]
  <2>1. WriteStart(t, b) = ReadStart(u, b)
    BY <1>2 DEF WriteStart, Idle
  <2>2. /\ u \in TagRecord /\ u.preRead /\ u.rip = t.rip /\ u.wip = t.wip /\ u.data = t.data
        /\ u.firstRead = t.firstRead /\ u.abortReq = t.abortReq /\ u.req = t.req
        /\ u.dirty = t.dirty /\ u.rif = t.rif /\ u.wif = t.wif /\ u.rdone = t.rdone
        /\ u.wdone = t.wdone
    BY DEF TagRecord
  <2> HIDE DEF u
  <2>s. Same(t, u)
    BY <1>2, <2>2 DEF Same, ReadsData, Idle
  <2>3. Idle(u) /\ ~t.rip /\ ~t.wip
    BY <1>2, <2>2 DEF Idle
  <2>r. u \in TagRecord
    BY <2>2
  <2> DEFINE r == ReadStart(u, b)
  <2>4. /\ r.tag \in TagRecord /\ r.rc \in Codes \ {"OK"}
        /\ r.tag.data = u.data /\ r.tag.preRead = u.preRead /\ r.tag.wip = u.wip
        /\ r.tag.firstRead = u.firstRead /\ r.tag.abortReq = u.abortReq
    BY <2>r, ReadStartSame
  <2>a. /\ r.rc = "PENDING" => r.tag.rip
        /\ r.rc # "PENDING" => r.tag.rip = u.rip
    BY <2>r, ReadStartSame
  <2>b. b => r.rc = "PENDING"
    <3>1. Idle(u) /\ b => r.rc = "PENDING"
      BY <2>r, ReadStartSame
    <3> QED BY <2>3, <3>1
  <2>5. Same(u, r.tag)
    <3>1. ReadsData(u) \/ u.preRead => Same(u, r.tag)
      BY <2>r, ReadStartSame
    <3> QED BY <2>2, <3>1
  <2> HIDE DEF r
  <2>6. Same(t, r.tag)
    BY <2>5, <2>s, SameTransitive
  <2>7. WriteStart(t, b) = r
    BY <2>1 DEF r
  <2> QED BY <1>2, <2>2, <2>3, <2>4, <2>a, <2>b, <2>6, <2>7 DEF Idle
<1>3. CASE Idle(t) /\ ~t.firstRead
  <2> DEFINE up == IF t.offset < Fragments THEN t.offset + 1 ELSE t.offset
             v  == [t EXCEPT !.wip = TRUE, !.req = "sent", !.offset = up]
             w  == [[t EXCEPT !.wip = TRUE] EXCEPT !.wip = FALSE]
  <2>1. w = t
    BY <1>3 DEF TagRecord, Idle
  <2>2. WriteStart(t, b) = IF ~b THEN Result(w, "NO_MEM")
                           ELSE IF t.typed THEN Result(v, "PENDING") ELSE Result(w, "UNSUPPORTED")
    BY <1>3 DEF WriteStart, BuildWrite, Result, Idle, TagRecord
  <2> HIDE DEF w
  <2>3. up \in 0..Fragments
    BY SizeAssumption DEF TagRecord
  <2> HIDE DEF up
  <2>4. /\ v \in TagRecord /\ v.wip /\ v.rip = t.rip /\ v.data = t.data /\ v.preRead = t.preRead
        /\ v.firstRead = t.firstRead /\ v.abortReq = t.abortReq /\ Same(t, v)
    BY <2>3 DEF TagRecord, Same, ReadsData
  <2> HIDE DEF v
  <2>5. CASE b /\ t.typed
    <3>1. WriteStart(t, b) = Result(v, "PENDING")
      BY <2>2, <2>5
    <3> QED BY <1>0, <1>3, <1>5, <2>4, <3>1 DEF Idle
  <2>6. CASE ~(b /\ t.typed)
    <3>1. WriteStart(t, b) \in {Result(t, "NO_MEM"), Result(t, "UNSUPPORTED")}
      BY <2>1, <2>2, <2>6
    <3>2. WriteStart(t, b).tag = t /\ WriteStart(t, b).rc \in {"NO_MEM", "UNSUPPORTED"}
      BY <1>5, <3>1
    <3> QED BY <1>0, <1>3, <2>6, <3>2, SameReflexive DEF Idle
  <2> QED BY <2>5, <2>6
<1> QED BY <1>1, <1>2, <1>3

LEMMA CheckRequestSame ==
  ASSUME NEW t, Fits(t)
  PROVE  LET r == CheckRequest(t)
         IN  /\ Same(t, r.tag)
             /\ r.tag.rip => t.rip
             /\ r.tag.wip => t.wip
             /\ r.tag.preRead = t.preRead /\ r.tag.firstRead = t.firstRead
             /\ r.tag.abortReq => t.abortReq
             /\ t.abortReq => Idle(r.tag) /\ r.rc # "OK"
             /\ r.rc = "OK" => r.tag.req = t.req /\ r.tag.offset = t.offset
             /\ r.rc = "OK" => r.tag.rip = t.rip /\ r.tag.wip = t.wip
<1>0. t \in TagRecord /\ {"DEAD", "ABORT", "PENDING", "OK"} \subseteq Codes
  BY DEF Fits, Codes
<1>1. ASSUME NEW u \in TagRecord, NEW code \in Codes
      PROVE  LET v == [u EXCEPT !.status = code]
             IN  /\ Same(u, v) /\ v.rip = u.rip /\ v.wip = u.wip /\ v.preRead = u.preRead
                 /\ v.firstRead = u.firstRead /\ v.abortReq = u.abortReq
                 /\ v.req = u.req /\ v.offset = u.offset
  BY DEF TagRecord, Same, ReadsData
<1> DEFINE Like(u) == /\ u \in TagRecord /\ Same(t, u) /\ u.rip => t.rip
                      /\ u.wip => t.wip
                      /\ u.preRead = t.preRead /\ u.firstRead = t.firstRead
                      /\ u.abortReq => t.abortReq
<1>2. ASSUME NEW u \in TagRecord, Same(t, u), u.rip => t.rip, u.wip => t.wip,
             u.preRead = t.preRead, u.firstRead = t.firstRead, u.abortReq => t.abortReq,
             NEW code \in Codes, t.abortReq => Idle(u) /\ code # "OK",
             code = "OK" => u = t,
             CheckRequest(t) = Result([u EXCEPT !.status = code], code)
      PROVE  LET r == CheckRequest(t)
             IN  /\ Same(t, r.tag)
                 /\ r.tag.rip => t.rip
                 /\ r.tag.wip => t.wip
                 /\ r.tag.preRead = t.preRead /\ r.tag.firstRead = t.firstRead
                 /\ r.tag.abortReq => t.abortReq
                 /\ t.abortReq => Idle(r.tag) /\ r.rc # "OK"
                 /\ r.rc = "OK" => r.tag.req = t.req /\ r.tag.offset = t.offset
                 /\ r.rc = "OK" => r.tag.rip = t.rip /\ r.tag.wip = t.wip
  <2> DEFINE v == [u EXCEPT !.status = code]
  <2>1. /\ Same(u, v) /\ v.rip = u.rip /\ v.wip = u.wip /\ v.preRead = u.preRead
        /\ v.firstRead = u.firstRead /\ v.abortReq = u.abortReq
        /\ v.req = u.req /\ v.offset = u.offset
    BY <1>1, <1>2
  <2>2. CheckRequest(t).tag = v /\ CheckRequest(t).rc = code
    BY <1>2 DEF Result
  <2> HIDE DEF v
  <2>3. Same(t, v)
    BY <1>2, <2>1, SameTransitive
  <2> QED BY <1>2, <2>1, <2>2, <2>3 DEF Idle
<1>a. LET u == AbortRequest(t)
      IN  /\ u \in TagRecord /\ Same(t, u) /\ Idle(u) /\ u.preRead = t.preRead
          /\ u.abortReq = t.abortReq /\ u.firstRead = t.firstRead
  BY <1>0, AbortRequestSame
<1>3. CASE t.abortReq
  <2> DEFINE a == AbortRequest(t)
             u == [a EXCEPT !.abortReq = FALSE]
  <2>1. CheckRequest(t) = Result([u EXCEPT !.status = "ABORT"], "ABORT")
    BY <1>3 DEF CheckRequest, Result
  <2>2. /\ a \in TagRecord /\ Same(t, a) /\ Idle(a) /\ a.preRead = t.preRead
        /\ a.firstRead = t.firstRead
    BY <1>a
  <2> HIDE DEF a
  <2>3. /\ u \in TagRecord /\ Same(a, u) /\ Idle(u) /\ u.preRead = a.preRead
        /\ u.firstRead = a.firstRead /\ ~u.abortReq
    BY <2>2 DEF TagRecord, Same, ReadsData, Idle
  <2>4. Same(t, u)
    BY <2>2, <2>3, SameTransitive
  <2> HIDE DEF u
  <2>5. "ABORT" \in Codes /\ "ABORT" # "OK" /\ ~u.rip /\ ~u.wip
    BY <1>0, <2>3 DEF Idle
  <2> QED BY <1>2, <2>1, <2>2, <2>3, <2>4, <2>5
<1>4. CASE ~t.abortReq /\ t.req = "dead"
  <2> DEFINE a == AbortRequest(t)
             u == [a EXCEPT !.status = "ABORT"]
  <2>1. CheckRequest(t) = Result([u EXCEPT !.status = "DEAD"], "DEAD")
    BY <1>4 DEF CheckRequest, Result, TagAbort
  <2>2. /\ a \in TagRecord /\ Same(t, a) /\ Idle(a) /\ a.preRead = t.preRead
        /\ a.firstRead = t.firstRead /\ a.abortReq = t.abortReq
    BY <1>a
  <2> HIDE DEF a
  <2>3. /\ u \in TagRecord /\ Same(a, u) /\ Idle(u) /\ u.preRead = a.preRead
        /\ u.firstRead = a.firstRead /\ u.abortReq = a.abortReq
    BY <1>0, <2>2 DEF TagRecord, Same, ReadsData, Idle
  <2>4. Same(t, u)
    BY <2>2, <2>3, SameTransitive
  <2> HIDE DEF u
  <2>5. "DEAD" \in Codes /\ "DEAD" # "OK" /\ ~u.rip /\ ~u.wip
    BY <1>0, <2>3 DEF Idle
  <2> QED BY <1>2, <1>4, <2>1, <2>2, <2>3, <2>4, <2>5
<1>5. CASE ~t.abortReq /\ t.req = "sent"
  <2>1. CheckRequest(t) = Result([t EXCEPT !.status = "PENDING"], "PENDING")
    BY <1>5 DEF CheckRequest, Result
  <2>2. "PENDING" \in Codes /\ "PENDING" # "OK"
    BY <1>0
  <2> QED BY <1>0, <1>2, <1>5, <2>1, <2>2, SameReflexive
<1>6. CASE ~t.abortReq /\ t.req \notin {"dead", "sent"}
  <2>1. t.req \in {"none", "good", "part", "refused"}
    BY <1>6 DEF Fits, TagRecord, AllAnswers
  <2>2. CheckRequest(t) = Result([t EXCEPT !.status = "OK"], "OK")
    BY <1>6, <2>1 DEF CheckRequest, Result, Fits
  <2> QED BY <1>0, <1>2, <1>6, <2>2, SameReflexive
<1> QED BY <1>3, <1>4, <1>5, <1>6

(* check_read_status_*(): a read that answers a pre-read goes on with the  *)
(* write, and is never over with OK.                                       *)
LEMMA CheckReadSame ==
  ASSUME NEW t, Fits(t), t.rip, NEW b \in BOOLEAN
  PROVE  LET r == CheckRead(t, b)
         IN  /\ Same(t, r.tag) /\ r.tag.abortReq = t.abortReq /\ r.tag.firstRead = t.firstRead
             /\ r.tag.preRead => t.preRead
             /\ Plain(t) => Plain(r.tag)
             /\ t.preRead => r.rc # "OK"
             /\ ~t.preRead => ~r.tag.wip
             /\ t.preRead /\ t.firstRead => ~r.tag.wip /\ (r.tag.rip => r.tag.preRead)
             /\ r.rc = "PENDING" <=> ~Idle(r.tag)
             /\ t.preRead /\ t.firstRead /\ b /\ t.req # "refused" => r.tag.rip
             /\ t.req = "part" /\ ~t.preRead /\ b => r.tag.rip
<1>0. t \in TagRecord /\ ~t.wip
  BY DEF Fits
<1>1. CASE t.req = "refused"
  <2>1. CheckRead(t, b).tag = AbortRequest(t) /\ CheckRead(t, b).rc = "REMOTE"
    BY <1>1 DEF CheckRead, Result
  <2> QED BY <1>0, <1>1, <2>1, AbortRequestSame DEF Plain, Idle
<1>2. CASE t.req # "refused"
  <2> DEFINE idle == AbortRequestOnly(t)
             data == IF t.preRead THEN idle.data ELSE "plc"
             got  == [idle EXCEPT !.typed = TRUE, !.data = data]
             back == [got EXCEPT !.preRead = FALSE, !.offset = 0]
             more == [got EXCEPT !.offset = @ + 1]
  <2>1. /\ idle \in TagRecord /\ Idle(idle) /\ idle.offset = t.offset /\ Same(t, idle)
        /\ idle.preRead = t.preRead /\ idle.abortReq = t.abortReq /\ idle.firstRead = t.firstRead
    BY <1>0, IdleTag, AbortRequestOnlySame
  <2>2. CheckRead(t, b) =
          LET next == CASE t.preRead -> WriteStart(back, b)
                        [] ~t.preRead /\ t.req = "part" -> ReadStart(more, b)
                        [] OTHER -> Result(got, "OK")
          IN  IF next.rc = "PENDING" THEN next ELSE Result(AbortRequest(next.tag), next.rc)
    BY <1>2 DEF CheckRead
  <2> HIDE DEF idle
  <2>d. data \in {"plc", "user"} /\ (t.preRead => data = idle.data)
    BY <2>1 DEF TagRecord
  <2>e. data = IF t.preRead THEN idle.data ELSE "plc"
    OBVIOUS
  <2> HIDE DEF data
  <2>3. /\ got \in TagRecord /\ Idle(got) /\ got.offset = idle.offset /\ got.typed
        /\ got.preRead = idle.preRead /\ got.abortReq = idle.abortReq
        /\ got.firstRead = idle.firstRead /\ got.data = data
        /\ got.dirty = idle.dirty /\ got.rif = idle.rif /\ got.wif = idle.wif
        /\ got.rdone = idle.rdone /\ got.wdone = idle.wdone /\ got.req = idle.req
    BY <2>1, <2>d DEF TagRecord, Idle
  <2>4. Same(t, got)
    BY <2>1, <2>3, <2>d DEF Same, ReadsData, Idle
  <2> HIDE DEF got
  <2>o. ASSUME NEW next, next.tag \in TagRecord,
               CheckRead(t, b) = IF next.rc = "PENDING" THEN next
                                 ELSE Result(AbortRequest(next.tag), next.rc)
        PROVE  LET r == CheckRead(t, b)
               IN  /\ r.rc = next.rc /\ r.tag.preRead = next.tag.preRead
                   /\ r.tag.abortReq = next.tag.abortReq /\ r.tag.firstRead = next.tag.firstRead
                   /\ Same(next.tag, r.tag)
                   /\ next.rc = "PENDING" => r.tag = next.tag
                   /\ next.rc # "PENDING" => Idle(r.tag)
    <3>1. CASE next.rc = "PENDING"
      BY <2>o, <3>1, SameReflexive
    <3>2. CASE next.rc # "PENDING"
      <4>1. CheckRead(t, b).tag = AbortRequest(next.tag) /\ CheckRead(t, b).rc = next.rc
        BY <2>o, <3>2 DEF Result
      <4> QED BY <2>o, <3>2, <4>1, AbortRequestSame
    <3> QED BY <3>1, <3>2
  <2>5. CASE t.preRead
    <3>1. 0 \in 0..Fragments
      BY SizeAssumption
    <3>2. /\ back \in TagRecord /\ Idle(back) /\ Same(got, back) /\ ~back.preRead
          /\ back.abortReq = got.abortReq /\ back.firstRead = got.firstRead /\ back.typed
      BY <2>3, <3>1 DEF TagRecord, Idle, Same, ReadsData
    <3> DEFINE next == WriteStart(back, b)
    <3>3. CheckRead(t, b) = IF next.rc = "PENDING" THEN next
                            ELSE Result(AbortRequest(next.tag), next.rc)
      BY <2>2, <2>5
    <3> HIDE DEF back
    <3>4. /\ next.tag \in TagRecord /\ next.rc # "OK" /\ Same(back, next.tag)
          /\ next.tag.abortReq = back.abortReq /\ next.tag.firstRead = back.firstRead
          /\ IF back.firstRead THEN ~next.tag.wip /\ (next.tag.rip => next.tag.preRead)
                               ELSE ~next.tag.rip
          /\ b => next.rc = "PENDING" /\ ~Idle(next.tag)
          /\ next.rc = "PENDING" <=> ~Idle(next.tag)
      BY <3>2, WriteStartSame
    <3> HIDE DEF next
    <3>5. Same(t, next.tag)
      BY <2>4, <3>2, <3>4, SameTransitive
    <3>6. LET r == CheckRead(t, b)
          IN  /\ r.rc = next.rc
              /\ r.tag.abortReq = next.tag.abortReq /\ r.tag.firstRead = next.tag.firstRead
              /\ Same(next.tag, r.tag)
              /\ next.rc = "PENDING" => r.tag = next.tag
              /\ next.rc # "PENDING" => Idle(r.tag)
      BY <2>o, <3>3, <3>4
    <3>7. Same(t, CheckRead(t, b).tag)
      BY <3>5, <3>6, SameTransitive
    <3> QED BY <1>0, <1>2, <2>1, <2>3, <2>5, <3>2, <3>4, <3>6, <3>7 DEF Plain, Idle
  <2>6. CASE ~t.preRead /\ t.req = "part"
    <3>1. t.offset + 1 \in 0..Fragments
      BY <1>0, <2>6, SizeAssumption DEF Fits, TagRecord
    <3>2. /\ more \in TagRecord /\ Idle(more) /\ Same(got, more) /\ more.preRead = got.preRead
          /\ more.abortReq = got.abortReq /\ more.firstRead = got.firstRead
          /\ more.wip = got.wip
      BY <2>1, <2>3, <3>1 DEF TagRecord, Idle, Same, ReadsData
    <3> DEFINE next == ReadStart(more, b)
    <3>3. CheckRead(t, b) = IF next.rc = "PENDING" THEN next
                            ELSE Result(AbortRequest(next.tag), next.rc)
      BY <2>2, <2>6
    <3> HIDE DEF more
    <3>4. /\ next.tag \in TagRecord /\ next.rc # "OK"
          /\ next.tag.abortReq = more.abortReq /\ next.tag.firstRead = more.firstRead
          /\ next.tag.preRead = more.preRead /\ next.tag.wip = more.wip
          /\ next.tag.dirty = more.dirty /\ next.tag.rif = more.rif /\ next.tag.wif = more.wif
          /\ next.tag.rdone = more.rdone /\ next.tag.wdone = more.wdone
          /\ next.tag.req \in {more.req, "sent"}
          /\ next.rc = "PENDING" => next.tag.rip
          /\ b => next.rc = "PENDING"
      BY <3>2, ReadStartSame
    <3> HIDE DEF next
    <3>5. Same(t, more) /\ ReadsData(t)
      BY <2>4, <2>6, <3>2, SameTransitive DEF ReadsData
    <3>6. Same(t, next.tag)
      BY <3>4, <3>5 DEF Same
    <3>7. LET r == CheckRead(t, b)
          IN  /\ r.rc = next.rc /\ r.tag.preRead = next.tag.preRead
              /\ r.tag.abortReq = next.tag.abortReq /\ r.tag.firstRead = next.tag.firstRead
              /\ Same(next.tag, r.tag)
              /\ next.rc = "PENDING" => r.tag = next.tag
              /\ next.rc # "PENDING" => Idle(r.tag)
      BY <2>o, <3>3, <3>4
    <3>8. Same(t, CheckRead(t, b).tag)
      BY <3>6, <3>7, SameTransitive
    <3> QED BY <1>0, <1>2, <2>1, <2>3, <2>6, <3>2, <3>4, <3>7, <3>8 DEF Plain, Idle
  <2>7. CASE ~t.preRead /\ t.req # "part"
    <3> DEFINE next == Result(got, "OK")
    <3>1. CheckRead(t, b) = IF next.rc = "PENDING" THEN next
                            ELSE Result(AbortRequest(next.tag), next.rc)
      BY <2>2, <2>7
    <3>2. next.tag = got /\ next.rc = "OK"
      BY DEF Result
    <3> HIDE DEF next
    <3>3. LET r == CheckRead(t, b)
          IN  /\ r.rc = next.rc /\ r.tag.preRead = next.tag.preRead
              /\ r.tag.abortReq = next.tag.abortReq /\ r.tag.firstRead = next.tag.firstRead
              /\ Same(next.tag, r.tag)
              /\ next.rc = "PENDING" => r.tag = next.tag
              /\ next.rc # "PENDING" => Idle(r.tag)
      BY <2>3, <2>o, <3>1, <3>2
    <3>4. Same(t, CheckRead(t, b).tag)
      BY <2>4, <3>2, <3>3, SameTransitive
    <3> QED BY <1>0, <1>2, <2>1, <2>3, <2>7, <3>2, <3>3, <3>4 DEF Plain, Idle
  <2> QED BY <2>5, <2>6, <2>7
<1> QED BY <1>1, <1>2

LEMMA CheckWriteSame ==
  ASSUME NEW t, Fits(t), t.wip, NEW b \in BOOLEAN
  PROVE  LET r == CheckWrite(t, b)
         IN  /\ r.tag \in TagRecord
             /\ Same(t, r.tag) /\ r.tag.abortReq = t.abortReq /\ r.tag.firstRead = t.firstRead
             /\ r.tag.preRead => t.preRead \/ t.firstRead
             /\ r.tag.rip => r.tag.preRead /\ t.firstRead
             /\ /\ Connected /\ t.req # "refused" /\ t.offset < Fragments
                /\ b /\ ~t.firstRead
                => r.tag.wip
<1>0. t \in TagRecord /\ t.typed /\ ~t.rip
  BY DEF Fits
<1>1. CASE Connected /\ t.req # "refused" /\ t.offset < Fragments
  <2> DEFINE u == AbortRequestOnly(t)
             r == WriteStart(u, b)
  <2>1. CheckWrite(t, b) = r
    BY <1>1 DEF CheckWrite
  <2>2. /\ u \in TagRecord /\ Idle(u) /\ u.typed /\ Same(t, u) /\ u.preRead = t.preRead
        /\ u.abortReq = t.abortReq /\ u.firstRead = t.firstRead
    BY <1>0, IdleTag, AbortRequestOnlySame
  <2> HIDE DEF u
  <2>3. /\ r.tag \in TagRecord /\ Same(u, r.tag) /\ r.tag.abortReq = u.abortReq
        /\ r.tag.firstRead = u.firstRead
        /\ r.tag.preRead => u.preRead \/ u.firstRead
        /\ r.tag.rip => r.tag.preRead /\ u.firstRead
        /\ b => ~Idle(r.tag)
    BY <2>2, WriteStartSame
  <2> HIDE DEF r
  <2>4. Same(t, r.tag)
    BY <2>2, <2>3, SameTransitive
  <2> QED BY <2>1, <2>2, <2>3, <2>4 DEF Idle
<1>2. CASE ~(Connected /\ t.req # "refused" /\ t.offset < Fragments)
  <2>1. CheckWrite(t, b).tag = AbortRequest(t)
    BY <1>2 DEF CheckWrite, Result
  <2> QED BY <1>0, <1>2, <2>1, AbortRequestSame DEF Idle
<1> QED BY <1>1, <1>2

(* The read in progress, if there is one, answers a first write. *)
Pre(t) == t.rip => t.preRead /\ t.firstRead

(* What tag_tickler() makes of a tag, for what follows. *)
Ticked(t, v) ==
  /\ v.dirty = t.dirty /\ v.rif = t.rif /\ v.wif = t.wif
  /\ ReadsData(v) => ReadsData(t)
  /\ ~ReadsData(t) => v.data = t.data
  /\ t.rdone => v.rdone
  /\ v.rdone => t.rdone \/ (t.rip /\ ~v.rip)
  /\ v.wdone => t.wdone \/ (t.wip /\ ~v.wip)
  /\ Plain(t) => Plain(v)
  /\ v.abortReq => t.abortReq
  /\ t.abortReq => Idle(v)
  /\ Idle(t) => Idle(v)
  /\ Pre(t) => Pre(v)
  /\ v.rdone /\ ~t.rdone /\ Pre(t) => Idle(v) /\ v.status \notin {"OK", "PENDING"}

LEMMA TagTicklerTicks ==
  ASSUME NEW t, Fits(t), NEW b \in BOOLEAN
  PROVE  Ticked(t, TagTickler(t, b))
<1> DEFINE checked == CheckRequest(t)
           read    == CheckRead(checked.tag, b)
           write   == CheckWrite(checked.tag, b)
           u == checked.tag
<1>1. Fits(u)
  BY CheckRequestFits
<1>2. /\ Same(t, u) /\ (u.rip => t.rip) /\ (u.wip => t.wip)
      /\ u.preRead = t.preRead /\ u.firstRead = t.firstRead
      /\ u.abortReq => t.abortReq
      /\ t.abortReq => Idle(u) /\ checked.rc # "OK"
      /\ checked.rc = "OK" => u.rip = t.rip /\ u.wip = t.wip
  BY CheckRequestSame
<1>3. CASE checked.rc = "OK" /\ u.rip
  <2> DEFINE first == read.tag.firstRead /\ read.tag.rip
             done  == read.tag.rdone \/ ~read.tag.rip
             v == [read.tag EXCEPT !.status = read.rc, !.firstRead = first, !.rdone = done]
  <2>1. TagTickler(t, b) = v
    BY <1>3 DEF TagTickler
  <2>2. read.tag \in TagRecord /\ read.rc \in Codes
    BY <1>1, <1>3, CheckReadFits DEF Fits
  <2>3. /\ Same(u, read.tag) /\ read.tag.abortReq = u.abortReq
        /\ Plain(u) => Plain(read.tag)
        /\ u.preRead => read.rc # "OK"
        /\ read.rc = "PENDING" <=> ~Idle(read.tag)
        /\ u.preRead /\ u.firstRead => ~read.tag.wip /\ (read.tag.rip => read.tag.preRead)
        /\ read.tag.firstRead = u.firstRead
    BY <1>1, <1>3, CheckReadSame
  <2> first \in BOOLEAN /\ done \in BOOLEAN
    OBVIOUS
  <2>4. Same(t, read.tag) /\ read.tag.rdone = t.rdone
    BY <1>2, <2>3, SameTransitive DEF Same
  <2>5. done = (t.rdone \/ ~read.tag.rip) /\ first = (t.firstRead /\ read.tag.rip)
    BY <1>2, <2>3, <2>4
  <2> HIDE DEF read, first, done
  <2>6. /\ v.dirty = read.tag.dirty /\ v.rif = read.tag.rif /\ v.wif = read.tag.wif
        /\ v.data = read.tag.data /\ v.wdone = read.tag.wdone /\ v.rip = read.tag.rip
        /\ v.wip = read.tag.wip /\ v.preRead = read.tag.preRead /\ v.rdone = done
        /\ v.abortReq = read.tag.abortReq /\ v.status = read.rc
        /\ v.firstRead = first
    BY <2>2 DEF TagRecord
  <2> HIDE DEF v
  <2>7. ~Idle(t) /\ ~t.abortReq /\ u.rip /\ t.rip
    BY <1>2, <1>3 DEF Idle
  <2> QED BY <1>2, <2>1, <2>3, <2>4, <2>5, <2>6, <2>7, ZenonT(60) DEF Ticked, Same, ReadsData, Plain, Pre, Idle
<1>4. CASE checked.rc = "OK" /\ ~u.rip /\ u.wip
  <2> DEFINE done == write.tag.wdone \/ ~write.tag.wip
             v == [write.tag EXCEPT !.status = write.rc, !.wdone = done]
  <2>1. TagTickler(t, b) = v
    BY <1>4 DEF TagTickler
  <2>2. write.tag \in TagRecord /\ write.rc \in Codes
    BY <1>1, <1>4, CheckWriteFits DEF Fits
  <2>3. /\ Same(u, write.tag) /\ write.tag.abortReq = u.abortReq
        /\ write.tag.firstRead = u.firstRead
        /\ write.tag.rip => write.tag.preRead /\ u.firstRead
    BY <1>1, <1>4, CheckWriteSame
  <2> done \in BOOLEAN
    OBVIOUS
  <2>4. Same(t, write.tag)
    BY <1>2, <2>3, SameTransitive
  <2>5. done = (t.wdone \/ ~write.tag.wip)
    BY <2>4 DEF Same
  <2> HIDE DEF write, done
  <2>6. /\ v.dirty = write.tag.dirty /\ v.rif = write.tag.rif /\ v.wif = write.tag.wif
        /\ v.data = write.tag.data /\ v.rdone = write.tag.rdone /\ v.rip = write.tag.rip
        /\ v.wip = write.tag.wip /\ v.preRead = write.tag.preRead /\ v.wdone = done
        /\ v.abortReq = write.tag.abortReq /\ v.firstRead = write.tag.firstRead
    BY <2>2 DEF TagRecord
  <2> HIDE DEF v
  <2>7. ~Idle(t) /\ ~t.abortReq /\ t.wip /\ ~Plain(t)
    BY <1>2, <1>4 DEF Idle, Plain
  <2> QED BY <1>2, <2>1, <2>3, <2>4, <2>5, <2>6, <2>7, ZenonT(60) DEF Ticked, Same, ReadsData, Pre, Idle
<1>5. CASE ~(checked.rc = "OK" /\ (u.rip \/ u.wip))
  <2>1. TagTickler(t, b) = u
    BY <1>5 DEF TagTickler
  <2> QED BY <1>2, <2>1 DEF Ticked, Same, ReadsData, Plain, Pre, Idle
<1> QED BY <1>3, <1>4, <1>5

(* An automatic write takes a read in flight back, and keeps the data. *)
LEMMA AutoWriteTakesBack ==
  ASSUME NEW t, Fits(t), NEW due \in BOOLEAN, NEW b \in BOOLEAN,
         ReadsData(t) => t.rif
  PROVE  LET v == AutoWriteStep(t, due, b)
         IN  /\ v.data = t.data /\ (v.dirty => t.dirty)
             /\ v.rdone => t.rdone
             /\ AutoWrite /\ t.dirty => ~ReadsData(v)
             /\ ~(AutoWrite /\ t.dirty) => v = t
             /\ v.abortReq => t.abortReq
             /\ Pre(t) => Pre(v)
<1> DEFINE a == AbortRequest(t)
           f == [a EXCEPT !.rif = FALSE, !.rdone = FALSE]
           u == IF t.rif THEN f ELSE t
           q == [u EXCEPT !.nextWrite = TRUE]
           w == [u EXCEPT !.dirty = FALSE, !.wif = TRUE, !.nextWrite = FALSE]
           r == WriteStart(w, b)
           v == [r.tag EXCEPT !.status = r.rc]
<1>0. t \in TagRecord
  BY DEF Fits
<1>1. /\ AutoWrite /\ t.dirty => AutoWriteStep(t, due, b) \in {u, q, v}
      /\ ~(AutoWrite /\ t.dirty) => AutoWriteStep(t, due, b) = t
  BY DEF AutoWriteStep
<1>2. /\ a \in TagRecord /\ Same(t, a) /\ Idle(a) /\ a.preRead = t.preRead /\ a.data = t.data
      /\ a.abortReq = t.abortReq
  BY <1>0, AbortRequestSame
<1> HIDE DEF a
<1>3. /\ f \in TagRecord /\ f.dirty = a.dirty /\ ~f.rdone /\ Idle(f) /\ f.abortReq = a.abortReq
      /\ f.data = a.data
  BY <1>2 DEF TagRecord, Idle
<1> HIDE DEF f
<1>4. CASE ~(AutoWrite /\ t.dirty)
  BY <1>1, <1>4
<1>5. CASE AutoWrite /\ t.dirty
  <2>1. /\ u \in TagRecord /\ u.dirty = t.dirty /\ u.data = t.data /\ (u.rdone => t.rdone)
        /\ ~ReadsData(u) /\ u.abortReq = t.abortReq /\ (Pre(t) => Pre(u))
    BY <1>0, <1>2, <1>3 DEF Same, ReadsData, Pre, Idle
  <2> HIDE DEF u
  <2>2. /\ q.dirty = u.dirty /\ q.data = u.data /\ q.rdone = u.rdone /\ ~ReadsData(q)
        /\ q.abortReq = u.abortReq /\ (Pre(u) => Pre(q))
    BY <2>1 DEF TagRecord, ReadsData, Pre
  <2> HIDE DEF q
  <2>3. /\ w \in TagRecord /\ ~w.dirty /\ w.data = u.data /\ w.rdone = u.rdone /\ ~ReadsData(w)
        /\ w.abortReq = u.abortReq /\ (Pre(u) => Pre(w))
    BY <2>1, ZenonT(60) DEF TagRecord, ReadsData, Pre
  <2> HIDE DEF w
  <2>4. /\ r.tag \in TagRecord /\ r.rc \in Codes /\ Same(w, r.tag) /\ r.tag.data = w.data
        /\ r.tag.abortReq = w.abortReq
        /\ r.tag.firstRead = w.firstRead
        /\ Idle(w) => (r.tag.rip => r.tag.preRead /\ w.firstRead)
        /\ ~Idle(w) => r.tag = w
    BY <2>3, WriteStartSame
  <2>p. Pre(w) => Pre(r.tag)
    BY <2>4 DEF Pre
  <2> HIDE DEF r
  <2>5. /\ v.dirty = r.tag.dirty /\ v.data = r.tag.data /\ v.rdone = r.tag.rdone
        /\ (ReadsData(v) <=> ReadsData(r.tag)) /\ v.abortReq = r.tag.abortReq
        /\ (Pre(r.tag) => Pre(v))
    BY <2>4 DEF TagRecord, ReadsData, Pre
  <2>6. ~v.dirty /\ v.data = t.data /\ (v.rdone => t.rdone) /\ ~ReadsData(v) /\ v.abortReq = t.abortReq
        /\ (Pre(t) => Pre(v))
    BY <2>1, <2>3, <2>4, <2>5, <2>p DEF Same
  <2> HIDE DEF v
  <2> QED BY <1>1, <1>5, <2>1, <2>2, <2>6
<1> QED BY <1>4, <1>5

(* A turn of the tickler sets nothing dirty, and leaves no read that would *)
(* replace data that is.                                                   *)
Turned(t, v) ==
  /\ v.data = t.data
  /\ v.rdone => t.rdone
  /\ ReadsData(v) => ReadsData(t) /\ v.rif
  /\ ReadsData(v) => ~(AutoWrite /\ v.dirty)
  /\ v.abortReq => t.abortReq
  /\ t.abortReq => Idle(v)
  /\ Pre(t) => Pre(v)
  /\ ~(AutoWrite /\ t.dirty) /\ Plain(t) => Plain(v) /\ (v.wdone => t.wdone)

LEMMA AbortedTurns ==
  ASSUME NEW t \in TagRecord
  PROVE  LET v == [ClearFlight(AbortRequest(t)) EXCEPT !.abortReq = FALSE]
         IN  /\ v \in TagRecord /\ Idle(v) /\ v.data = t.data /\ v.dirty = t.dirty /\ ~v.abortReq
             /\ ~v.rdone /\ ~v.wdone /\ ~v.rif /\ ~v.wif
             /\ v.preRead = t.preRead /\ v.firstRead = t.firstRead
<1> DEFINE a == AbortRequest(t)
<1>1. /\ a \in TagRecord /\ Same(t, a) /\ Idle(a) /\ a.preRead = t.preRead /\ a.data = t.data
      /\ a.firstRead = t.firstRead
  BY AbortRequestSame
<1> HIDE DEF a
<1> DEFINE v == [ClearFlight(a) EXCEPT !.abortReq = FALSE]
<1>2. /\ v \in TagRecord /\ Idle(v) /\ v.data = a.data /\ v.dirty = a.dirty /\ ~v.abortReq
      /\ ~v.rdone /\ ~v.wdone /\ ~v.rif /\ ~v.wif
      /\ v.preRead = a.preRead /\ v.firstRead = a.firstRead
  BY <1>1, ZenonT(60) DEF TagRecord, ClearFlight, Idle
<1>3. v.dirty = t.dirty
  BY <1>1, <1>2 DEF Same
<1> HIDE DEF v
<1> QED BY <1>1, <1>2, <1>3 DEF a, v

LEMMA GenericTicklerTurns ==
  ASSUME NEW t, Fits(t), NEW due \in BOOLEAN, NEW b \in BOOLEAN, ~AutoRead,
         ReadsData(t) => t.rif
  PROVE  Turned(t, GenericTickler(t, due, b))
<1>0. t \in TagRecord
  BY DEF Fits
<1>1. CASE t.abortReq
  <2> DEFINE v == [ClearFlight(AbortRequest(t)) EXCEPT !.abortReq = FALSE]
  <2>1. GenericTickler(t, due, b) = v
    BY <1>1 DEF GenericTickler
  <2>2. /\ Idle(v) /\ v.data = t.data /\ v.dirty = t.dirty /\ ~v.abortReq
        /\ ~v.rdone /\ ~v.wdone /\ v.preRead = t.preRead
    BY <1>0, AbortedTurns
  <2> HIDE DEF v
  <2> QED BY <1>1, <2>1, <2>2 DEF Turned, ReadsData, Idle, Plain, Pre
<1>2. CASE ~t.abortReq
  <2> DEFINE v == AutoWriteStep(t, due, b)
  <2>1. GenericTickler(t, due, b) = v
    BY <1>2 DEF GenericTickler, AutoReadStep
  <2>2. /\ v.data = t.data /\ (v.dirty => t.dirty)
        /\ v.rdone => t.rdone
        /\ AutoWrite /\ t.dirty => ~ReadsData(v)
        /\ ~(AutoWrite /\ t.dirty) => v = t
        /\ v.abortReq => t.abortReq
        /\ Pre(t) => Pre(v)
    BY AutoWriteTakesBack
  <2> HIDE DEF v
  <2> QED BY <1>2, <2>1, <2>2 DEF Turned
<1> QED BY <1>1, <1>2

LEMMA GenericTicklerDirty ==
  ASSUME NEW t, Fits(t), NEW due \in BOOLEAN, NEW b \in BOOLEAN
  PROVE  GenericTickler(t, due, b).dirty => t.dirty
<1>0. t \in TagRecord
  BY DEF Fits
<1>1. CASE t.abortReq
  BY <1>0, <1>1, AbortedTurns DEF GenericTickler
<1>2. CASE ~t.abortReq
  <2> DEFINE u == AutoWriteStep(t, due, b)
             w == [u EXCEPT !.rif = TRUE]
             r == ReadStart(w, b)
             v == [r.tag EXCEPT !.status = r.rc]
  <2>1. GenericTickler(t, due, b) \in {u, v}
    BY <1>2 DEF GenericTickler, AutoReadStep
  <2>2. u \in TagRecord
    BY AutoWriteFits DEF Fits
  <2>3. u.dirty => t.dirty
    BY DEF AutoWriteStep
  <2> HIDE DEF u
  <2>4. w \in TagRecord /\ w.dirty = u.dirty
    BY <2>2 DEF TagRecord
  <2> HIDE DEF w
  <2>5. r.tag \in TagRecord /\ r.tag.dirty = w.dirty
    BY <2>4, ReadStartSame
  <2> HIDE DEF r
  <2>6. v.dirty = r.tag.dirty
    BY <2>5 DEF TagRecord
  <2> QED BY <2>1, <2>3, <2>4, <2>5, <2>6
<1> QED BY <1>1, <1>2

-----------------------------------------------------------------------------
(* Data that waits for its automatic write *)

Creating == \E c \in Clients : pc[c] \in {"create", "create_check", "create_end"}
Waits(c) == pc[c] \in {"wait", "check"}

(* The conditions of DirtyKept: without them an operation that is over may *)
(* clear the flag of another that is not (an automatic read that begins    *)
(* before plc_tag_create_ex() ends, a read that ran out of time, two       *)
(* threads that read), or plc_tag_status() completes a read over new data. *)
Unmixed ==
  /\ ~AutoRead
  /\ "status" \notin Calls
  /\ "read" \in Calls => ~Timeouts /\ \A c, d \in Clients : c = d

(* What a thread may rely on at each place. *)
Relies(c) ==
  /\ pc[c] = "create" /\ cond => ~ReadsData(tag)
  /\ pc[c] \in {"create_check", "create_end", "end"} => ~ReadsData(tag)
  /\ pc[c] = "abort" => tag.abortReq \/ ~ReadsData(tag)
  /\ Waits(c) /\ call[c] = "read" => ~tag.dirty
  /\ call[c] = "read" => "read" \in Calls
  /\ Waits(c) /\ call[c] # "read" => Pre(tag)
  /\ "read" \in Calls /\ pc[c] \in {"idle", "return"} => ~tag.rdone
  /\ "read" \in Calls /\ pc[c] \in {"wait", "check", "end"} /\ call[c] # "read" => ~tag.rdone
  /\ Creating => pc[c] \in {"idle", "gone", "create", "create_check", "create_end"}

(* The inductive invariant: a read that will replace the data is in flight, *)
(* so that the tickler finds it and takes it back when there is new data.   *)
Kept ==
  /\ tag.dirty => tag.data = "user"
  /\ ReadsData(tag) => tag.rif /\ ~tag.rdone
  /\ Creating => Plain(tag) /\ ~tag.dirty /\ ~tag.rdone /\ ~tag.wdone
  /\ \A c \in Clients : Relies(c)

LEMMA InitKept == Init => Kept /\ ~tag.dirty
<1> SUFFICES ASSUME Init PROVE Kept /\ ~tag.dirty
  OBVIOUS
<1>1. PICK b \in Builds, c \in Clients, sync \in BOOLEAN :
        /\ tag = ReadStart(NewTag, b).tag
        /\ pc = [d \in Clients |-> IF d = c /\ sync /\ b THEN "create" ELSE "idle"]
  BY DEF Init
<1> DEFINE n == NewTag
<1>2. /\ n \in TagRecord /\ ~n.dirty /\ n.rif /\ ~n.rdone /\ ~n.wdone /\ ~n.preRead /\ ~n.wip
  BY SizeAssumption DEF NewTag, TagRecord, Codes
<1> HIDE DEF n
<1> DEFINE r == ReadStart(n, b)
<1>3. b \in BOOLEAN
  BY ModeAssumption
<1>4. /\ r.tag.dirty = n.dirty /\ r.tag.rif = n.rif /\ r.tag.rdone = n.rdone
      /\ r.tag.wdone = n.wdone /\ r.tag.preRead = n.preRead /\ r.tag.wip = n.wip
  BY <1>2, <1>3, ReadStartSame, ZenonT(60)
<1>5. tag = r.tag
  BY <1>1 DEF n
<1> HIDE DEF r
<1>6. ~tag.dirty /\ tag.rif /\ ~tag.rdone /\ ~tag.wdone /\ Plain(tag)
  BY <1>2, <1>4, <1>5 DEF Plain
<1>7. cond = FALSE /\ \A d \in Clients : call[d] = "none" /\ pc[d] \in {"create", "idle"}
  BY <1>1 DEF Init
<1> QED BY <1>6, <1>7 DEF Kept, Relies, Waits

LEMMA TickData ==
  ASSUME IInv, Kept, AutoWrite, Unmixed, NEW due \in BOOLEAN, NEW b \in Builds, Tick(due, b)
  PROVE  Kept'
<1> DEFINE before == GenericTickler(tag, due, b)
           after  == TagTickler(before, b)
           rif    == after.rif /\ ~after.rdone
           wif    == after.wif /\ ~after.wdone
           again  == after.nextWrite /\ ~after.wdone
           v == [after EXCEPT !.rif = rif, !.rdone = FALSE, !.wif = wif,
                              !.wdone = FALSE, !.nextWrite = again]
<1>0. Good(tag) /\ Rest /\ b \in BOOLEAN
  BY Halves, ModeAssumption
<1>1. Turned(tag, before) /\ (before.dirty => tag.dirty) /\ Fits(before)
  BY <1>0, GenericTicklerTurns, GenericTicklerDirty, GenericTicklerFits DEF Good, Kept, Unmixed
<1>2. /\ tag' = v /\ cond' = (cond \/ after.rdone \/ after.wdone)
      /\ UNCHANGED <<pc, call>>
  BY DEF Tick
<1> HIDE DEF before
<1>3. Ticked(before, after) /\ after \in TagRecord
  BY <1>0, <1>1, TagTicklerTicks, TagTicklerFits DEF Fits
<1> HIDE DEF after
<1> rif \in BOOLEAN /\ wif \in BOOLEAN /\ again \in BOOLEAN
  OBVIOUS
<1>4. rif = (after.rif /\ ~after.rdone)
  OBVIOUS
<1> HIDE DEF rif, wif, again
<1>5. /\ v.dirty = after.dirty /\ v.data = after.data /\ v.rip = after.rip /\ v.wip = after.wip
      /\ v.preRead = after.preRead /\ v.firstRead = after.firstRead /\ v.abortReq = after.abortReq
      /\ v.rif = rif /\ ~v.rdone /\ ~v.wdone
  BY <1>3 DEF TagRecord
<1> HIDE DEF v
<1>6. tag'.dirty => tag.dirty /\ tag'.data = "user"
  BY <1>1, <1>2, <1>3, <1>5 DEF Turned, Ticked, Kept
<1>7. ReadsData(tag') => ReadsData(tag) /\ tag'.rif
  BY <1>1, <1>2, <1>3, <1>4, <1>5 DEF Turned, Ticked, Kept, ReadsData
<1>8. ~tag'.rdone /\ ~tag'.wdone
  BY <1>2, <1>5
<1>9. Creating' = Creating
  BY <1>2 DEF Creating
<1>10. Creating => /\ Plain(tag')
                   /\ after.rdone \/ after.wdone => ~ReadsData(tag')
  BY <1>1, <1>2, <1>3, <1>5 DEF Turned, Ticked, Kept, Plain, ReadsData
<1>11. /\ tag'.abortReq => tag.abortReq
       /\ tag.abortReq => ~ReadsData(tag')
       /\ Pre(tag) => Pre(tag')
  BY <1>1, <1>2, <1>3, <1>5 DEF Turned, Ticked, Pre, ReadsData, Idle
<1>12. ASSUME NEW c \in Clients PROVE Relies(c)'
  <2>1. Relies(c)
    BY DEF Kept
  <2>2. pc[c] = "create" => Creating
    BY DEF Creating
  <2> QED BY <1>2, <1>6, <1>7, <1>8, <1>9, <1>10, <1>11, <2>1, <2>2 DEF Relies, Waits
<1> QED BY <1>6, <1>7, <1>8, <1>9, <1>10, <1>12 DEF Kept

LEMMA RespondData ==
  ASSUME IInv, Kept, NEW answer \in Answers, Respond(answer)
  PROVE  Kept'
<1>0. tag \in TagRecord
  BY DEF IInv, TypeOK
<1>1. tag' = [tag EXCEPT !.req = answer] /\ UNCHANGED <<cond, pc, call>>
  BY DEF Respond
<1>2. /\ tag'.dirty = tag.dirty /\ tag'.data = tag.data /\ tag'.rip = tag.rip
      /\ tag'.wip = tag.wip /\ tag'.preRead = tag.preRead /\ tag'.firstRead = tag.firstRead
      /\ tag'.abortReq = tag.abortReq /\ tag'.rif = tag.rif /\ tag'.rdone = tag.rdone
      /\ tag'.wdone = tag.wdone
  BY <1>0, <1>1 DEF TagRecord
<1>3. Creating' = Creating
  BY <1>1 DEF Creating
<1>4. ASSUME NEW c \in Clients PROVE Relies(c)'
  BY <1>1, <1>2, <1>3 DEF Kept, Relies, Waits, Pre, ReadsData
<1> QED BY <1>2, <1>3, <1>4 DEF Kept, ReadsData, Plain

(* The creator: until it is done nobody else does anything. *)
LEMMA CreateData ==
  ASSUME IInv, Kept, NEW c \in Clients,
         CreateWake(c) \/ CreateTimeout(c) \/ CreateCheck(c) \/ CreateEnd(c)
  PROVE  Kept'
<1> DEFINE a == AbortRequest(tag)
           e == [tag EXCEPT !.rif = FALSE, !.wif = FALSE]
<1>0. tag \in TagRecord /\ pc \in [Clients -> {"idle", "gone", "create", "create_check",
                                     "create_end", "wait", "check", "flag", "abort", "end", "return"}]
  BY DEF IInv, TypeOK
<1>1. /\ pc[c] \in {"create", "create_check", "create_end"}
      /\ pc' = [pc EXCEPT ![c] = pc'[c]]
      /\ pc'[c] \in {"create", "create_check", "create_end", "gone", "idle"}
      /\ UNCHANGED call
  BY <1>0 DEF CreateWake, CreateTimeout, CreateCheck, CreateEnd
<1>2. Creating /\ Relies(c)
  BY <1>1 DEF Creating, Kept
<1>3. /\ cond' => cond
      /\ tag' = a \/ tag' = tag \/ (tag' = e /\ ~ReadsData(tag))
      /\ pc'[c] \in {"create", "create_check", "create_end"} => ~ReadsData(tag) \/ tag' = a
  <2>1. CASE CreateWake(c)
    BY <1>2, <2>1 DEF CreateWake, Relies
  <2>2. CASE CreateTimeout(c)
    BY <2>2 DEF CreateTimeout
  <2>3. CASE CreateCheck(c)
    <3>1. ~ReadsData(tag) /\ UNCHANGED cond /\ (tag' = a \/ tag' = tag)
      BY <1>2, <2>3 DEF CreateCheck, Relies
    <3> QED BY <3>1
  <2>4. CASE CreateEnd(c)
    <3>1. ~ReadsData(tag) /\ UNCHANGED cond /\ tag' = e
      BY <1>2, <2>4 DEF CreateEnd, Relies
    <3> QED BY <3>1
  <2> QED BY <2>1, <2>2, <2>3, <2>4
<1>4. Same(tag, a) /\ Idle(a) /\ a.preRead = tag.preRead /\ a.data = tag.data
      /\ a.firstRead = tag.firstRead
  BY <1>0, AbortRequestSame
<1> HIDE DEF a
<1>5. /\ e.dirty = tag.dirty /\ e.data = tag.data /\ e.rip = tag.rip /\ e.wip = tag.wip
      /\ e.preRead = tag.preRead /\ e.firstRead = tag.firstRead /\ e.rdone = tag.rdone
      /\ e.wdone = tag.wdone
  BY <1>0 DEF TagRecord
<1> HIDE DEF e
<1>6. /\ ~tag'.dirty /\ ~tag'.rdone /\ ~tag'.wdone /\ Plain(tag')
      /\ ReadsData(tag') => ReadsData(tag) /\ tag'.rif
      /\ pc'[c] \in {"create", "create_check", "create_end"} => ~ReadsData(tag')
  BY <1>2, <1>3, <1>4, <1>5 DEF Kept, Same, ReadsData, Plain, Idle
<1>7. ASSUME NEW d \in Clients PROVE Relies(d)'
  <2>1. Relies(d) /\ pc[d] \in {"idle", "gone", "create", "create_check", "create_end"}
    BY <1>2 DEF Kept, Relies
  <2>2. pc'[d] \in {"idle", "gone", "create", "create_check", "create_end"}
    BY <1>0, <1>1, <2>1
  <2>3. pc'[d] = pc[d] \/ d = c
    BY <1>0, <1>1
  <2> QED BY <1>1, <1>3, <1>6, <2>1, <2>2, <2>3 DEF Relies, Waits
<1> QED BY <1>6, <1>7 DEF Kept

(* A read begins when there is nothing to write, and only one thread reads. *)
LEMMA StartReadData ==
  ASSUME IInv, Kept, Unmixed, NEW c \in Clients, NEW sync \in BOOLEAN, NEW b \in Builds,
         StartRead(c, sync, b)
  PROVE  Kept'
<1> DEFINE u == [tag EXCEPT !.rif = TRUE, !.status = "PENDING"]
           r == ReadStart(u, b)
           g == [r.tag EXCEPT !.abortReq = TRUE]
           v == ClearFlight(AbortRequest(g))
<1>0. /\ tag \in TagRecord /\ b \in BOOLEAN
      /\ pc \in [Clients -> {"idle", "gone", "create", "create_check", "create_end",
                             "wait", "check", "flag", "abort", "end", "return"}]
      /\ call \in [Clients -> {"none", "read", "write", "abort"}]
  BY ModeAssumption DEF IInv, TypeOK
<1>1. /\ "read" \in Calls /\ pc[c] = "idle" /\ ~Creating /\ ~tag.dirty
      /\ cond' = FALSE /\ call' = [call EXCEPT ![c] = "read"]
      /\ (tag' = r.tag \/ tag' = v)
      /\ pc' = [pc EXCEPT ![c] = pc'[c]] /\ pc'[c] \in {"wait", "return"}
  BY <1>0 DEF StartRead, CanCall, Created, Creating, Return
<1>2. \A d \in Clients : d = c
  BY <1>1 DEF Unmixed
<1>3. ~tag.rdone
  BY <1>1 DEF Kept, Relies
<1>4. /\ u \in TagRecord /\ u.rif /\ u.rdone = tag.rdone /\ u.dirty = tag.dirty
  BY <1>0 DEF TagRecord, Codes
<1> HIDE DEF u
<1>5. /\ r.tag \in TagRecord /\ r.tag.rif = u.rif /\ r.tag.rdone = u.rdone
      /\ r.tag.dirty = u.dirty
  BY <1>0, <1>4, ReadStartSame, ZenonT(60)
<1> HIDE DEF r
<1>6. g \in TagRecord /\ g.dirty = r.tag.dirty
  BY <1>5 DEF TagRecord
<1> HIDE DEF g
<1>7. ~v.rdone /\ Idle(v) /\ v.dirty = g.dirty
  <2> DEFINE w == AbortRequest(g)
  <2>1. w \in TagRecord /\ Idle(w) /\ Same(g, w)
    BY <1>6, AbortRequestSame
  <2> HIDE DEF w
  <2>2. v = ClearFlight(w)
    BY DEF w
  <2> HIDE DEF v
  <2> QED BY <2>1, <2>2 DEF TagRecord, ClearFlight, Idle, Same
<1> HIDE DEF v
<1>8. ~tag'.dirty /\ ~tag'.rdone /\ (ReadsData(tag') => tag'.rif)
  BY <1>1, <1>3, <1>4, <1>5, <1>6, <1>7 DEF ReadsData, Idle
<1>9. ~Creating'
  BY <1>0, <1>1, <1>2 DEF Creating
<1>10. ASSUME NEW d \in Clients PROVE Relies(d)'
  <2>1. d = c /\ call'[c] = "read"
    BY <1>0, <1>1, <1>2
  <2> QED BY <1>1, <1>8, <1>9, <2>1 DEF Relies, Waits
<1> QED BY <1>8, <1>9, <1>10 DEF Kept

(* A write begins when no read is in flight, so that there is none that    *)
(* would replace the data.                                                 *)
LEMMA StartWriteData ==
  ASSUME IInv, Kept, NEW c \in Clients, NEW sync \in BOOLEAN, NEW b \in Builds,
         StartWrite(c, sync, b)
  PROVE  Kept'
<1> DEFINE u == [tag EXCEPT !.wif = TRUE, !.status = "OK"]
           r == WriteStart(u, b)
           a == AbortRequest(r.tag)
           v == [a EXCEPT !.wif = FALSE]
<1>0. /\ tag \in TagRecord /\ b \in BOOLEAN
      /\ pc \in [Clients -> {"idle", "gone", "create", "create_check", "create_end",
                             "wait", "check", "flag", "abort", "end", "return"}]
      /\ call \in [Clients -> {"none", "read", "write", "abort"}]
  BY ModeAssumption DEF IInv, TypeOK
<1>1. /\ pc[c] = "idle" /\ ~Creating /\ ~tag.rif
      /\ cond' = FALSE /\ call' = [call EXCEPT ![c] = "write"]
      /\ ((tag' = r.tag /\ r.rc = "PENDING") \/ tag' = v)
      /\ pc' = [pc EXCEPT ![c] = pc'[c]] /\ pc'[c] \in {"wait", "return"}
  BY <1>0 DEF StartWrite, CanCall, Created, Creating, Return
<1>2. ~ReadsData(tag)
  BY <1>1 DEF Kept
<1>3. /\ u \in TagRecord /\ u.rip = tag.rip /\ u.wip = tag.wip /\ u.preRead = tag.preRead
      /\ u.firstRead = tag.firstRead
      /\ u.rdone = tag.rdone /\ u.dirty = tag.dirty /\ u.data = tag.data
      /\ u.abortReq = tag.abortReq
  BY <1>0 DEF TagRecord, Codes
<1> HIDE DEF u
<1>4. /\ r.tag \in TagRecord /\ Same(u, r.tag) /\ r.tag.data = u.data
      /\ r.tag.abortReq = u.abortReq
      /\ r.tag.firstRead = u.firstRead
      /\ Idle(u) => (r.tag.rip => r.tag.preRead /\ u.firstRead)
      /\ ~Idle(u) => r.tag = u
      /\ ~Idle(u) => r.rc # "PENDING"
  BY <1>0, <1>3, WriteStartSame
<1> HIDE DEF r
<1>5. a \in TagRecord /\ Same(r.tag, a) /\ Idle(a) /\ a.data = r.tag.data /\ a.abortReq = r.tag.abortReq
  BY <1>4, AbortRequestSame
<1> HIDE DEF a
<1>6. /\ v.rdone = a.rdone /\ v.dirty = a.dirty /\ v.data = a.data /\ Idle(v)
      /\ v.abortReq = a.abortReq
  BY <1>5 DEF TagRecord, Idle
<1> HIDE DEF v
<1>7. /\ tag'.dirty = tag.dirty /\ tag'.data = tag.data /\ tag'.rdone = tag.rdone
      /\ tag'.abortReq = tag.abortReq
      /\ ~ReadsData(tag')
  BY <1>1, <1>2, <1>3, <1>4, <1>5, <1>6 DEF Same, ReadsData, Idle
<1>8. Pre(tag')
  BY <1>1, <1>4, <1>6 DEF Pre, Idle
<1>9. ~Creating'
  BY <1>0, <1>1 DEF Creating
<1>10. ASSUME NEW d \in Clients PROVE Relies(d)'
  <2>1. Relies(d) /\ Relies(c)
    BY DEF Kept
  <2>2. CASE d = c
    <3>1. call'[d] = "write"
      BY <1>0, <1>1, <2>2
    <3> QED BY <1>1, <1>7, <1>8, <1>9, <2>1, <2>2, <3>1 DEF Relies, Waits
  <2>3. CASE d # c
    <3>1. pc'[d] = pc[d] /\ call'[d] = call[d]
      BY <1>0, <1>1, <2>3
    <3> QED BY <1>1, <1>7, <1>8, <1>9, <2>1, <3>1 DEF Relies, Waits
  <2> QED BY <2>2, <2>3
<1> QED BY <1>7, <1>9, <1>10 DEF Kept

LEMMA WaitData ==
  ASSUME IInv, Kept, Unmixed, NEW c \in Clients,
         Wake(c) \/ WaitTimeout(c) \/ Abort(c) \/ Leave(c)
  PROVE  Kept'
<1>0. /\ pc \in [Clients -> {"idle", "gone", "create", "create_check", "create_end",
                             "wait", "check", "flag", "abort", "end", "return"}]
      /\ call \in [Clients -> {"none", "read", "write", "abort"}]
  BY DEF IInv, TypeOK
<1>1. /\ UNCHANGED tag /\ (cond' => cond)
      /\ pc' = [pc EXCEPT ![c] = pc'[c]] /\ call' = [call EXCEPT ![c] = call'[c]]
      /\ \/ pc[c] = "wait" /\ pc'[c] \in {"check", "flag"} /\ call'[c] = call[c]
         \/ pc[c] = "idle" /\ pc'[c] = "flag" /\ call'[c] = "abort" /\ ~Creating
         \/ pc[c] = "return" /\ pc'[c] = "idle" /\ call'[c] = "none"
  <2>1. CASE Wake(c)
    BY <1>0, <2>1 DEF Wake
  <2>2. CASE WaitTimeout(c)
    BY <1>0, <2>2 DEF WaitTimeout
  <2>3. CASE Abort(c)
    BY <1>0, <2>3 DEF Abort, CanCall, Created, Creating
  <2>4. CASE Leave(c)
    BY <1>0, <2>4 DEF Leave
  <2> QED BY <2>1, <2>2, <2>3, <2>4
<1>2. ~Creating
  BY <1>1 DEF Kept, Relies
<1>3. ~Creating'
  BY <1>0, <1>1, <1>2 DEF Creating
<1>4. ASSUME NEW d \in Clients PROVE Relies(d)'
  <2>1. Relies(d)
    BY DEF Kept
  <2>2. CASE d # c
    <3>1. pc'[d] = pc[d] /\ call'[d] = call[d]
      BY <1>0, <1>1, <2>2
    <3> QED BY <1>1, <1>3, <2>1, <3>1 DEF Relies, Waits
  <2>3. CASE d = c
    BY <1>1, <1>3, <2>1, <2>3 DEF Relies, Waits
  <2> QED BY <2>2, <2>3
<1> QED BY <1>1, <1>3, <1>4 DEF Kept

(* The wait loop's own tickle finds a read only if the thread reads, and   *)
(* then no other thread has set data.                                      *)
LEMMA CheckData ==
  ASSUME IInv, Kept, Unmixed, NEW c \in Clients, NEW b \in Builds, Check(c, b)
  PROVE  Kept'
<1> DEFINE ticked == TagTickler(tag, b)
           code   == StatusImpl(ticked)
<1>0. /\ Fits(tag) /\ b \in BOOLEAN
      /\ pc \in [Clients -> {"idle", "gone", "create", "create_check", "create_end",
                             "wait", "check", "flag", "abort", "end", "return"}]
      /\ call \in [Clients -> {"none", "read", "write", "abort"}]
  BY Halves, ModeAssumption DEF Good, IInv, TypeOK
<1>1. /\ pc[c] = "check" /\ tag' = ticked /\ UNCHANGED <<cond, call>>
      /\ pc' = [pc EXCEPT ![c] = pc'[c]]
      /\ \/ IsError(code) /\ pc'[c] = "flag"
         \/ code = "PENDING" /\ pc'[c] = "wait"
         \/ code = "PENDING" /\ Timeouts /\ pc'[c] = "end"
         \/ code = "OK" /\ pc'[c] = "end"
  BY <1>0 DEF Check
<1>2. Ticked(tag, ticked)
  BY <1>0, TagTicklerTicks
<1> HIDE DEF ticked
<1>3. ~Creating /\ Relies(c) /\ Waits(c)
  BY <1>1 DEF Kept, Relies, Waits
<1>4. ~Creating'
  BY <1>0, <1>1, <1>3 DEF Creating
<1>5. /\ tag'.dirty = tag.dirty
      /\ tag'.dirty => tag'.data = "user"
  <2>1. tag.dirty => ~ReadsData(tag)
    BY <1>3 DEF Relies, Pre, ReadsData
  <2> QED BY <1>1, <1>2, <2>1 DEF Ticked, Kept
<1>6. ReadsData(tag') => ReadsData(tag) /\ tag'.rif /\ ~tag'.rdone
  BY <1>1, <1>2 DEF Ticked, Kept, ReadsData
<1>7. /\ tag.abortReq => ~ReadsData(tag')
      /\ Pre(tag) => Pre(tag')
      /\ Pre(tag) /\ ~tag.rdone /\ tag'.rdone => IsError(code)
      /\ code = "OK" => ~ReadsData(tag')
  <2>1. /\ tag.abortReq => ~ReadsData(tag')
        /\ Pre(tag) => Pre(tag')
    BY <1>1, <1>2 DEF Ticked, ReadsData, Idle
  <2>2. Pre(tag) /\ ~tag.rdone /\ tag'.rdone => IsError(code)
    BY <1>1, <1>2 DEF Ticked, Idle, StatusImpl, TagStatus, IsError
  <2>3. code = "OK" => ~ReadsData(tag')
    BY <1>1 DEF StatusImpl, TagStatus, ReadsData
  <2> QED BY <2>1, <2>2, <2>3
<1> HIDE DEF code
<1>8. ASSUME NEW d \in Clients PROVE Relies(d)'
  <2>1. Relies(d)
    BY DEF Kept
  <2>2. CASE d # c
    <3>1. pc'[d] = pc[d] /\ call'[d] = call[d] /\ "read" \notin Calls
      BY <1>0, <1>1, <2>2 DEF Unmixed
    <3>2. pc[d] \notin {"create", "create_check", "create_end"}
      BY <1>3 DEF Creating
    <3> QED BY <1>1, <1>4, <1>5, <1>6, <1>7, <2>1, <3>1, <3>2 DEF Relies, Waits
  <2>3. CASE d = c
    <3>1. pc'[c] = "end" => ~ReadsData(tag')
      <4>1. CASE code = "OK"
        BY <1>7, <4>1
      <4>2. CASE Timeouts /\ code # "OK"
        <5>1. call[c] # "read"
          BY <1>3, <4>2 DEF Relies, Unmixed
        <5>2. Pre(tag')
          BY <1>3, <1>7, <5>1 DEF Relies
        <5> QED BY <5>2 DEF Pre, ReadsData
      <4> QED BY <1>1, <4>1, <4>2
    <3>2. call[c] # "read" => Pre(tag')
      BY <1>3, <1>7 DEF Relies
    <3>3. "read" \in Calls /\ call[c] # "read" /\ pc'[c] \in {"wait", "end"} => ~tag'.rdone
      <4>1. code \in {"OK", "PENDING"} => ~IsError(code)
        BY DEF IsError
      <4> QED BY <1>1, <1>3, <1>7, <4>1 DEF Relies, Waits
    <3>4. pc'[c] \in {"flag", "wait", "end"} /\ call'[c] = call[c]
      BY <1>1
    <3>5. Waits(c)' /\ call[c] = "read" => ~tag'.dirty
      BY <1>3, <1>5 DEF Relies
    <3> QED BY <1>1, <1>4, <2>1, <2>3, <3>1, <3>2, <3>3, <3>4, <3>5 DEF Relies, Waits
  <2> QED BY <2>2, <2>3
<1> QED BY <1>4, <1>5, <1>6, <1>8 DEF Kept

(* An abort leaves no read, or clears the flags of one that is over. *)
LEMMA AbortData ==
  ASSUME IInv, Kept, NEW c \in Clients, AbortFlag(c) \/ AbortRun(c) \/ End(c)
  PROVE  Kept'
<1>0. /\ tag \in TagRecord
      /\ pc \in [Clients -> {"idle", "gone", "create", "create_check", "create_end",
                             "wait", "check", "flag", "abort", "end", "return"}]
  BY DEF IInv, TypeOK
<1>1. /\ pc' = [pc EXCEPT ![c] = pc'[c]] /\ UNCHANGED <<cond, call>>
      /\ \/ pc[c] = "flag" /\ pc'[c] = "abort"
         \/ pc[c] = "abort" /\ pc'[c] = "end"
         \/ pc[c] = "end" /\ pc'[c] = "return"
  BY <1>0 DEF AbortFlag, AbortRun, End
<1>2. ~Creating /\ Relies(c)
  BY <1>1 DEF Kept, Relies
<1>3. ~Creating'
  BY <1>0, <1>1, <1>2 DEF Creating
<1>4. /\ tag'.dirty = tag.dirty /\ tag'.data = tag.data
      /\ tag'.rdone => tag.rdone
      /\ tag.abortReq => tag'.abortReq
      /\ Pre(tag) => Pre(tag')
      /\ ReadsData(tag') => ReadsData(tag) /\ tag'.rif
      /\ pc'[c] = "abort" => tag'.abortReq
      /\ pc'[c] = "end" => ~tag'.rdone /\ ~ReadsData(tag')
      /\ pc'[c] = "return" /\ call[c] = "read" => ~tag'.rdone
  <2>1. CASE AbortFlag(c)
    <3>1. tag' = [tag EXCEPT !.abortReq = TRUE] /\ pc'[c] = "abort"
      BY <1>0, <2>1 DEF AbortFlag
    <3>2. /\ tag'.dirty = tag.dirty /\ tag'.data = tag.data /\ tag'.rdone = tag.rdone
          /\ tag'.rip = tag.rip /\ tag'.preRead = tag.preRead /\ tag'.firstRead = tag.firstRead
          /\ tag'.rif = tag.rif /\ tag'.abortReq
      BY <1>0, <3>1 DEF TagRecord
    <3> QED BY <3>1, <3>2 DEF Kept, Pre, ReadsData
  <2>2. CASE AbortRun(c)
    <3> DEFINE a == AbortRequest(tag)
               u == IF tag.abortReq THEN a ELSE tag
    <3>1. tag' = ClearFlight(u) /\ pc[c] = "abort" /\ pc'[c] = "end"
      BY <1>0, <2>2 DEF AbortRun
    <3>2. /\ a \in TagRecord /\ Same(tag, a) /\ Idle(a) /\ a.preRead = tag.preRead
          /\ a.data = tag.data /\ a.firstRead = tag.firstRead /\ a.abortReq = tag.abortReq
      BY <1>0, AbortRequestSame
    <3> HIDE DEF a
    <3>3. /\ u \in TagRecord /\ u.dirty = tag.dirty /\ u.data = tag.data
          /\ u.abortReq = tag.abortReq
          /\ ~ReadsData(u) /\ (Pre(tag) => Pre(u))
      BY <1>0, <1>2, <3>1, <3>2 DEF Same, Relies, Pre, ReadsData, Idle
    <3> HIDE DEF u
    <3>4. /\ tag'.dirty = u.dirty /\ tag'.data = u.data /\ ~tag'.rdone
          /\ tag'.abortReq = u.abortReq /\ tag'.rip = u.rip /\ tag'.preRead = u.preRead
          /\ tag'.firstRead = u.firstRead
      BY <3>1, <3>3 DEF TagRecord, ClearFlight
    <3> QED BY <3>1, <3>3, <3>4 DEF Pre, ReadsData
  <2>3. CASE End(c)
    <3> DEFINE r == [tag EXCEPT !.rif = FALSE, !.rdone = FALSE]
               w == [tag EXCEPT !.wif = FALSE, !.wdone = FALSE]
    <3>1. /\ pc[c] = "end" /\ pc'[c] = "return"
          /\ tag' \in {r, w, tag}
          /\ call[c] = "read" => tag' = r
      BY <1>0, <2>3 DEF End
    <3>2. /\ r.dirty = tag.dirty /\ r.data = tag.data /\ ~r.rdone
          /\ r.abortReq = tag.abortReq /\ r.rip = tag.rip /\ r.preRead = tag.preRead
          /\ r.firstRead = tag.firstRead
      BY <1>0 DEF TagRecord
    <3>3. /\ w.dirty = tag.dirty /\ w.data = tag.data /\ w.rdone = tag.rdone
          /\ w.abortReq = tag.abortReq /\ w.rip = tag.rip /\ w.preRead = tag.preRead
          /\ w.firstRead = tag.firstRead
      BY <1>0 DEF TagRecord
    <3>4. ~ReadsData(tag)
      BY <1>2, <3>1 DEF Relies
    <3> HIDE DEF r, w
    <3> QED BY <3>1, <3>2, <3>3, <3>4 DEF Pre, ReadsData
  <2> QED BY <2>1, <2>2, <2>3
<1>5. ASSUME NEW d \in Clients PROVE Relies(d)'
  <2>1. Relies(d)
    BY DEF Kept
  <2>2. CASE d # c
    <3>1. pc'[d] = pc[d] /\ call'[d] = call[d]
      BY <1>0, <1>1, <2>2
    <3> QED BY <1>1, <1>3, <1>4, <2>1, <3>1 DEF Relies, Waits
  <2>3. CASE d = c
    BY <1>1, <1>3, <1>4, <2>1, <2>3 DEF Relies, Waits
  <2> QED BY <2>2, <2>3
<1> QED BY <1>3, <1>4, <1>5 DEF Kept

LEMMA SetData ==
  ASSUME IInv, Kept, AutoWrite, Unmixed, NEW c \in Clients, Set(c)
  PROVE  Kept'
<1> DEFINE u == [tag EXCEPT !.data = "user", !.dirty = AutoWrite, !.status = "OK"]
           w == [tag EXCEPT !.status = "NO_DATA"]
<1>0. tag \in TagRecord
  BY DEF IInv, TypeOK
<1>1. /\ pc[c] = "idle" /\ ~Creating /\ (tag' = u \/ tag' = w) /\ UNCHANGED <<cond, pc, call>>
  BY DEF Set, CanCall, Created, Creating
<1>2. ~Creating'
  BY <1>1 DEF Creating
<1>3. /\ u.data = "user" /\ u.rip = tag.rip /\ u.preRead = tag.preRead
      /\ u.firstRead = tag.firstRead /\ u.rif = tag.rif /\ u.rdone = tag.rdone
      /\ u.abortReq = tag.abortReq
  BY <1>0 DEF TagRecord
<1>4. /\ w.dirty = tag.dirty /\ w.data = tag.data /\ w.rip = tag.rip /\ w.preRead = tag.preRead
      /\ w.firstRead = tag.firstRead /\ w.rif = tag.rif /\ w.rdone = tag.rdone
      /\ w.abortReq = tag.abortReq
  BY <1>0 DEF TagRecord
<1> HIDE DEF u, w
<1>5. ASSUME NEW d \in Clients PROVE Relies(d)'
  <2>1. Relies(d)
    BY DEF Kept
  <2>2. ~(Waits(d) /\ call[d] = "read")
    <3>1. SUFFICES ASSUME Waits(d), call[d] = "read" PROVE FALSE
      OBVIOUS
    <3>2. d = c
      BY <2>1, <3>1 DEF Relies, Unmixed
    <3> QED BY <1>1, <3>1, <3>2 DEF Waits
  <2>3. /\ ReadsData(tag') = ReadsData(tag) /\ tag'.abortReq = tag.abortReq
        /\ Pre(tag') = Pre(tag) /\ tag'.rdone = tag.rdone
    BY <1>1, <1>3, <1>4 DEF ReadsData, Pre
  <2> QED BY <1>1, <1>2, <2>1, <2>2, <2>3 DEF Relies, Waits
<1>6. /\ tag'.dirty => tag'.data = "user"
      /\ ReadsData(tag') => tag'.rif /\ ~tag'.rdone
  BY <1>1, <1>3, <1>4 DEF Kept, ReadsData
<1> QED BY <1>2, <1>5, <1>6 DEF Kept

LEMMA NextData ==
  ASSUME IInv, Kept, AutoWrite, Unmixed, [Next]_vars
  PROVE  Kept'
<1>1. CASE Next
  <2>1. ASSUME NEW c \in Clients, NEW b \in Builds, Status(c, b) PROVE FALSE
    BY <2>1 DEF Status, CanCall, Unmixed
  <2>2. ASSUME NEW c \in Clients, Client(c) PROVE Kept'
    BY <2>1, <2>2, CreateData, StartReadData, StartWriteData, WaitData, CheckData, AbortData,
       SetData DEF Client
  <2> QED BY <1>1, <2>2, TickData, RespondData DEF Next
<1>2. CASE UNCHANGED vars
  <2>1. UNCHANGED <<tag, cond, pc, call>>
    BY <1>2 DEF vars
  <2>2. Creating' = Creating
    BY <2>1 DEF Creating
  <2>3. ASSUME NEW c \in Clients PROVE Relies(c)'
    BY <2>1, <2>2 DEF Kept, Relies, Waits
  <2> QED BY <2>1, <2>2, <2>3 DEF Kept
<1> QED BY <1>1, <1>2

(* Without automatic writes nothing is ever dirty. *)
Clean == ~tag.dirty

LEMMA NeverDirty ==
  ASSUME IInv, Clean, ~AutoWrite, [Next]_vars
  PROVE  Clean'
<1> SUFFICES ~tag'.dirty
  BY DEF Clean
<1> USE DEF Clean
<1>0. Fits(tag) /\ tag \in TagRecord
  BY Halves DEF Good, Fits
<1>1. ASSUME NEW t \in TagRecord
      PROVE  /\ AbortRequest(t) \in TagRecord /\ AbortRequest(t).dirty = t.dirty
             /\ ClearFlight(t).dirty = t.dirty
  <2>1. ClearFlight(t).dirty = t.dirty
    BY DEF TagRecord, ClearFlight
  <2> QED BY <2>1, AbortRequestSame DEF Same
<1>2. ASSUME NEW due \in BOOLEAN, NEW b \in Builds, Tick(due, b) PROVE ~tag'.dirty
  <2> DEFINE before == GenericTickler(tag, due, b)
             after  == TagTickler(before, b)
  <2>1. b \in BOOLEAN
    BY ModeAssumption
  <2>2. ~before.dirty /\ Fits(before)
    BY <1>0, <2>1, GenericTicklerDirty, GenericTicklerFits
  <2>3. tag' = [after EXCEPT !.rif = @ /\ ~after.rdone, !.rdone = FALSE,
                             !.wif = @ /\ ~after.wdone, !.wdone = FALSE,
                             !.nextWrite = @ /\ ~after.wdone]
    BY <1>2 DEF Tick
  <2> HIDE DEF before
  <2>4. Ticked(before, after) /\ after \in TagRecord
    BY <2>1, <2>2, TagTicklerTicks, TagTicklerFits DEF Fits
  <2> HIDE DEF after
  <2> QED BY <2>2, <2>3, <2>4 DEF Ticked, TagRecord
<1>3. ASSUME NEW answer \in Answers, Respond(answer) PROVE ~tag'.dirty
  BY <1>0, <1>3 DEF Respond, TagRecord
<1>4. ASSUME NEW c \in Clients, Client(c) PROVE ~tag'.dirty
  <2>1. ASSUME CreateWake(c) \/ CreateTimeout(c) \/ CreateCheck(c) \/ CreateEnd(c)
        PROVE  ~tag'.dirty
    <3>1. CASE CreateEnd(c)
      BY <1>0, <3>1 DEF CreateEnd, TagRecord
    <3>2. CASE ~CreateEnd(c)
      <4>1. tag' \in {tag, AbortRequest(tag)}
        BY <2>1, <3>2 DEF CreateWake, CreateTimeout, CreateCheck
      <4> QED BY <1>0, <1>1, <4>1
    <3> QED BY <3>1, <3>2
  <2>2. ASSUME NEW sync \in BOOLEAN, NEW b \in Builds, StartRead(c, sync, b) PROVE ~tag'.dirty
    <3> DEFINE u == [tag EXCEPT !.rif = TRUE, !.status = "PENDING"]
               r == ReadStart(u, b)
               g == [r.tag EXCEPT !.abortReq = TRUE]
    <3>1. tag' = r.tag \/ tag' = ClearFlight(AbortRequest(g))
      BY <2>2 DEF StartRead
    <3>2. u \in TagRecord /\ ~u.dirty /\ b \in BOOLEAN
      BY <1>0, ModeAssumption DEF TagRecord, Codes
    <3> HIDE DEF u
    <3>3. r.tag \in TagRecord /\ ~r.tag.dirty
      BY <3>2, ReadStartSame
    <3> HIDE DEF r
    <3>4. g \in TagRecord /\ ~g.dirty
      BY <3>3 DEF TagRecord
    <3> HIDE DEF g
    <3> QED BY <1>1, <3>1, <3>3, <3>4
  <2>3. ASSUME NEW sync \in BOOLEAN, NEW b \in Builds, StartWrite(c, sync, b) PROVE ~tag'.dirty
    <3> DEFINE u == [tag EXCEPT !.wif = TRUE, !.status = "OK"]
               r == WriteStart(u, b)
               a == AbortRequest(r.tag)
    <3>1. tag' = r.tag \/ tag' = [a EXCEPT !.wif = FALSE]
      BY <2>3 DEF StartWrite
    <3>2. u \in TagRecord /\ ~u.dirty /\ b \in BOOLEAN
      BY <1>0, ModeAssumption DEF TagRecord, Codes
    <3> HIDE DEF u
    <3>3. r.tag \in TagRecord /\ ~r.tag.dirty
      BY <3>2, WriteStartSame DEF Same
    <3> HIDE DEF r
    <3>4. a \in TagRecord /\ ~a.dirty
      BY <1>1, <3>3
    <3> HIDE DEF a
    <3> QED BY <3>1, <3>3, <3>4 DEF TagRecord
  <2>4. ASSUME NEW b \in Builds, Check(c, b) \/ Status(c, b) PROVE ~tag'.dirty
    <3>1. tag' = TagTickler(tag, b) /\ b \in BOOLEAN
      BY <2>4, ModeAssumption DEF Check, Status
    <3> QED BY <1>0, <3>1, TagTicklerTicks DEF Ticked
  <2>5. ASSUME AbortRun(c) PROVE ~tag'.dirty
    BY <1>0, <1>1, <2>5 DEF AbortRun
  <2>6. ASSUME AbortFlag(c) \/ End(c) \/ Set(c) PROVE ~tag'.dirty
    BY <1>0, <2>6 DEF AbortFlag, End, Set, TagRecord
  <2>7. ASSUME Wake(c) \/ WaitTimeout(c) \/ Leave(c) \/ Abort(c) PROVE ~tag'.dirty
    BY <2>7 DEF Wake, WaitTimeout, Leave, Abort
  <2> QED BY <1>4, <2>1, <2>2, <2>3, <2>4, <2>5, <2>6, <2>7 DEF Client
<1>5. CASE UNCHANGED vars
  BY <1>5 DEF vars
<1> QED BY <1>2, <1>3, <1>4, <1>5 DEF Next

(* Data that the application has set is sent, or waits to be, and no reply *)
(* takes its place (lib.c:297, plc_tag_generic_tickler(): new data aborts  *)
(* the read in flight), for any number of threads, fragments, answers and  *)
(* timeouts, if nothing clears the flags of another's operation.           *)
THEOREM DirtyDataKept == ASSUME AutoWrite => Unmixed PROVE Spec => []DirtyKept
<1>1. CASE AutoWrite
  <2>1. Unmixed
    BY <1>1
  <2>2. IInv /\ Kept /\ [Next]_vars => Kept'
    BY <1>1, <2>1, NextData
  <2>3. Kept => DirtyKept
    BY DEF Kept, DirtyKept
  <2> QED BY <2>2, <2>3, InitKept, TagInvariant, PTL DEF Spec
<1>2. CASE ~AutoWrite
  <2>1. Init => Clean
    BY InitKept DEF Clean
  <2>2. IInv /\ Clean /\ [Next]_vars => Clean'
    BY <1>2, NeverDirty
  <2>3. Clean => DirtyKept
    BY DEF Clean, DirtyKept
  <2> QED BY <2>1, <2>2, <2>3, TagInvariant, PTL DEF Spec
<1> QED BY <1>1, <1>2

-----------------------------------------------------------------------------
(* Calls that return PLCTAG_STATUS_OK *)

(* The conditions of OkMeansRead and OkMeansWritten: one thread uses a tag  *)
(* that does nothing by itself, every request can be built and is sent on a *)
(* connection, and no reply holds an error (one that cannot be used, and   *)
(* ends the operation, may).                                                *)
Smooth ==
  /\ \A c, d \in Clients : c = d
  /\ "refused" \notin Answers /\ FALSE \notin Builds /\ Connected
  /\ ~AutoRead /\ ~AutoWrite

(* An operation in progress is in flight, so that no other begins; one that *)
(* is complete is over; a tag that was never read is not written.           *)
Steady(t) ==
  /\ t.req # "refused"
  /\ t.rip => t.rif \/ (t.preRead /\ t.wif)
  /\ t.wip => t.wif /\ ~t.firstRead
  /\ t.preRead => t.firstRead
  /\ t.rdone => t.rif /\ Idle(t)
  /\ t.wdone => t.wif /\ Idle(t)

(* What nothing but a call of the application brings about. *)
NothingNew(t, v) ==
  /\ v.preRead => t.preRead
  /\ v.rip => t.rip
  /\ v.wip => t.wip
  /\ ReadsData(v) => ReadsData(t)
  /\ v.abortReq => t.abortReq
  /\ t.abortReq => Idle(v)

LEMMA SmoothTurn ==
  ASSUME Smooth, NEW t, Fits(t), Steady(t), NEW due \in BOOLEAN, NEW b \in BOOLEAN
  PROVE  LET v == GenericTickler(t, due, b)
         IN  /\ Fits(v) /\ Steady(v) /\ NothingNew(t, v)
             /\ (v.rdone => t.rdone) /\ (v.wdone => t.wdone)
<1>0. t \in TagRecord /\ Fits(GenericTickler(t, due, b))
  BY GenericTicklerFits DEF Fits
<1>1. CASE t.abortReq
  <2> DEFINE v == [ClearFlight(AbortRequest(t)) EXCEPT !.abortReq = FALSE]
  <2>1. GenericTickler(t, due, b) = v
    BY <1>1 DEF GenericTickler
  <2>2. /\ Idle(v) /\ ~v.rdone /\ ~v.wdone /\ v.preRead = t.preRead /\ v.firstRead = t.firstRead
        /\ ~v.abortReq
    BY <1>0, AbortedTurns
  <2>3. v.req = "none"
    BY <1>0, <2>1, <2>2 DEF Fits, Idle
  <2> HIDE DEF v
  <2> QED BY <1>0, <2>1, <2>2, <2>3 DEF Steady, NothingNew, ReadsData, Idle
<1>2. CASE ~t.abortReq
  <2>1. GenericTickler(t, due, b) = t
    BY <1>2 DEF GenericTickler, AutoWriteStep, AutoReadStep, Smooth
  <2> QED BY <1>2, <2>1 DEF NothingNew
<1> QED BY <1>1, <1>2

(* The tickler ends a read only with the answer to its last fragment, and  *)
(* a write only with the answer to the last packet.                        *)
LEMMA SmoothTick ==
  ASSUME Smooth, NEW t, Fits(t), Steady(t)
  PROVE  LET v == TagTickler(t, TRUE)
         IN  /\ Fits(v) /\ Steady(v) /\ NothingNew(t, v)
             /\ v.rdone /\ ~t.rdone => ReadsData(t) /\ t.req = "good" /\ ~t.abortReq
             /\ v.wdone /\ ~t.wdone =>
                  t.wip /\ t.offset = Fragments /\ t.req = "good" /\ ~t.abortReq
<1> DEFINE checked == CheckRequest(t)
           read    == CheckRead(checked.tag, TRUE)
           write   == CheckWrite(checked.tag, TRUE)
           u == checked.tag
           w == TagTickler(t, TRUE)
<1>0. t \in TagRecord /\ Fits(w)
  BY TagTicklerFits DEF Fits
<1>1. Fits(u) /\ u \in TagRecord
  BY CheckRequestFits DEF Fits
<1>2. /\ Same(t, u) /\ (u.rip => t.rip) /\ (u.wip => t.wip)
      /\ u.preRead = t.preRead /\ u.firstRead = t.firstRead
      /\ u.abortReq => t.abortReq
      /\ t.abortReq => Idle(u) /\ checked.rc # "OK"
      /\ checked.rc = "OK" => u.req = t.req /\ u.offset = t.offset
      /\ checked.rc = "OK" => u.rip = t.rip /\ u.wip = t.wip
  BY CheckRequestSame
<1>3. checked.rc = "OK" /\ ~Idle(u) => u.req \in {"good", "part"}
  <2>1. checked.rc = "OK" /\ u.req # "none" => u.req \in {"good", "part", "refused"}
    BY CheckRequestFits
  <2> QED BY <1>1, <1>2, <2>1 DEF Steady, Fits, Idle
<1>4. Ticked(t, w)
  BY TagTicklerTicks
<1>5. CASE checked.rc = "OK" /\ u.rip
  <2> DEFINE first == read.tag.firstRead /\ read.tag.rip
             done  == read.tag.rdone \/ ~read.tag.rip
             v == [read.tag EXCEPT !.status = read.rc, !.firstRead = first, !.rdone = done]
  <2>1. w = v
    BY <1>5 DEF TagTickler
  <2>2. read.tag \in TagRecord /\ read.rc \in Codes
    BY <1>1, <1>5, CheckReadFits DEF Fits
  <2>3. /\ Same(u, read.tag) /\ read.tag.firstRead = u.firstRead
        /\ read.tag.preRead => u.preRead
        /\ ~u.preRead => ~read.tag.wip
        /\ u.preRead /\ u.firstRead => ~read.tag.wip /\ (read.tag.rip => read.tag.preRead)
        /\ u.preRead /\ u.firstRead /\ u.req # "refused" => read.tag.rip
        /\ u.req = "part" /\ ~u.preRead => read.tag.rip
    BY <1>1, <1>5, CheckReadSame
  <2>4. /\ read.tag.rdone = t.rdone /\ read.tag.wdone = t.wdone
        /\ read.tag.rif = t.rif /\ read.tag.wif = t.wif
        /\ ReadsData(read.tag) => ReadsData(t)
    BY <1>2, <2>3 DEF Same
  <2> first \in BOOLEAN /\ done \in BOOLEAN
    OBVIOUS
  <2>5. done = (t.rdone \/ ~read.tag.rip) /\ first = (t.firstRead /\ read.tag.rip)
    BY <1>2, <2>3, <2>4
  <2> HIDE DEF read, first, done
  <2>6. /\ v.rif = read.tag.rif /\ v.wif = read.tag.wif
        /\ v.wdone = read.tag.wdone /\ v.rip = read.tag.rip
        /\ v.wip = read.tag.wip /\ v.preRead = read.tag.preRead /\ v.rdone = done
        /\ v.firstRead = first /\ v.req = read.tag.req
    BY <2>2 DEF TagRecord
  <2> HIDE DEF v, u, w, checked
  <2>7. t.rip /\ ~t.abortReq /\ ~t.wip /\ ~t.rdone /\ ~t.wdone /\ (u.req = "good" \/ u.req = "part")
    BY <1>2, <1>3, <1>5 DEF Steady, Fits, Idle
  <2>8. ~w.wip /\ ~w.wdone /\ (w.rip /\ t.preRead => w.preRead) /\ (w.preRead => t.preRead)
    BY <1>2, <2>1, <2>3, <2>4, <2>6, <2>7 DEF Steady, ReadsData
  <2>9. ~w.rip => ReadsData(t) /\ t.req = "good" /\ ~w.firstRead /\ ~w.preRead
    BY <1>2, <1>5, <2>1, <2>3, <2>5, <2>6, <2>7 DEF Steady, ReadsData
  <2>10. w.rip => ~w.rdone /\ (w.firstRead <=> t.firstRead)
    BY <2>1, <2>5, <2>6, <2>7
  <2>11. w.rif = t.rif /\ w.wif = t.wif
    BY <2>1, <2>4, <2>6
  <2>12. w.req # "refused"
    BY <1>2, <1>3, <1>5, <2>1, <2>3, <2>6 DEF Same, Idle
  <2>13. Steady(w)
    <3>1. w.rip => w.rif \/ (w.preRead /\ w.wif)
      BY <2>7, <2>8, <2>11 DEF Steady
    <3>2. w.preRead => w.firstRead
      BY <2>8, <2>9, <2>10 DEF Steady
    <3>3. w.rdone => w.rif /\ Idle(w)
      BY <2>7, <2>8, <2>9, <2>10, <2>11 DEF Steady, ReadsData, Idle
    <3> QED BY <2>8, <2>12, <3>1, <3>2, <3>3 DEF Steady
  <2>14. NothingNew(t, w)
    BY <1>4, <2>7, <2>8 DEF NothingNew, Ticked
  <2> QED BY <1>0, <2>7, <2>8, <2>9, <2>10, <2>13, <2>14 DEF w
<1>6. CASE checked.rc = "OK" /\ ~u.rip /\ u.wip
  <2> DEFINE done == write.tag.wdone \/ ~write.tag.wip
             v == [write.tag EXCEPT !.status = write.rc, !.wdone = done]
  <2>1. w = v
    BY <1>6 DEF TagTickler
  <2>2. write.tag \in TagRecord /\ write.rc \in Codes
    BY <1>1, <1>6, CheckWriteFits DEF Fits
  <2>3. /\ Same(u, write.tag) /\ write.tag.firstRead = u.firstRead
        /\ write.tag.preRead => u.preRead \/ u.firstRead
        /\ write.tag.rip => u.firstRead
        /\ u.req # "refused" /\ u.offset < Fragments /\ ~u.firstRead => write.tag.wip
    BY <1>1, <1>6, CheckWriteSame DEF Smooth
  <2>4. /\ write.tag.rdone = t.rdone /\ write.tag.wdone = t.wdone
        /\ write.tag.rif = t.rif /\ write.tag.wif = t.wif
    BY <1>2, <2>3 DEF Same
  <2> done \in BOOLEAN
    OBVIOUS
  <2>5. done = (t.wdone \/ ~write.tag.wip)
    BY <2>4
  <2> HIDE DEF write, done
  <2>6. /\ v.rif = write.tag.rif /\ v.wif = write.tag.wif
        /\ v.rdone = write.tag.rdone /\ v.rip = write.tag.rip
        /\ v.wip = write.tag.wip /\ v.preRead = write.tag.preRead /\ v.wdone = done
        /\ v.firstRead = write.tag.firstRead /\ v.req = write.tag.req
    BY <2>2 DEF TagRecord
  <2> HIDE DEF v, u, w, checked
  <2>7. /\ t.wip /\ ~t.rip /\ ~t.abortReq /\ ~t.rdone /\ ~t.wdone /\ ~t.firstRead /\ ~t.preRead
        /\ u.req = "good"
    BY <1>1, <1>2, <1>3, <1>6 DEF Steady, Fits, Idle
  <2>8. ~w.rip /\ ~w.rdone /\ ~w.preRead /\ ~w.firstRead
    BY <1>2, <2>1, <2>3, <2>4, <2>6, <2>7
  <2>9. ~w.wip => t.offset = Fragments /\ t.req = "good"
    <3>1. ~w.wip => ~(u.offset < Fragments)
      BY <1>2, <2>1, <2>3, <2>6, <2>7
    <3>2. t.offset \in 0..Fragments
      BY <1>0 DEF TagRecord
    <3> QED BY <1>2, <1>6, <2>7, <3>1, <3>2, SizeAssumption
  <2>10. w.wip => ~w.wdone
    BY <2>1, <2>5, <2>6, <2>7
  <2>11. w.rif = t.rif /\ w.wif = t.wif
    BY <2>1, <2>4, <2>6
  <2>12. w.req # "refused"
    BY <2>1, <2>3, <2>6, <2>7 DEF Same
  <2>13. Steady(w)
    BY <2>7, <2>8, <2>10, <2>11, <2>12 DEF Steady, Idle
  <2>14. NothingNew(t, w)
    BY <1>4, <2>7, <2>8 DEF NothingNew, Ticked
  <2> QED BY <1>0, <2>7, <2>8, <2>9, <2>10, <2>13, <2>14 DEF w
<1>7. CASE ~(checked.rc = "OK" /\ (u.rip \/ u.wip))
  <2>1. w = u
    BY <1>7 DEF TagTickler
  <2>2. u.req # "refused"
    BY <1>2 DEF Same, Steady
  <2> QED BY <1>0, <1>2, <2>1, <2>2 DEF Steady, NothingNew, Same, ReadsData, Idle
<1> QED BY <1>5, <1>6, <1>7

LEMMA NewTransitive ==
  ASSUME NEW t, NEW u, NEW v, NothingNew(t, u), NothingNew(u, v)
  PROVE  NothingNew(t, v)
BY DEF NothingNew, Idle

(* What a thread may rely on at each place: the signal it waits for comes  *)
(* with the answer to its own operation, which is then over.               *)
Means(c) ==
  /\ pc[c] \in {"create", "create_check", "create_end"} =>
       ~tag.preRead /\ ~tag.wip /\ ~tag.rdone /\ ~tag.wdone
  /\ pc[c] \in {"create_check", "create_end", "check", "end"} => Idle(tag)
  /\ pc[c] \in {"create", "wait"} /\ cond => Idle(tag)
  /\ pc[c] \in {"wait", "check"} => call[c] \in {"read", "write"}
  /\ pc[c] = "abort" => tag.abortReq \/ Idle(tag)
  /\ pc[c] = "wait" /\ (cond \/ tag.rdone \/ tag.wdone) => c \in answered
  /\ pc[c] = "wait" /\ call[c] = "read" => ~tag.wip
  /\ pc[c] = "wait" /\ call[c] = "write" => ~ReadsData(tag)
  /\ pc[c] = "check" => c \in answered
  /\ pc[c] \in {"flag", "abort"} /\ call[c] \in {"read", "write"} => rc[c] # "OK"
  /\ pc[c] \in {"end", "return"} /\ call[c] \in {"read", "write"} /\ rc[c] = "OK" =>
       c \in answered

(* The inductive invariant behind OkMeansRead and OkMeansWritten *)
Meant == Steady(tag) /\ \A c \in Clients : Means(c)

LEMMA InitMeant == ASSUME Smooth, Init PROVE Meant
<1>1. PICK b \in Builds, c \in Clients, sync \in BOOLEAN :
        /\ tag = ReadStart(NewTag, b).tag
        /\ pc = [d \in Clients |-> IF d = c /\ sync /\ b THEN "create" ELSE "idle"]
  BY DEF Init
<1> DEFINE n == NewTag
<1>2. /\ n \in TagRecord /\ n.rif /\ ~n.rdone /\ ~n.wdone /\ ~n.preRead /\ ~n.wip /\ n.firstRead
      /\ n.req = "none"
  BY SizeAssumption DEF NewTag, TagRecord, Codes
<1> HIDE DEF n
<1> DEFINE r == ReadStart(n, b)
<1>3. b \in BOOLEAN
  BY ModeAssumption
<1>4. /\ r.tag.rif = n.rif /\ r.tag.rdone = n.rdone /\ r.tag.wdone = n.wdone
      /\ r.tag.preRead = n.preRead /\ r.tag.wip = n.wip /\ r.tag.firstRead = n.firstRead
      /\ r.tag.req \in {n.req, "sent"}
  BY <1>2, <1>3, ReadStartSame, ZenonT(60)
<1>5. tag = r.tag
  BY <1>1 DEF n
<1> HIDE DEF r
<1>6. Steady(tag) /\ ~tag.rdone /\ ~tag.wdone /\ ~tag.preRead /\ ~tag.wip
  BY <1>2, <1>4, <1>5 DEF Steady
<1>7. cond = FALSE /\ \A d \in Clients : call[d] = "none" /\ pc[d] \in {"create", "idle"}
  BY <1>1 DEF Init
<1> QED BY <1>6, <1>7 DEF Meant, Means

(* The tickler completes an operation with the answer that Served sees. *)
LEMMA TickMeant ==
  ASSUME IInv, Meant, Smooth, NEW due \in BOOLEAN, NEW b \in Builds, Tick(due, b)
  PROVE  Meant'
<1> DEFINE before == GenericTickler(tag, due, b)
           after  == TagTickler(before, b)
           rif    == after.rif /\ ~after.rdone
           wif    == after.wif /\ ~after.wdone
           again  == after.nextWrite /\ ~after.wdone
           v == [after EXCEPT !.rif = rif, !.rdone = FALSE, !.wif = wif,
                              !.wdone = FALSE, !.nextWrite = again]
<1>0. Fits(tag) /\ Steady(tag) /\ b = TRUE
  BY Halves, ModeAssumption DEF Good, Meant, Smooth
<1>1. /\ Fits(before) /\ Steady(before) /\ NothingNew(tag, before)
      /\ (before.rdone => tag.rdone) /\ (before.wdone => tag.wdone)
  BY <1>0, SmoothTurn
<1>2. /\ tag' = v /\ cond' = (cond \/ after.rdone \/ after.wdone)
      /\ answered' = answered \cup Served(before)
      /\ UNCHANGED <<pc, call, rc>>
  BY DEF Tick
<1> HIDE DEF before
<1>3. /\ Fits(after) /\ Steady(after) /\ NothingNew(before, after)
      /\ after.rdone /\ ~before.rdone => ReadsData(before) /\ before.req = "good" /\ ~before.abortReq
      /\ after.wdone /\ ~before.wdone =>
           before.wip /\ before.offset = Fragments /\ before.req = "good" /\ ~before.abortReq
  BY <1>0, <1>1, SmoothTick
<1> HIDE DEF after
<1> rif \in BOOLEAN /\ wif \in BOOLEAN /\ again \in BOOLEAN
  OBVIOUS
<1>4. rif = (after.rif /\ ~after.rdone) /\ wif = (after.wif /\ ~after.wdone)
  OBVIOUS
<1> HIDE DEF rif, wif, again
<1>5. /\ v.rip = after.rip /\ v.wip = after.wip /\ v.preRead = after.preRead
      /\ v.firstRead = after.firstRead /\ v.abortReq = after.abortReq /\ v.req = after.req
      /\ v.rif = rif /\ ~v.rdone /\ v.wif = wif /\ ~v.wdone
  BY <1>3 DEF Fits, TagRecord
<1> HIDE DEF v
<1>6. Steady(tag')
  BY <1>2, <1>3, <1>4, <1>5 DEF Steady, Idle
<1>7. NothingNew(tag, tag')
  BY <1>1, <1>2, <1>3, <1>5, NewTransitive DEF NothingNew, ReadsData, Idle
<1>8. ~tag'.rdone /\ ~tag'.wdone /\ (after.rdone \/ after.wdone => Idle(tag'))
  BY <1>2, <1>3, <1>5 DEF Steady, Idle
<1>9. ASSUME NEW c \in Clients, pc[c] = "wait", after.rdone \/ after.wdone
      PROVE  c \in answered'
  <2>1. Means(c)
    BY DEF Meant
  <2>2. CASE tag.rdone \/ tag.wdone
    BY <1>2, <1>9, <2>1, <2>2 DEF Means
  <2>3. CASE ~tag.rdone /\ ~tag.wdone
    <3>1. /\ call[c] = "read" => ~before.wip
          /\ call[c] = "write" => ~ReadsData(before)
          /\ call[c] \in {"read", "write"}
      BY <1>1, <1>9, <2>1 DEF Means, NothingNew
    <3>2. /\ before.req = "good" /\ ~before.abortReq
          /\ \/ call[c] = "read" /\ before.rip /\ ~before.preRead
             \/ call[c] = "write" /\ before.wip /\ before.offset = Fragments
      BY <1>1, <1>3, <1>9, <2>3, <3>1 DEF ReadsData
    <3>3. c \in Served(before)
      BY <3>2 DEF Served
    <3> QED BY <1>2, <3>3
  <2> QED BY <2>2, <2>3
<1>10. ASSUME NEW c \in Clients PROVE Means(c)'
  <2>1. Means(c)
    BY DEF Meant
  <2>2. Idle(tag) => Idle(tag')
    BY <1>7 DEF NothingNew, Idle
  <2>3. pc[c] = "wait" /\ cond' => c \in answered'
    BY <1>2, <1>9, <2>1 DEF Means
  <2> QED BY <1>2, <1>7, <1>8, <2>1, <2>2, <2>3 DEF Means, NothingNew
<1> QED BY <1>6, <1>10 DEF Meant

LEMMA RespondMeant ==
  ASSUME IInv, Meant, Smooth, NEW answer \in Answers, Respond(answer)
  PROVE  Meant'
<1>0. tag \in TagRecord /\ answer # "refused"
  BY DEF IInv, TypeOK, Smooth
<1>1. tag' = [tag EXCEPT !.req = answer] /\ UNCHANGED <<cond, pc, call, rc, answered>>
  BY DEF Respond
<1>2. /\ tag'.rip = tag.rip /\ tag'.wip = tag.wip /\ tag'.preRead = tag.preRead
      /\ tag'.firstRead = tag.firstRead /\ tag'.abortReq = tag.abortReq /\ tag'.rif = tag.rif
      /\ tag'.wif = tag.wif /\ tag'.rdone = tag.rdone /\ tag'.wdone = tag.wdone
      /\ tag'.req = answer
  BY <1>0, <1>1 DEF TagRecord
<1>3. Steady(tag')
  BY <1>0, <1>2 DEF Meant, Steady, Idle
<1>4. ASSUME NEW c \in Clients PROVE Means(c)'
  BY <1>1, <1>2 DEF Meant, Means, ReadsData, Idle
<1> QED BY <1>3, <1>4 DEF Meant

LEMMA AbortSteady ==
  ASSUME NEW t \in TagRecord, Steady(t)
  PROVE  LET u == AbortRequest(t)
         IN  /\ Steady(u) /\ Idle(u) /\ u.preRead = t.preRead
             /\ u.rdone = t.rdone /\ u.wdone = t.wdone
<1> DEFINE u == AbortRequest(t)
<1>1. Same(t, u) /\ Idle(u) /\ u.preRead = t.preRead /\ u.firstRead = t.firstRead
  BY AbortRequestSame
<1> HIDE DEF u
<1>2. /\ u.rdone = t.rdone /\ u.wdone = t.wdone /\ u.rif = t.rif /\ u.wif = t.wif
      /\ u.req # "refused"
  BY <1>1 DEF Same, Steady
<1>3. Steady(u)
  BY <1>1, <1>2 DEF Steady, Idle
<1> QED BY <1>1, <1>2, <1>3 DEF u

LEMMA CreateMeant ==
  ASSUME IInv, Meant, Smooth, NEW c \in Clients,
         CreateWake(c) \/ CreateTimeout(c) \/ CreateCheck(c) \/ CreateEnd(c)
  PROVE  Meant'
<1> DEFINE a == AbortRequest(tag)
           e == [tag EXCEPT !.rif = FALSE, !.wif = FALSE]
<1>0. /\ tag \in TagRecord /\ Steady(tag) /\ Means(c)
      /\ pc \in [Clients -> {"idle", "gone", "create", "create_check", "create_end",
                             "wait", "check", "flag", "abort", "end", "return"}]
  BY DEF IInv, TypeOK, Meant
<1>1. \A d \in Clients : d = c
  BY DEF Smooth
<1>2. Steady(a)
  BY <1>0, AbortSteady
<1>3. /\ ~tag.preRead /\ ~tag.wip /\ ~tag.rdone /\ ~tag.wdone
      /\ \/ CreateWake(c) \/ CreateCheck(c) \/ CreateEnd(c) => Idle(tag)
  BY <1>0 DEF Means, CreateWake, CreateTimeout, CreateCheck, CreateEnd
<1>4. CASE CreateWake(c)
  <2>1. pc'[c] = "create_check" /\ UNCHANGED tag /\ cond' = FALSE
    BY <1>0, <1>4 DEF CreateWake
  <2> QED BY <1>0, <1>1, <1>3, <1>4, <2>1 DEF Meant, Means
<1>5. CASE CreateTimeout(c)
  <2>1. pc'[c] = "gone" /\ tag' = a
    BY <1>0, <1>5 DEF CreateTimeout
  <2> HIDE DEF a
  <2> QED BY <1>1, <1>2, <2>1 DEF Meant, Means
<1>6. CASE CreateCheck(c)
  <2>1. \/ tag' = a /\ pc'[c] = "gone"
        \/ UNCHANGED tag /\ pc'[c] \in {"create_end", "create"}
    BY <1>0, <1>6 DEF CreateCheck
  <2> HIDE DEF a
  <2> QED BY <1>0, <1>1, <1>2, <1>3, <1>6, <2>1 DEF Meant, Means
<1>7. CASE CreateEnd(c)
  <2>1. tag' = e /\ pc'[c] = "idle"
    BY <1>0, <1>7 DEF CreateEnd
  <2>2. /\ e.rip = tag.rip /\ e.wip = tag.wip /\ e.preRead = tag.preRead /\ e.req = tag.req
        /\ e.firstRead = tag.firstRead /\ e.rdone = tag.rdone /\ e.wdone = tag.wdone
    BY <1>0 DEF TagRecord
  <2> HIDE DEF e
  <2>3. Steady(e)
    BY <1>0, <1>3, <1>7, <2>2 DEF Steady, Idle
  <2> QED BY <1>1, <2>1, <2>3 DEF Meant, Means
<1> QED BY <1>4, <1>5, <1>6, <1>7

LEMMA StartReadMeant ==
  ASSUME IInv, Meant, Smooth, NEW c \in Clients, NEW sync \in BOOLEAN, NEW b \in Builds,
         StartRead(c, sync, b)
  PROVE  Meant'
<1> DEFINE u == [tag EXCEPT !.rif = TRUE, !.status = "PENDING"]
           r == ReadStart(u, b)
<1>0. /\ tag \in TagRecord /\ Steady(tag) /\ b = TRUE
      /\ pc \in [Clients -> {"idle", "gone", "create", "create_check", "create_end",
                             "wait", "check", "flag", "abort", "end", "return"}]
      /\ call \in [Clients -> {"none", "read", "write", "abort"}] /\ rc \in [Clients -> Codes]
  BY ModeAssumption DEF IInv, TypeOK, Meant, Smooth
<1>1. \A d \in Clients : d = c
  BY DEF Smooth
<1>2. ~tag.rif /\ ~tag.wif
  BY DEF StartRead
<1>3. Idle(tag) /\ ~tag.rdone /\ ~tag.wdone
  BY <1>0, <1>2 DEF Steady, Idle
<1>4. /\ u \in TagRecord /\ u.rif /\ u.rdone = tag.rdone /\ u.wdone = tag.wdone /\ Idle(u)
      /\ u.preRead = tag.preRead /\ u.firstRead = tag.firstRead /\ u.req = tag.req
  BY <1>0, <1>3 DEF TagRecord, Codes, Idle
<1>5. r.rc = "PENDING" => /\ tag' = r.tag /\ cond' = FALSE /\ call'[c] = "read"
                          /\ \/ pc'[c] = "wait"
                             \/ pc'[c] = "return" /\ rc'[c] = "PENDING"
  BY <1>0 DEF StartRead, Return
<1> HIDE DEF u
<1>6. /\ r.tag.rif = u.rif /\ r.tag.rdone = u.rdone /\ r.tag.wdone = u.wdone
      /\ r.tag.preRead = u.preRead /\ r.tag.wip = u.wip /\ r.tag.firstRead = u.firstRead
      /\ r.tag.req \in {u.req, "sent"}
  BY <1>0, <1>4, ReadStartSame, ZenonT(60)
<1>7. r.rc = "PENDING"
  BY <1>0, <1>4, ReadStartSame
<1> HIDE DEF r
<1>8. Steady(tag') /\ ~tag'.wip /\ ~tag'.rdone /\ ~tag'.wdone
  BY <1>0, <1>3, <1>4, <1>5, <1>6, <1>7, ZenonT(60) DEF Steady, Idle
<1>9. Means(c)'
  BY <1>5, <1>7, <1>8 DEF Means
<1> QED BY <1>1, <1>8, <1>9 DEF Meant

LEMMA StartWriteMeant ==
  ASSUME IInv, Meant, Smooth, NEW c \in Clients, NEW sync \in BOOLEAN, NEW b \in Builds,
         StartWrite(c, sync, b)
  PROVE  Meant'
<1> DEFINE u == [tag EXCEPT !.wif = TRUE, !.status = "OK"]
           r == WriteStart(u, b)
           a == AbortRequest(r.tag)
           v == [a EXCEPT !.wif = FALSE]
<1>0. /\ tag \in TagRecord /\ Steady(tag) /\ b \in BOOLEAN
      /\ pc \in [Clients -> {"idle", "gone", "create", "create_check", "create_end",
                             "wait", "check", "flag", "abort", "end", "return"}]
      /\ call \in [Clients -> {"none", "read", "write", "abort"}] /\ rc \in [Clients -> Codes]
  BY ModeAssumption DEF IInv, TypeOK, Meant
<1>1. \A d \in Clients : d = c
  BY DEF Smooth
<1>2. ~tag.rif /\ ~tag.wif
  BY DEF StartWrite
<1>3. Idle(tag) /\ ~tag.rdone /\ ~tag.wdone
  BY <1>0, <1>2 DEF Steady, Idle
<1>4. /\ u \in TagRecord /\ u.wif /\ u.rdone = tag.rdone /\ u.wdone = tag.wdone /\ Idle(u)
      /\ u.preRead = tag.preRead /\ u.firstRead = tag.firstRead /\ u.req = tag.req
  BY <1>0, <1>3 DEF TagRecord, Codes, Idle
<1>5. /\ cond' = FALSE /\ call'[c] = "write"
      /\ \/ tag' = r.tag /\ pc'[c] = "wait"
         \/ tag' = r.tag /\ pc'[c] = "return" /\ rc'[c] = "PENDING"
         \/ tag' = v /\ pc'[c] = "return" /\ rc'[c] = r.rc
  BY <1>0 DEF StartWrite, Return
<1> HIDE DEF u
<1>6. /\ r.tag \in TagRecord /\ Same(u, r.tag) /\ r.tag.firstRead = u.firstRead
      /\ r.tag.preRead => u.preRead \/ u.firstRead
      /\ IF u.firstRead THEN ~r.tag.wip /\ (r.tag.rip => r.tag.preRead)
                        ELSE ~r.tag.rip /\ r.tag.preRead = u.preRead
  BY <1>0, <1>4, WriteStartSame
<1>7. r.rc # "OK"
  BY <1>0, <1>4, WriteStartSame
<1> HIDE DEF r
<1>8. /\ Steady(r.tag) /\ ~ReadsData(r.tag) /\ ~r.tag.rdone /\ ~r.tag.wdone
  <2>1. /\ r.tag.wif /\ ~r.tag.rdone /\ ~r.tag.wdone
        /\ r.tag.req # "refused"
    BY <1>0, <1>3, <1>4, <1>6 DEF Same, Steady
  <2> QED BY <1>0, <1>4, <1>6, <2>1 DEF Steady, ReadsData
<1>9. Steady(a) /\ Idle(a) /\ ~a.rdone /\ ~a.wdone /\ a \in TagRecord
  BY <1>6, <1>8, AbortSteady, AbortRequestSame
<1> HIDE DEF a
<1>10. /\ v.rip = a.rip /\ v.wip = a.wip /\ v.preRead = a.preRead /\ v.firstRead = a.firstRead
       /\ v.req = a.req /\ v.rdone = a.rdone /\ v.wdone = a.wdone /\ v.rif = a.rif
  BY <1>9 DEF TagRecord
<1> HIDE DEF v
<1>11. Steady(v)
  BY <1>9, <1>10 DEF Steady, Idle
<1>12. Means(c)'
  BY <1>5, <1>7, <1>8 DEF Means
<1>13. Steady(tag')
  BY <1>5, <1>8, <1>11
<1> QED BY <1>1, <1>12, <1>13 DEF Meant

LEMMA WaitMeant ==
  ASSUME IInv, Meant, Smooth, NEW c \in Clients,
         Wake(c) \/ WaitTimeout(c) \/ Abort(c) \/ Leave(c)
  PROVE  Meant'
<1>0. /\ Steady(tag) /\ Means(c)
      /\ pc \in [Clients -> {"idle", "gone", "create", "create_check", "create_end",
                             "wait", "check", "flag", "abort", "end", "return"}]
      /\ call \in [Clients -> {"none", "read", "write", "abort"}] /\ rc \in [Clients -> Codes]
  BY DEF IInv, TypeOK, Meant
<1>1. \A d \in Clients : d = c
  BY DEF Smooth
<1>2. UNCHANGED tag
  BY DEF Wake, WaitTimeout, Abort, Leave
<1>3. Means(c)'
  <2>1. CASE Wake(c)
    <3>1. pc[c] = "wait" /\ cond /\ pc'[c] = "check" /\ UNCHANGED <<tag, call, answered>>
      BY <1>0, <2>1 DEF Wake
    <3> QED BY <1>0, <3>1 DEF Means, Idle
  <2>2. CASE WaitTimeout(c)
    <3>1. pc'[c] = "flag" /\ rc'[c] = "TIMEOUT"
      BY <1>0, <2>2 DEF WaitTimeout
    <3> QED BY <3>1 DEF Means
  <2>3. CASE Abort(c)
    <3>1. pc'[c] = "flag" /\ call'[c] = "abort"
      BY <1>0, <2>3 DEF Abort
    <3> QED BY <3>1 DEF Means
  <2>4. CASE Leave(c)
    <3>1. pc'[c] = "idle"
      BY <1>0, <2>4 DEF Leave
    <3> QED BY <3>1 DEF Means
  <2> QED BY <2>1, <2>2, <2>3, <2>4
<1> QED BY <1>0, <1>1, <1>2, <1>3 DEF Meant

(* The wait loop's own tickle, and plc_tag_status() *)
LEMMA TickledMeant ==
  ASSUME IInv, Meant, Smooth, NEW c \in Clients, NEW b \in Builds, Check(c, b) \/ Status(c, b)
  PROVE  Meant'
<1> DEFINE ticked == TagTickler(tag, b)
           code   == StatusImpl(ticked)
<1>0. /\ Fits(tag) /\ b = TRUE /\ Steady(tag) /\ Means(c)
      /\ pc \in [Clients -> {"idle", "gone", "create", "create_check", "create_end",
                             "wait", "check", "flag", "abort", "end", "return"}]
      /\ call \in [Clients -> {"none", "read", "write", "abort"}] /\ rc \in [Clients -> Codes]
  BY Halves, ModeAssumption DEF Good, IInv, TypeOK, Meant, Smooth
<1>1. \A d \in Clients : d = c
  BY DEF Smooth
<1>2. /\ Steady(ticked) /\ NothingNew(tag, ticked)
  BY <1>0, SmoothTick
<1>3. tag' = ticked /\ answered \subseteq answered'
  BY DEF Check, Status
<1>4. CASE Check(c, b)
  <2>1. /\ pc[c] = "check" /\ UNCHANGED call
        /\ \/ IsError(code) /\ rc'[c] = code /\ pc'[c] = "flag"
           \/ pc'[c] = "wait"
           \/ pc'[c] = "end"
    BY <1>0, <1>4 DEF Check
  <2>2. c \in answered' /\ Idle(tag') /\ call[c] \in {"read", "write"}
    BY <1>0, <1>2, <1>3, <2>1 DEF Means, NothingNew, Idle
  <2> HIDE DEF ticked, code
  <2>3. Means(c)'
    BY <2>1, <2>2 DEF Means, IsError, Idle, ReadsData
  <2> QED BY <1>1, <1>2, <1>3, <2>3 DEF Meant
<1>5. CASE Status(c, b)
  <2>1. pc'[c] = "idle"
    BY <1>5 DEF Status, CanCall
  <2>2. Means(c)'
    BY <2>1 DEF Means
  <2> HIDE DEF ticked
  <2> QED BY <1>1, <1>2, <1>3, <2>2 DEF Meant
<1> QED BY <1>4, <1>5

LEMMA AbortMeant ==
  ASSUME IInv, Meant, Smooth, NEW c \in Clients, AbortFlag(c) \/ AbortRun(c) \/ End(c)
  PROVE  Meant'
<1>0. /\ tag \in TagRecord /\ Steady(tag) /\ Means(c)
      /\ pc \in [Clients -> {"idle", "gone", "create", "create_check", "create_end",
                             "wait", "check", "flag", "abort", "end", "return"}]
  BY DEF IInv, TypeOK, Meant
<1>1. \A d \in Clients : d = c
  BY DEF Smooth
<1>2. CASE AbortFlag(c)
  <2>1. pc[c] = "flag" /\ pc'[c] = "abort" /\ UNCHANGED <<call, rc>>
    BY <1>0, <1>2 DEF AbortFlag
  <2>2. tag' = [tag EXCEPT !.abortReq = TRUE]
    BY <1>2 DEF AbortFlag
  <2>3. /\ tag'.abortReq /\ tag'.rip = tag.rip /\ tag'.wip = tag.wip
        /\ tag'.preRead = tag.preRead /\ tag'.firstRead = tag.firstRead /\ tag'.req = tag.req
        /\ tag'.rif = tag.rif /\ tag'.wif = tag.wif /\ tag'.rdone = tag.rdone
        /\ tag'.wdone = tag.wdone
    BY <1>0, <2>2 DEF TagRecord
  <2>4. Steady(tag')
    BY <1>0, <2>3 DEF Steady, Idle
  <2>5. Means(c)'
    BY <1>0, <2>1, <2>3 DEF Means
  <2> QED BY <1>1, <2>4, <2>5 DEF Meant
<1>3. CASE AbortRun(c)
  <2> DEFINE a == AbortRequest(tag)
             u == IF tag.abortReq THEN a ELSE tag
  <2>1. pc[c] = "abort" /\ pc'[c] = "end" /\ UNCHANGED <<call, rc>> /\ tag' = ClearFlight(u)
    BY <1>0, <1>3 DEF AbortRun
  <2>2. Steady(a) /\ Idle(a) /\ a \in TagRecord
    BY <1>0, AbortSteady, AbortRequestSame
  <2> HIDE DEF a
  <2>3. Steady(u) /\ Idle(u) /\ u \in TagRecord
    BY <1>0, <2>1, <2>2 DEF Means
  <2> HIDE DEF u
  <2>4. /\ tag'.rip = u.rip /\ tag'.wip = u.wip /\ ~tag'.rdone /\ ~tag'.wdone
        /\ tag'.preRead = u.preRead /\ tag'.firstRead = u.firstRead /\ tag'.req = u.req
    BY <2>1, <2>3 DEF TagRecord, ClearFlight
  <2>5. Steady(tag')
    BY <2>3, <2>4 DEF Steady, Idle
  <2>6. Idle(tag')
    BY <2>3, <2>4 DEF Idle
  <2>7. Means(c)'
    BY <1>0, <2>1, <2>6 DEF Means
  <2> QED BY <1>1, <2>5, <2>7 DEF Meant
<1>4. CASE End(c)
  <2> DEFINE r == [tag EXCEPT !.rif = FALSE, !.rdone = FALSE]
             w == [tag EXCEPT !.wif = FALSE, !.wdone = FALSE]
  <2>1. pc[c] = "end" /\ pc'[c] = "return" /\ UNCHANGED <<call, rc, answered>>
    BY <1>0, <1>4 DEF End
  <2>2. tag' \in {r, w, tag}
    BY <1>4 DEF End
  <2>3. Idle(tag)
    BY <1>0, <2>1 DEF Means
  <2>4. /\ r.rip = tag.rip /\ r.wip = tag.wip /\ r.preRead = tag.preRead
        /\ r.firstRead = tag.firstRead /\ r.req = tag.req /\ ~r.rdone
        /\ r.wdone = tag.wdone /\ r.wif = tag.wif
    BY <1>0 DEF TagRecord
  <2>5. /\ w.rip = tag.rip /\ w.wip = tag.wip /\ w.preRead = tag.preRead
        /\ w.firstRead = tag.firstRead /\ w.req = tag.req /\ ~w.wdone
        /\ w.rdone = tag.rdone /\ w.rif = tag.rif
    BY <1>0 DEF TagRecord
  <2> HIDE DEF r, w
  <2>6. Steady(r)
    BY <1>0, <2>3, <2>4 DEF Steady, Idle
  <2>7. Steady(w)
    BY <1>0, <2>3, <2>5 DEF Steady, Idle
  <2>8. Means(c)'
    BY <1>0, <2>1 DEF Means
  <2> QED BY <1>0, <1>1, <2>2, <2>6, <2>7, <2>8 DEF Meant
<1> QED BY <1>2, <1>3, <1>4

LEMMA SetMeant ==
  ASSUME IInv, Meant, Smooth, NEW c \in Clients, Set(c)
  PROVE  Meant'
<1>0. tag \in TagRecord
  BY DEF IInv, TypeOK
<1>1. UNCHANGED <<cond, pc, call, rc, answered>>
  BY DEF Set
<1>2. /\ tag'.abortReq = tag.abortReq /\ tag'.rip = tag.rip /\ tag'.wip = tag.wip
      /\ tag'.preRead = tag.preRead /\ tag'.firstRead = tag.firstRead /\ tag'.req = tag.req
      /\ tag'.rif = tag.rif /\ tag'.wif = tag.wif /\ tag'.rdone = tag.rdone
      /\ tag'.wdone = tag.wdone
  BY <1>0 DEF Set, TagRecord
<1>3. Steady(tag')
  BY <1>2 DEF Meant, Steady, Idle
<1>4. ASSUME NEW d \in Clients PROVE Means(d)'
  BY <1>1, <1>2 DEF Meant, Means, ReadsData, Idle
<1> QED BY <1>3, <1>4 DEF Meant

LEMMA NextMeant ==
  ASSUME IInv, Meant, Smooth, [Next]_vars
  PROVE  Meant'
<1>1. CASE Next
  <2>1. ASSUME NEW c \in Clients, Client(c) PROVE Meant'
    BY <2>1, CreateMeant, StartReadMeant, StartWriteMeant, WaitMeant, TickledMeant, AbortMeant,
       SetMeant DEF Client
  <2> QED BY <1>1, <2>1, TickMeant, RespondMeant DEF Next
<1>2. CASE UNCHANGED vars
  <2>1. UNCHANGED <<tag, cond, pc, call, rc, answered>>
    BY <1>2 DEF vars
  <2>2. ASSUME NEW c \in Clients PROVE Means(c)'
    BY <2>1 DEF Meant, Means
  <2> QED BY <2>1, <2>2 DEF Meant
<1> QED BY <1>1, <1>2

LEMMA CallsMeant == ASSUME Smooth PROVE Spec => []Meant
<1>1. Init => Meant
  BY InitMeant
<1>2. IInv /\ Meant /\ [Next]_vars => Meant'
  BY NextMeant
<1> QED BY <1>1, <1>2, TagInvariant, PTL DEF Spec

(* plc_tag_read() returns PLCTAG_STATUS_OK only after the last fragment of *)
(* a read has arrived during the call, with whatever timeouts, aborts and  *)
(* polling, for every number of fragments, if one thread uses the tag and  *)
(* the PLC refuses nothing (the runs show it false otherwise).             *)
THEOREM ReadsMeanDone == ASSUME Smooth PROVE Spec => []OkMeansRead
<1>1. Meant => OkMeansRead
  BY DEF Meant, Means, OkMeansRead
<1> QED BY <1>1, CallsMeant, PTL

(* plc_tag_write() returns PLCTAG_STATUS_OK only after the PLC has taken   *)
(* the last fragment of a write during the call, under the same conditions. *)
THEOREM WritesMeanDone == ASSUME Smooth PROVE Spec => []OkMeansWritten
<1>1. Meant => OkMeansWritten
  BY DEF Meant, Means, OkMeansWritten
<1> QED BY <1>1, CallsMeant, PTL

=============================================================================
