--------------------------- MODULE TagEventsProofs ---------------------------
(***************************************************************************)
(* Proofs about TagEvents, for any tags, threads, calls and callbacks: who *)
(* owns a mutex, that callbacks which call each other's tags down a        *)
(* hierarchy never wait for each other, that the callback is told of the   *)
(* creation first, and, unless automatic reads meet several calls, of no   *)
(* end before its start.                                                   *)
(***************************************************************************)
EXTENDS TagEvents, WellFoundedInduction, TLAPS

(* Where a thread has the mutex of its tag, and where it has no tag *)
Holding == {"deliver", "peer", "read", "write"}
Telling == {"deliver", "peer"}
Places  == {"idle", "read", "write", "events", "end", "destroy"}

Types ==
  /\ owner \in [Tags -> Threads \cup {None}]
  /\ on \in [Threads -> Tags \cup {None}]
  /\ DOMAIN pc = Threads
  /\ pass \in [Threads -> [tell : SUBSET Range(Events), then : Places]]

(* A thread that is in the library is at a tag. *)
AtTag == \A c \in Threads : on[c] = None <=> pc[c] = "idle"

(* A mutex has at most one owner, which is where it needs it, at its tag. *)
OwnerHolds == \A t \in Tags : owner[t] # None => on[owner[t]] = t /\ pc[owner[t]] \in Holding
HolderOwns == \A c \in Threads : pc[c] \in Holding => owner[on[c]] = c

(* Only a callback with a peer calls it. *)
PeerThere == \A c \in Threads : pc[c] = "peer" => Peer[on[c]] # None

MutexInv == Types /\ AtTag /\ OwnerHolds /\ HolderOwns /\ PeerThere

(* The types of what the events of a tag need *)
TagRecord == [callback : BOOLEAN, raised : SUBSET Range(Events), had : BOOLEAN,
              enabled : SUBSET Range(Ends), abortReq : BOOLEAN, rif : BOOLEAN,
              wif : BOOLEAN, rdone : BOOLEAN, wdone : BOOLEAN,
              op : {"none", "read", "write"}, reply : {"none", "good", "bad"},
              failed : BOOLEAN, gone : BOOLEAN]

TagTypes == tag \in [Tags -> TagRecord]

GhostTypes ==
  /\ balance \in [Tags -> [Range(Ends) -> Int]]
  /\ seen \in [Tags -> SUBSET Range(Events)]

(* What follows the creation *)
Later == Range(Ends) \cup {"ABORTED"}

(* The raised events of t that the callback is yet to be told of *)
Pending(t) ==
  IF owner[t] # None /\ pc[owner[t]] = "peer"
    THEN tag[t].raised \ {FirstOf(pass[owner[t]].tell)} ELSE tag[t].raised

(* No more than one operation of the application besides the automatic reads *)
Single == AutoRead => MaxCalls <= 1

(* The tickler is about to handle the events of t. *)
AtTickler(t) == pc[TicklerThread] = "events" /\ on[TicklerThread] = t

(* A start that nobody tells of was raised by the tickler, which comes to  *)
(* it, or else there is no callback any more.                              *)
Unheard(t) ==
  /\ AutoRead /\ (~tag[t].callback \/ AtTickler(t))
  /\ owner[t] # None /\ pc[owner[t]] \in Telling => pass[owner[t]].tell = {}

(* Other starts are told of by a thread that has the mutex.                *)
StartsTold ==
  \A t \in Tags : \A e \in Starts : e \in tag[t].raised =>
    \/ owner[t] # None /\ pc[owner[t]] \in Telling /\ e \in pass[owner[t]].tell
    \/ Unheard(t)

(* What is to be told is raised, and the creation goes before what follows *)
(* it.                                                                     *)
TellRaised ==
  \A c \in Threads : pc[c] \in Telling =>
    /\ pass[c].tell \subseteq tag[on[c]].raised
    /\ pass[c].tell \cap Later # {} => "CREATED" \in pass[c].tell \cup seen[on[c]]
    /\ pc[c] = "peer" => pass[c].tell # {} /\ FirstOf(pass[c].tell) \in seen[on[c]]

CreationFirst ==
  \A t \in Tags :
    /\ tag[t].raised \cap Later # {} => tag[t].had
    /\ tag[t].had => "CREATED" \in tag[t].raised \cup seen[t]
    /\ seen[t] \cap Later # {} => "CREATED" \in seen[t]

CreationInv == GhostTypes /\ TellRaised /\ CreationFirst

(* The starts that the callback was or will be told of, without the ends   *)
(* that it was or will be told of, make up for the end that may be raised. *)
One(b) == IF b THEN 1 ELSE 0
Weight(t, e) == balance[t][Ends[e]] + One(e \in Pending(t)) - One(Ends[e] \in Pending(t))
Balanced ==
  \A t \in Tags : \A e \in Starts :
    /\ balance[t][Ends[e]] >= 0
    /\ Weight(t, e) >= One(Ends[e] \in tag[t].enabled)

ToldInv == StartsTold /\ Balanced

(* With automatic reads the application may raise the start of a read that *)
(* is raised already, so that the two are told as one.  There is enough    *)
(* weight for that until its first call: only then has the first read of   *)
(* the tag, whose start is not told, not ended.                            *)
Unread(u) == u.op = "read" /\ "READ_COMPLETED" \notin u.enabled

Calm(u) ==
  /\ u.callback /\ ~u.abortReq /\ ~u.wif /\ ~u.rdone /\ ~u.wdone
  /\ u.op # "write" /\ "WRITE_STARTED" \notin u.raised
  /\ Unread(u) => u.rif

Uncalled ==
  /\ cond \in [Tags -> BOOLEAN]
  /\ \A c \in Threads : /\ pc[c] \in {"idle", "create", "tick", "events", "deliver", "peer"}
                        /\ pass[c].then = "idle"
  /\ \A t \in Tags : /\ Calm(tag[t]) /\ (Unread(tag[t]) => ~cond[t])
                     /\ "READ_STARTED" \in tag[t].raised => Weight(t, "READ_STARTED") >= 1

CallInv == calls \in Nat /\ (calls = 0 => Uncalled)

BaseInv == MutexInv /\ TagTypes /\ CreationInv /\ (Single => ToldInv)

IInv == BaseInv /\ (AutoRead /\ Single => CallInv)

-----------------------------------------------------------------------------
(* The events *)

LEMMA EventNames ==
  /\ Starts = {"READ_STARTED", "WRITE_STARTED"}
  /\ Ends["READ_STARTED"] = "READ_COMPLETED" /\ Ends["WRITE_STARTED"] = "WRITE_COMPLETED"
  /\ Range(Ends) = {"READ_COMPLETED", "WRITE_COMPLETED"}
  /\ DOMAIN Events = 1..7
  /\ Range(Events) = {"CREATED", "ABORTED", "DESTROYED"} \cup Starts \cup Range(Ends)
<1>1. /\ DOMAIN Ends = {"READ_STARTED", "WRITE_STARTED"}
      /\ Ends["READ_STARTED"] = "READ_COMPLETED" /\ Ends["WRITE_STARTED"] = "WRITE_COMPLETED"
  BY DEF Ends
<1>2. Range(Ends) = {"READ_COMPLETED", "WRITE_COMPLETED"}
  BY <1>1 DEF Range
<1>3. /\ DOMAIN Events = 1..7
      /\ Events[1] = "CREATED" /\ Events[2] = "READ_STARTED" /\ Events[3] = "WRITE_STARTED"
      /\ Events[4] = "ABORTED" /\ Events[5] = "READ_COMPLETED"
      /\ Events[6] = "WRITE_COMPLETED" /\ Events[7] = "DESTROYED"
  BY DEF Events
<1>4. Range(Events) = {Events[i] : i \in 1..7}
  BY <1>3 DEF Range
<1>5. 1..7 = {1, 2, 3, 4, 5, 6, 7}
  OBVIOUS
<1>6. Range(Events) = {"CREATED", "READ_STARTED", "WRITE_STARTED", "ABORTED",
                       "READ_COMPLETED", "WRITE_COMPLETED", "DESTROYED"}
  BY <1>3, <1>4, <1>5
<1> QED BY <1>1, <1>2, <1>3, <1>6 DEF Starts

(* The first event to be told of: the creation goes before everything, a   *)
(* start before its end.                                                   *)
LEMMA FirstOfFacts ==
  ASSUME NEW tell \in SUBSET Range(Events), tell # {}
  PROVE  /\ FirstOf(tell) \in tell
         /\ "CREATED" \in tell => FirstOf(tell) = "CREATED"
         /\ \A e \in Starts : e \in tell => FirstOf(tell) # Ends[e]
<1> DEFINE First(i) == Events[i] \in tell /\ \A j \in 1..(i - 1) : Events[j] \notin tell
           i0 == CHOOSE i \in 1..7 : First(i)
<1>1. /\ Events[1] = "CREATED" /\ Events[2] = "READ_STARTED" /\ Events[3] = "WRITE_STARTED"
      /\ Events[4] = "ABORTED" /\ Events[5] = "READ_COMPLETED"
      /\ Events[6] = "WRITE_COMPLETED" /\ Events[7] = "DESTROYED"
  BY DEF Events
<1>2. \E i \in 1..7 : Events[i] \in tell
  BY EventNames DEF Range
<1>3. \E i \in 1..7 : First(i)
  <2> DEFINE T == {i \in 1..7 : Events[i] \in tell}
  <2>1. T # {} /\ T \subseteq Nat
    BY <1>2
  <2>2. PICK i \in T : \A j \in T : ~ (<<j, i>> \in OpToRel(<, Nat))
    BY <2>1, NatLessThanWellFounded, WFMin, ZenonT(60)
  <2>3. \A j \in T : ~ (j < i)
    BY <2>1, <2>2 DEF OpToRel
  <2>4. i \in 1..7 /\ Events[i] \in tell
    OBVIOUS
  <2>5. \A j \in 1..(i - 1) : j \in 1..7 /\ j < i
    BY <2>4
  <2> QED BY <2>3, <2>4, <2>5
<1>4. FirstOf(tell) = Events[i0]
  BY EventNames DEF FirstOf
<1>5. i0 \in 1..7 /\ First(i0)
  BY <1>3
<1> HIDE DEF i0
<1>6. "CREATED" \in tell => i0 = 1
  BY <1>1, <1>5
<1>7. "READ_STARTED" \in tell => i0 \in 1..2
  BY <1>1, <1>5
<1>8. "WRITE_STARTED" \in tell => i0 \in 1..3
  BY <1>1, <1>5
<1>9. 1..3 = {1, 2, 3} /\ 1..2 = {1, 2}
  OBVIOUS
<1> QED BY <1>1, <1>4, <1>5, <1>6, <1>7, <1>8, <1>9, EventNames

-----------------------------------------------------------------------------
(* The mutexes *)

LEMMA ThreadFacts ==
  ASSUME EventAssumption
  PROVE  /\ None \notin Tags /\ None \notin Threads
         /\ TicklerThread \in Threads /\ Clients \subseteq Threads
  BY DEF EventAssumption, Threads

Pass == [tell : SUBSET Range(Events), then : Places]

(* A thread without a mutex moves on. *)
LEMMA MoveKeeps ==
  ASSUME EventAssumption, MutexInv, NEW c \in Threads, pc[c] \notin Holding,
         NEW place, place \notin Holding, NEW x \in Tags \cup {None}, x = None <=> place = "idle",
         NEW p \in Pass, owner' = owner,
         pc' = [pc EXCEPT ![c] = place], on' = [on EXCEPT ![c] = x], pass' = [pass EXCEPT ![c] = p]
  PROVE  MutexInv'
<1>1. Types'
  BY DEF MutexInv, Types, Pass
<1>2. AtTag'
  BY DEF MutexInv, Types, AtTag
<1>3. OwnerHolds'
  BY DEF MutexInv, Types, OwnerHolds
<1>4. HolderOwns'
  BY DEF MutexInv, Types, HolderOwns
<1>5. PeerThere'
  BY DEF MutexInv, Types, PeerThere, Holding
<1> QED BY <1>1, <1>2, <1>3, <1>4, <1>5 DEF MutexInv

(* A thread takes the mutex of its tag to tell of events. *)
LEMMA TakeKeeps ==
  ASSUME EventAssumption, MutexInv, NEW c \in Threads, pc[c] \notin Holding,
         NEW t \in Tags, Free(c, t), NEW p \in Pass,
         owner' = [owner EXCEPT ![t] = c], pc' = [pc EXCEPT ![c] = "deliver"],
         on' = [on EXCEPT ![c] = t], pass' = [pass EXCEPT ![c] = p]
  PROVE  MutexInv' /\ owner[t] = None
<1>0. owner[t] = None
  BY DEF Free, MutexInv, OwnerHolds
<1>1. Types'
  BY DEF MutexInv, Types, Pass
<1>2. AtTag'
  BY ThreadFacts DEF MutexInv, Types, AtTag
<1>3. OwnerHolds'
  BY <1>0 DEF MutexInv, Types, OwnerHolds, Holding
<1>4. HolderOwns'
  BY <1>0, ThreadFacts DEF MutexInv, Types, HolderOwns, Holding
<1>5. PeerThere'
  BY DEF MutexInv, Types, PeerThere, Holding
<1> QED BY <1>0, <1>1, <1>2, <1>3, <1>4, <1>5 DEF MutexInv

(* A thread that has the mutex goes on with it. *)
LEMMA HoldKeeps ==
  ASSUME EventAssumption, MutexInv, NEW c \in Threads, pc[c] \in Holding,
         NEW place \in Holding, place = "peer" => Peer[on[c]] # None, NEW p \in Pass,
         pc' = [pc EXCEPT ![c] = place] \/ (UNCHANGED pc /\ place = pc[c]),
         pass' = [pass EXCEPT ![c] = p], UNCHANGED <<owner, on>>
  PROVE  MutexInv'
<1>0. pc'[c] = place /\ DOMAIN pc' = Threads /\ \A d \in Threads \ {c} : pc'[d] = pc[d]
  BY DEF MutexInv, Types
<1>1. Types'
  BY <1>0 DEF MutexInv, Types, Pass
<1>2. AtTag'
  BY <1>0 DEF MutexInv, Types, AtTag, Holding
<1>3. OwnerHolds'
  BY <1>0 DEF MutexInv, Types, OwnerHolds
<1>4. HolderOwns'
  BY <1>0 DEF MutexInv, Types, HolderOwns
<1>5. PeerThere'
  BY <1>0 DEF MutexInv, Types, PeerThere
<1> QED BY <1>1, <1>2, <1>3, <1>4, <1>5 DEF MutexInv

(* A thread gives the mutex back. *)
LEMMA GiveKeeps ==
  ASSUME EventAssumption, MutexInv, NEW c \in Threads, pc[c] \in Holding,
         NEW place, place \notin Holding, NEW x \in {on[c], None}, x = None <=> place = "idle",
         NEW p \in Pass, owner' = [owner EXCEPT ![on[c]] = None],
         pc' = [pc EXCEPT ![c] = place], on' = [on EXCEPT ![c] = x], pass' = [pass EXCEPT ![c] = p]
  PROVE  MutexInv'
<1>0. on[c] \in Tags /\ owner[on[c]] = c
  BY DEF MutexInv, Types, AtTag, HolderOwns, Holding
<1>1. Types'
  BY DEF MutexInv, Types, Pass
<1>2. AtTag'
  BY DEF MutexInv, Types, AtTag
<1>3. OwnerHolds'
  <2> SUFFICES ASSUME NEW t \in Tags, owner'[t] # None
               PROVE  on'[owner'[t]] = t /\ pc'[owner'[t]] \in Holding
    BY DEF OwnerHolds
  <2>1. t # on[c] /\ owner'[t] = owner[t]
    BY <1>0 DEF MutexInv, Types
  <2>2. on[owner[t]] = t /\ pc[owner[t]] \in Holding /\ owner[t] # c /\ owner[t] \in Threads
    BY <2>1 DEF MutexInv, Types, OwnerHolds
  <2> QED BY <2>1, <2>2 DEF MutexInv, Types
<1>4. HolderOwns'
  BY <1>0, ThreadFacts DEF MutexInv, Types, HolderOwns
<1>5. PeerThere'
  BY DEF MutexInv, Types, PeerThere, Holding
<1> QED BY <1>1, <1>2, <1>3, <1>4, <1>5 DEF MutexInv

(* A step that moves no thread. *)
LEMMA StayKeeps ==
  ASSUME MutexInv, UNCHANGED <<owner, pc, on, pass>>
  PROVE  MutexInv'
  BY DEF MutexInv, Types, AtTag, OwnerHolds, HolderOwns, PeerThere

-----------------------------------------------------------------------------
(* The tags *)

LEMMA RaiseType ==
  ASSUME NEW t \in TagRecord, NEW e \in Range(Events)
  PROVE  Raise(t, e) \in TagRecord
<1> DEFINE created == IF e \in Starts \cup {"DESTROYED"} \/ t.had THEN {} ELSE {"CREATED"}
           event   == CASE e = "CREATED"    -> {}
                        [] e \in Range(Ends) -> {e} \cap t.enabled
                        [] OTHER            -> {e}
           raised  == t.raised \cup created \cup event
           had     == t.had \/ created # {}
           enabled == IF e \in Starts THEN t.enabled \cup {Ends[e]} ELSE t.enabled \ {e}
<1>1. created \subseteq Range(Events) /\ event \subseteq Range(Events)
  BY EventNames
<1>2. raised \subseteq Range(Events) /\ had \in BOOLEAN /\ enabled \subseteq Range(Ends)
  BY <1>1, EventNames DEF TagRecord
<1>3. Raise(t, e) = IF ~t.callback THEN t ELSE [t EXCEPT !.raised = raised, !.had = had,
                                                         !.enabled = enabled]
  BY DEF Raise, TagRecord
<1> HIDE DEF created, event, raised, had, enabled
<1> QED BY <1>2, <1>3, ZenonT(60) DEF TagRecord

LEMMA ClearType ==
  ASSUME NEW t \in TagRecord, NEW S
  PROVE  [t EXCEPT !.raised = @ \ S] \in TagRecord
  BY DEF TagRecord

(* What may be raised: what follows the creation only with the creation *)
Rises(u, r) ==
  /\ r \in TagRecord /\ u.raised \subseteq r.raised
  /\ u.had => r.had
  /\ r.had => u.had \/ "CREATED" \in r.raised
  /\ r.raised \cap Later # {} => r.had \/ u.raised \cap Later # {}

(* With automatic reads no callback is registered. *)
Hears(u, r) == AutoRead /\ r.callback => u.callback

(* What may be raised, and enabled, without the mutex being taken: no      *)
(* start, and an end only if it was enabled.                               *)
Grows(u, r) ==
  /\ Rises(u, r) /\ Hears(u, r) /\ r.raised \cap Starts = u.raised \cap Starts
  /\ \A e \in Range(Ends) :
       /\ e \in r.raised /\ e \in r.enabled => e \in u.raised /\ e \in u.enabled
       /\ e \in r.raised \/ e \in r.enabled => e \in u.raised \/ e \in u.enabled

(* r differs from u in nothing that matters to the events. *)
Same(u, r) ==
  /\ r \in TagRecord /\ Hears(u, r)
  /\ r.raised = u.raised /\ r.had = u.had /\ r.enabled = u.enabled

LEMMA RisesOn ==
  ASSUME NEW u \in TagRecord, NEW r, NEW s, Rises(u, r), Rises(r, s)
  PROVE  Rises(u, s)
  BY DEF Rises

LEMMA SameGrows ==
  ASSUME NEW u \in TagRecord, NEW r, Same(u, r)
  PROVE  Grows(u, r)
  BY DEF Same, Hears, Grows, Rises

LEMMA GrowsOn ==
  ASSUME NEW u \in TagRecord, NEW r, NEW s, Grows(u, r), Grows(r, s)
  PROVE  Grows(u, s)
  BY DEF Grows, Rises, Hears

LEMMA RaiseGrows ==
  ASSUME NEW t \in TagRecord, NEW e \in Range(Events) \ Starts
  PROVE  Grows(t, Raise(t, e))
<1> DEFINE created == IF e = "DESTROYED" \/ t.had THEN {} ELSE {"CREATED"}
           event   == CASE e = "CREATED"    -> {}
                        [] e \in Range(Ends) -> {e} \cap t.enabled
                        [] OTHER            -> {e}
           r       == Raise(t, e)
<1>1. r \in TagRecord
  BY RaiseType
<1>2. CASE ~t.callback
  <2>1. r = t
    BY <1>2 DEF Raise
  <2> QED BY <2>1, SameGrows DEF Same, Hears
<1>3. CASE t.callback
  <2>1. /\ r.raised = t.raised \cup created \cup event
        /\ r.had = (t.had \/ created # {})
        /\ r.enabled = t.enabled \ {e}
    BY <1>3 DEF Raise, TagRecord
  <2>2. /\ created \in SUBSET {"CREATED"}
        /\ event \subseteq {e} /\ (e \in Range(Ends) => event \subseteq t.enabled)
        /\ e # "DESTROYED" => t.had \/ "CREATED" \in created
        /\ created # {} => "CREATED" \in created
    OBVIOUS
  <2> HIDE DEF created, event, r
  <2>3. /\ "CREATED" \notin Starts \cup Later /\ "DESTROYED" \notin Starts \cup Later
        /\ Starts \cap Later = {} /\ Range(Ends) \subseteq Later
    BY EventNames DEF Later
  <2>4. r.had \in BOOLEAN /\ t.had \in BOOLEAN
    BY <1>1 DEF TagRecord
  <2>5. r.raised \cap Starts = t.raised \cap Starts /\ t.raised \subseteq r.raised
    BY <2>1, <2>2, <2>3, ZenonT(60)
  <2>6. /\ t.had => r.had
        /\ r.had => t.had \/ "CREATED" \in r.raised
    BY <2>1, <2>2
  <2>7. r.raised \cap Later # {} => r.had \/ t.raised \cap Later # {}
    BY <2>1, <2>2, <2>3, ZenonT(60)
  <2>8. ASSUME NEW x \in Range(Ends)
        PROVE  /\ x \in r.raised /\ x \in r.enabled => x \in t.raised /\ x \in t.enabled
               /\ x \in r.raised \/ x \in r.enabled => x \in t.raised \/ x \in t.enabled
    BY <2>1, <2>2, <2>3
  <2> QED BY <1>1, <1>3, <2>5, <2>6, <2>7, <2>8 DEF Grows, Rises, Hears, r
<1> QED BY <1>2, <1>3 DEF TagRecord

LEMMA SameRecords ==
  ASSUME NEW t \in TagRecord
  PROVE  /\ Same(t, Idle(t)) /\ Same(t, ClearFlight(t))
         /\ Same(t, Begin(t, "read")) /\ Same(t, Begin(t, "write"))
         /\ \A b \in BOOLEAN : /\ Same(t, [t EXCEPT !.rif = b])
                               /\ Same(t, [t EXCEPT !.wif = b])
                               /\ Same(t, [t EXCEPT !.rif = b, !.wif = b])
                               /\ Same(t, [t EXCEPT !.rif = b, !.rdone = b])
                               /\ Same(t, [t EXCEPT !.wif = b, !.wdone = b])
                               /\ Same(t, [t EXCEPT !.rdone = b, !.rif = b])
                               /\ Same(t, [t EXCEPT !.wdone = b, !.wif = b])
                               /\ Same(t, [t EXCEPT !.abortReq = b])
                               /\ Same(t, [t EXCEPT !.gone = b])
                               /\ ~AutoRead \/ ~b => Same(t, [t EXCEPT !.callback = b])
                               /\ Rises(t, [t EXCEPT !.callback = b])
         /\ \A r \in {"good", "bad"} : Same(t, [t EXCEPT !.reply = r])
<1>1. Idle(t) \in TagRecord /\ ClearFlight(t) \in TagRecord
  BY DEF Idle, ClearFlight, TagRecord
<1>2. Same(t, Idle(t)) /\ Same(t, ClearFlight(t))
  BY <1>1 DEF Same, Hears, Idle, ClearFlight, TagRecord
<1>3. Begin(t, "read") \in TagRecord /\ Begin(t, "write") \in TagRecord
  BY DEF Begin, TagRecord
<1>4. Same(t, Begin(t, "read")) /\ Same(t, Begin(t, "write"))
  BY <1>3 DEF Same, Hears, Begin, TagRecord
<1>5. ASSUME NEW r \in {"good", "bad"} PROVE Same(t, [t EXCEPT !.reply = r])
  <2>1. [t EXCEPT !.reply = r] \in TagRecord
    BY DEF TagRecord
  <2> QED BY <2>1 DEF Same, Hears, TagRecord
<1>6. ASSUME NEW b \in BOOLEAN PROVE Same(t, [t EXCEPT !.rif = b])
  <2>1. [t EXCEPT !.rif = b] \in TagRecord
    BY DEF TagRecord
  <2> QED BY <2>1 DEF Same, Hears, TagRecord
<1>7. ASSUME NEW b \in BOOLEAN PROVE Same(t, [t EXCEPT !.wif = b])
  <2>1. [t EXCEPT !.wif = b] \in TagRecord
    BY DEF TagRecord
  <2> QED BY <2>1 DEF Same, Hears, TagRecord
<1>8. ASSUME NEW b \in BOOLEAN PROVE Same(t, [t EXCEPT !.rif = b, !.wif = b])
  <2>1. [t EXCEPT !.rif = b, !.wif = b] \in TagRecord
    BY DEF TagRecord
  <2> QED BY <2>1 DEF Same, Hears, TagRecord
<1>9. ASSUME NEW b \in BOOLEAN PROVE Same(t, [t EXCEPT !.rif = b, !.rdone = b])
  <2>1. [t EXCEPT !.rif = b, !.rdone = b] \in TagRecord
    BY DEF TagRecord
  <2> QED BY <2>1 DEF Same, Hears, TagRecord
<1>10. ASSUME NEW b \in BOOLEAN PROVE Same(t, [t EXCEPT !.wif = b, !.wdone = b])
  <2>1. [t EXCEPT !.wif = b, !.wdone = b] \in TagRecord
    BY DEF TagRecord
  <2> QED BY <2>1 DEF Same, Hears, TagRecord
<1>11. ASSUME NEW b \in BOOLEAN PROVE Same(t, [t EXCEPT !.rdone = b, !.rif = b])
  <2>1. [t EXCEPT !.rdone = b, !.rif = b] \in TagRecord
    BY DEF TagRecord
  <2> QED BY <2>1 DEF Same, Hears, TagRecord
<1>12. ASSUME NEW b \in BOOLEAN PROVE Same(t, [t EXCEPT !.wdone = b, !.wif = b])
  <2>1. [t EXCEPT !.wdone = b, !.wif = b] \in TagRecord
    BY DEF TagRecord
  <2> QED BY <2>1 DEF Same, Hears, TagRecord
<1>13. ASSUME NEW b \in BOOLEAN PROVE Same(t, [t EXCEPT !.abortReq = b])
  <2>1. [t EXCEPT !.abortReq = b] \in TagRecord
    BY DEF TagRecord
  <2> QED BY <2>1 DEF Same, Hears, TagRecord
<1>14. ASSUME NEW b \in BOOLEAN PROVE Same(t, [t EXCEPT !.gone = b])
  <2>1. [t EXCEPT !.gone = b] \in TagRecord
    BY DEF TagRecord
  <2> QED BY <2>1 DEF Same, Hears, TagRecord
<1>15. ASSUME NEW b \in BOOLEAN
       PROVE  /\ ~AutoRead \/ ~b => Same(t, [t EXCEPT !.callback = b])
              /\ Rises(t, [t EXCEPT !.callback = b])
  <2>1. [t EXCEPT !.callback = b] \in TagRecord
    BY DEF TagRecord
  <2> QED BY <2>1 DEF Same, Hears, Rises, TagRecord
<1> QED BY <1>2, <1>4, <1>5, <1>6, <1>7, <1>8, <1>9, <1>10, <1>11, <1>12, <1>13, <1>14, <1>15, Zenon

LEMMA EndedSame ==
  ASSUME NEW t \in TagRecord, NEW a \in BOOLEAN, NEW b \in BOOLEAN, NEW c \in BOOLEAN
  PROVE  Same(t, [t EXCEPT !.failed = a, !.rdone = b, !.wdone = c])
<1>1. [t EXCEPT !.failed = a, !.rdone = b, !.wdone = c] \in TagRecord
  BY Zenon DEF TagRecord
<1> QED BY <1>1 DEF Same, Hears, TagRecord

(* The protocol's tickler only raises ends. *)
LEMMA TickleGrows ==
  ASSUME NEW t \in TagRecord
  PROVE  Grows(t, Tickle(t))
<1> DEFINE ended == [Idle(t) EXCEPT !.failed = t.reply = "bad",
                                    !.rdone = @ \/ t.op = "read", !.wdone = @ \/ t.op = "write"]
<1>1. CASE t.reply = "none"
  BY <1>1, SameGrows DEF Tickle, Same, Hears
<1>2. CASE t.reply # "none"
  <2>7. PICK u \in TagRecord : u = Idle(t) /\ Same(t, u)
    BY SameRecords, Zenon DEF Same, Hears
  <2>8. PICK a \in BOOLEAN, b \in BOOLEAN, c \in BOOLEAN :
          /\ a = (t.reply = "bad")
          /\ b = (u.rdone \/ t.op = "read") /\ c = (u.wdone \/ t.op = "write")
    BY DEF TagRecord
  <2>9. ended = [u EXCEPT !.failed = a, !.rdone = b, !.wdone = c]
    BY <2>7, <2>8
  <2>10. Same(u, [u EXCEPT !.failed = a, !.rdone = b, !.wdone = c])
    BY EndedSame, Zenon
  <2> HIDE DEF ended
  <2>1. Same(t, ended)
    BY <2>7, <2>9, <2>10 DEF Same, Hears
  <2>2. ended \in TagRecord
    BY <2>1 DEF Same, Hears
  <2>3. "CREATED" \in Range(Events) \ Starts
    BY EventNames
  <2>4. Grows(t, ended) /\ Grows(ended, Raise(ended, "CREATED"))
    BY <2>1, <2>2, <2>3, SameGrows, RaiseGrows
  <2>5. Tickle(t) = IF t.op = "read" THEN Raise(ended, "CREATED") ELSE ended
    BY <1>2 DEF Tickle, ended
  <2>6. Grows(t, Raise(ended, "CREATED"))
    BY <2>2, <2>4, GrowsOn
  <2> QED BY <2>4, <2>5, <2>6
<1> QED BY <1>1, <1>2

-----------------------------------------------------------------------------
(* What is told *)

(* A start is raised, and its end enabled. *)
Starting(u, r) ==
  /\ r \in TagRecord /\ r.callback /\ Hears(u, r) /\ r.had = u.had
  /\ \E e \in Starts : r.raised = u.raised \cup {e} /\ r.enabled = u.enabled \cup {Ends[e]}

LEMMA StartRaised ==
  ASSUME NEW t \in TagRecord, NEW e \in Starts
  PROVE  Same(t, Raise(t, e)) \/ Starting(t, Raise(t, e))
<1>1. Raise(t, e) \in TagRecord /\ e # "CREATED" /\ e \notin Range(Ends)
  BY RaiseType, EventNames
<1>2. CASE ~t.callback
  BY <1>2 DEF Raise, Same, Hears
<1>3. CASE t.callback
  <2>1. /\ Raise(t, e).raised = t.raised \cup {} \cup {e}
        /\ Raise(t, e).had = (t.had \/ {} # {})
        /\ Raise(t, e).enabled = t.enabled \cup {Ends[e]} /\ Raise(t, e).callback = t.callback
    BY <1>1, <1>3, ZenonT(60) DEF Raise, TagRecord
  <2> QED BY <1>1, <1>3, <2>1 DEF Starting, Hears, TagRecord
<1> QED BY <1>2, <1>3 DEF TagRecord

LEMMA StartingRises ==
  ASSUME NEW t \in TagRecord, NEW r, Starting(t, r)
  PROVE  Rises(t, r)
<1>1. Starts \cap Later = {}
  BY EventNames DEF Later
<1> QED BY <1>1 DEF Starting, Rises

(* The tickler raises the start of an automatic read, and then what an     *)
(* answer may end.                                                         *)
Ticks(u, r) == AutoRead /\ \E g \in TagRecord : Starting(u, g) /\ Grows(g, r)

(* No thread that has a mutex is disturbed. *)
Quiet ==
  /\ owner' = owner
  /\ \A d \in Threads :
       /\ pc'[d] \in Holding <=> pc[d] \in Holding
       /\ pc[d] \in Holding => pc'[d] = pc[d] /\ pass'[d] = pass[d] /\ on'[d] = on[d]

(* The tickler stays where it handles events. *)
TicklerStays == \A t \in Tags : AtTickler(t) => AtTickler(t)'

(* What may be raised although another thread has the mutex: the creation  *)
Aside(u, r) ==
  Grows(u, r) /\ r.raised \subseteq u.raised \cup {"CREATED"} /\ r.enabled = u.enabled

LEMMA SameAside ==
  ASSUME NEW u \in TagRecord, NEW r, Same(u, r)
  PROVE  Aside(u, r) /\ Rises(u, r)
  BY SameGrows DEF Aside, Same, Hears, Grows

(* What is pending, as the owner's place says *)
LEMMA PendingFacts ==
  ASSUME NEW t \in Tags
  PROVE  /\ owner[t] = None => Pending(t) = tag[t].raised
         /\ owner[t] # None /\ pc[owner[t]] # "peer" => Pending(t) = tag[t].raised
         /\ owner[t] # None /\ pc[owner[t]] = "peer" =>
              Pending(t) = tag[t].raised \ {FirstOf(pass[owner[t]].tell)}
  BY DEF Pending

LEMMA QuietCreation ==
  ASSUME EventAssumption, MutexInv, TagTypes, CreationInv, Quiet,
         NEW t \in Tags, NEW r, tag' = [tag EXCEPT ![t] = r], Rises(tag[t], r),
         UNCHANGED <<balance, seen>>
  PROVE  CreationInv'
<1>1. /\ tag[t] \in TagRecord /\ Rises(tag[t], r)
      /\ \A s \in Tags : tag'[s] = IF s = t THEN r ELSE tag[s]
  BY DEF TagTypes
<1>2. GhostTypes'
  BY DEF CreationInv, GhostTypes
<1>3. TellRaised'
  <2> SUFFICES ASSUME NEW c \in Threads, pc'[c] \in Telling
               PROVE  /\ pass'[c].tell \subseteq tag'[on'[c]].raised
                      /\ pass'[c].tell \cap Later # {} =>
                           "CREATED" \in pass'[c].tell \cup seen[on'[c]]
                      /\ pc'[c] = "peer" =>
                           pass'[c].tell # {} /\ FirstOf(pass'[c].tell) \in seen[on'[c]]
    BY DEF TellRaised
  <2>1. pc'[c] = pc[c] /\ pass'[c] = pass[c] /\ on'[c] = on[c] /\ pc[c] \in Telling
    BY DEF Quiet, Telling, Holding
  <2>2. on[c] \in Tags
    BY <2>1 DEF MutexInv, Types, AtTag, Telling
  <2>3. tag[on[c]].raised \subseteq tag'[on[c]].raised
    BY <1>1, <2>2 DEF Rises
  <2>4. /\ pass[c].tell \subseteq tag[on[c]].raised
        /\ pass[c].tell \cap Later # {} => "CREATED" \in pass[c].tell \cup seen[on[c]]
        /\ pc[c] = "peer" => pass[c].tell # {} /\ FirstOf(pass[c].tell) \in seen[on[c]]
    BY <2>1 DEF CreationInv, TellRaised
  <2> QED BY <2>1, <2>3, <2>4
<1>4. CreationFirst'
  <2> SUFFICES ASSUME NEW s \in Tags
               PROVE  /\ tag'[s].raised \cap Later # {} => tag'[s].had
                      /\ tag'[s].had => "CREATED" \in tag'[s].raised \cup seen[s]
                      /\ seen[s] \cap Later # {} => "CREATED" \in seen[s]
    BY DEF CreationFirst
  <2>1. /\ tag[s].raised \cap Later # {} => tag[s].had
        /\ tag[s].had => "CREATED" \in tag[s].raised \cup seen[s]
        /\ seen[s] \cap Later # {} => "CREATED" \in seen[s]
    BY DEF CreationInv, CreationFirst
  <2> QED BY <1>1, <2>1 DEF Rises
<1> QED BY <1>2, <1>3, <1>4 DEF CreationInv

LEMMA QuietWeight ==
  ASSUME EventAssumption, MutexInv, TagTypes, MutexInv', Quiet,
         NEW t \in Tags, NEW r, tag' = [tag EXCEPT ![t] = r], UNCHANGED <<balance, seen>>,
         NEW s \in Tags, s # t \/ Aside(tag[t], r), NEW e \in Starts
  PROVE  Weight(s, e)' = Weight(s, e) /\ (Ends[e] \in tag'[s].enabled <=> Ends[e] \in tag[s].enabled)
<1>1. \A u \in Tags : tag'[u] = IF u = t THEN r ELSE tag[u]
  BY DEF TagTypes
<1>2. /\ Starts \cap {"CREATED"} = {} /\ Range(Ends) \cap {"CREATED"} = {}
      /\ \A f \in Starts : Ends[f] \in Range(Ends)
  BY EventNames
<1>3. /\ e \in tag'[s].raised <=> e \in tag[s].raised
      /\ Ends[e] \in tag'[s].raised <=> Ends[e] \in tag[s].raised
      /\ Ends[e] \in tag'[s].enabled <=> Ends[e] \in tag[s].enabled
  BY <1>1, <1>2 DEF Aside, Grows, Rises, Hears
<1>4. owner[s] # None => owner[s] \in Threads /\ pc'[owner[s]] = pc[owner[s]]
                         /\ pass'[owner[s]] = pass[owner[s]]
  BY DEF Quiet, MutexInv, Types, OwnerHolds
<1>5. /\ e \in Pending(s)' <=> e \in Pending(s)
      /\ Ends[e] \in Pending(s)' <=> Ends[e] \in Pending(s)
  BY <1>3, <1>4 DEF Pending, Quiet
<1> QED BY <1>3, <1>5 DEF Weight, One

(* While a thread is not telling of events no start is raised at its tag,  *)
(* nor at one without an owner, but one that is not heard of.              *)
LEMMA NoStart ==
  ASSUME MutexInv, ToldInv, NEW t \in Tags,
         owner[t] = None \/ pc[owner[t]] \notin Telling \/ pass[owner[t]].tell = {}
  PROVE  tag[t].raised \cap Starts = {} \/ Unheard(t)
  BY DEF ToldInv, StartsTold

LEMMA QuietTold ==
  ASSUME EventAssumption, MutexInv, TagTypes, CreationInv, ToldInv, MutexInv', Quiet, TicklerStays,
         NEW t \in Tags, NEW r, tag' = [tag EXCEPT ![t] = r],
         \/ Aside(tag[t], r)
         \/ owner[t] = None /\ Grows(tag[t], r)
         \/ owner[t] = None /\ Ticks(tag[t], r) /\ AtTickler(t)' /\ ~AtTickler(t),
         UNCHANGED <<balance, seen>>
  PROVE  ToldInv'
<1>1. /\ tag[t] \in TagRecord
      /\ \A s \in Tags : tag'[s] = IF s = t THEN r ELSE tag[s]
  BY DEF TagTypes
<1>2. GhostTypes
  BY DEF CreationInv
<1>3. /\ Starts \cap {"CREATED"} = {} /\ Range(Ends) \cap {"CREATED"} = {}
      /\ \A e \in Starts : Ends[e] \in Range(Ends) /\ Ends[e] \notin Starts
      /\ \A e, f \in Starts : Ends[e] = Ends[f] => e = f
  BY EventNames
<1>4. ASSUME owner[t] = None, Ticks(tag[t], r), ~AtTickler(t)
      PROVE  AutoRead /\ tag[t].raised \cap Starts = {}
  <2>1. AutoRead /\ tag[t].callback
    BY <1>4 DEF Ticks, Starting, Hears
  <2>2. ~Unheard(t)
    BY <1>4, <2>1 DEF Unheard
  <2> QED BY <1>4, <2>1, <2>2, NoStart
<1>5. StartsTold'
  <2> SUFFICES ASSUME NEW s \in Tags, NEW e \in Starts, e \in tag'[s].raised
               PROVE  \/ owner[s] # None /\ pc'[owner[s]] \in Telling /\ e \in pass'[owner[s]].tell
                      \/ Unheard(s)'
    BY DEF StartsTold, Quiet
  <2>1. owner[s] # None => owner[s] \in Threads /\ pc[owner[s]] \in Holding
                           /\ pc'[owner[s]] = pc[owner[s]] /\ pass'[owner[s]] = pass[owner[s]]
    BY DEF Quiet, MutexInv, Types, OwnerHolds
  <2>2. CASE e \in tag[s].raised
    <3>1. (owner[s] # None /\ pc[owner[s]] \in Telling /\ e \in pass[owner[s]].tell) \/ Unheard(s)
      BY <2>2 DEF ToldInv, StartsTold
    <3>2. CASE owner[s] # None /\ pc[owner[s]] \in Telling /\ e \in pass[owner[s]].tell
      BY <2>1, <3>2
    <3>3. CASE Unheard(s)
      <4>1. AutoRead /\ (~tag[s].callback \/ AtTickler(s))
            /\ (owner[s] # None /\ pc[owner[s]] \in Telling => pass[owner[s]].tell = {})
        BY <3>3 DEF Unheard
      <4>2. s = t => Hears(tag[t], r)
        <5>1. s = t => Aside(tag[t], r) \/ Grows(tag[t], r)
          BY <1>4, <2>2
        <5> QED BY <5>1 DEF Aside, Grows
      <4>3. tag[s].callback \/ ~tag'[s].callback
        BY <1>1, <4>1, <4>2 DEF Hears
      <4>4. AtTickler(s) => AtTickler(s)'
        BY DEF TicklerStays
      <4>5. owner'[s] # None /\ pc'[owner'[s]] \in Telling => pass'[owner'[s]].tell = {}
        BY <2>1, <4>1 DEF Quiet
      <4> QED BY <4>1, <4>3, <4>4, <4>5 DEF Unheard
    <3> QED BY <3>1, <3>2, <3>3
  <2>3. CASE s = t /\ Ticks(tag[t], r) /\ owner[t] = None /\ AtTickler(t)'
    <3>1. AutoRead /\ owner'[t] = None
      BY <2>3 DEF Ticks, Quiet
    <3> QED BY <2>3, <3>1 DEF Unheard
  <2>4. CASE e \notin tag[s].raised
    <3>1. s = t
      BY <1>1, <2>4
    <3>2. ~Aside(tag[t], r) /\ ~Grows(tag[t], r)
      BY <1>1, <2>4, <3>1 DEF Aside, Grows
    <3>3. Ticks(tag[t], r) /\ owner[t] = None /\ AtTickler(t)'
      BY <3>2
    <3> QED BY <2>3, <3>1, <3>3, Zenon
  <2> QED BY <2>2, <2>3, <2>4
<1>6. Balanced'
  <2> SUFFICES ASSUME NEW s \in Tags, NEW e \in Starts
               PROVE  /\ balance[s][Ends[e]] >= 0
                      /\ Weight(s, e)' >= One(Ends[e] \in tag'[s].enabled)
    BY DEF Balanced
  <2>1. /\ balance[s][Ends[e]] >= 0 /\ balance[s][Ends[e]] \in Int
        /\ Weight(s, e) >= One(Ends[e] \in tag[s].enabled)
    BY <1>2, <1>3 DEF ToldInv, Balanced, GhostTypes
  <2>2. CASE s # t \/ Aside(tag[t], r)
    BY <2>1, <2>2, QuietWeight DEF One
  <2>3. CASE s = t /\ owner[t] = None
    <3>1. Pending(s) = tag[s].raised /\ Pending(s)' = r.raised /\ tag'[s] = r
      BY <1>1, <2>3 DEF Pending, Quiet
    <3>2. /\ Weight(s, e) = balance[s][Ends[e]] + One(e \in tag[s].raised) - One(Ends[e] \in tag[s].raised)
          /\ Weight(s, e)' = balance[s][Ends[e]] + One(e \in r.raised) - One(Ends[e] \in r.raised)
      BY <3>1 DEF Weight
    <3>3. CASE Grows(tag[t], r)
      <4>1. /\ e \in r.raised <=> e \in tag[s].raised
            /\ Ends[e] \in r.raised /\ Ends[e] \in r.enabled =>
                 Ends[e] \in tag[s].raised /\ Ends[e] \in tag[s].enabled
            /\ Ends[e] \in r.raised \/ Ends[e] \in r.enabled =>
                 Ends[e] \in tag[s].raised \/ Ends[e] \in tag[s].enabled
        BY <1>3, <2>3, <3>3 DEF Grows, Rises, Hears
      <4> QED BY <2>1, <3>1, <3>2, <4>1 DEF One
    <3>4. CASE Ticks(tag[t], r) /\ ~AtTickler(t)
      <4>1. PICK g \in TagRecord : Starting(tag[t], g) /\ Grows(g, r)
        BY <3>4 DEF Ticks
      <4>2. PICK f \in Starts : /\ g.raised = tag[t].raised \cup {f}
                                /\ g.enabled = tag[t].enabled \cup {Ends[f]}
        BY <4>1 DEF Starting
      <4>3. /\ e \notin tag[s].raised
            /\ e \in r.raised <=> e = f
            /\ Ends[e] \in r.raised /\ Ends[e] \in r.enabled =>
                 Ends[e] \in tag[s].raised /\ (Ends[e] \in tag[s].enabled \/ e = f)
            /\ Ends[e] \in r.raised \/ Ends[e] \in r.enabled =>
                 Ends[e] \in tag[s].raised \/ Ends[e] \in tag[s].enabled \/ e = f
        BY <1>3, <1>4, <2>3, <3>4, <4>1, <4>2 DEF Grows, Rises, Hears
      <4> QED BY <2>1, <3>1, <3>2, <4>3 DEF One
    <3>5. CASE Aside(tag[t], r)
      BY <3>5, <2>2
    <3> QED BY <3>3, <3>4, <3>5
  <2> QED BY <2>2, <2>3
<1> QED BY <1>5, <1>6 DEF ToldInv

(* What a thread that takes a mutex does to its record *)
LEMMA TakeFacts ==
  ASSUME EventAssumption, MutexInv, MutexInv', TagTypes, NEW c \in Threads,
         NEW t \in Tags, owner[t] \in {None, c},
         NEW r, tag' = [tag EXCEPT ![t] = r], NEW p,
         owner' = [owner EXCEPT ![t] = c], pc' = [pc EXCEPT ![c] = "deliver"],
         on' = [on EXCEPT ![c] = t], pass' = [pass EXCEPT ![c] = p]
  PROVE  /\ tag[t] \in TagRecord /\ \A s \in Tags : tag'[s] = IF s = t THEN r ELSE tag[s]
         /\ owner'[t] = c /\ \A s \in Tags \ {t} : owner'[s] = owner[s] /\ owner[s] # c
         /\ \A d \in Threads \ {c} : pc'[d] = pc[d] /\ pass'[d] = pass[d] /\ on'[d] = on[d]
         /\ pc'[c] = "deliver" /\ pass'[c] = p /\ on'[c] = t
<1>1. tag[t] \in TagRecord /\ \A s \in Tags : tag'[s] = IF s = t THEN r ELSE tag[s]
  BY DEF TagTypes
<1>2. /\ owner'[t] = c /\ \A s \in Tags \ {t} : owner'[s] = owner[s] /\ owner[s] # c
      /\ \A d \in Threads \ {c} : pc'[d] = pc[d] /\ pass'[d] = pass[d] /\ on'[d] = on[d]
      /\ pc'[c] = "deliver" /\ pass'[c] = p /\ on'[c] = t
  BY ThreadFacts DEF MutexInv, Types, OwnerHolds
<1> QED BY <1>1, <1>2

LEMMA TakeCreation ==
  ASSUME EventAssumption, MutexInv, MutexInv', TagTypes, CreationInv, NEW c \in Threads,
         NEW t \in Tags, owner[t] \in {None, c},
         NEW r, tag' = [tag EXCEPT ![t] = r], Rises(tag[t], r), NEW p, p.tell = Outstanding(r),
         owner' = [owner EXCEPT ![t] = c], pc' = [pc EXCEPT ![c] = "deliver"],
         on' = [on EXCEPT ![c] = t], pass' = [pass EXCEPT ![c] = p], UNCHANGED <<balance, seen>>
  PROVE  CreationInv'
<1>1. /\ tag[t] \in TagRecord /\ \A s \in Tags : tag'[s] = IF s = t THEN r ELSE tag[s]
      /\ owner'[t] = c /\ \A s \in Tags \ {t} : owner'[s] = owner[s] /\ owner[s] # c
      /\ \A d \in Threads \ {c} : pc'[d] = pc[d] /\ pass'[d] = pass[d] /\ on'[d] = on[d]
      /\ pc'[c] = "deliver" /\ pass'[c] = p /\ on'[c] = t
  BY TakeFacts, ZenonT(120)
<1>2. p.tell \subseteq r.raised
  BY DEF Outstanding
<1>3. GhostTypes'
  BY DEF CreationInv, GhostTypes
<1>4. CreationFirst'
  <2> SUFFICES ASSUME NEW s \in Tags
               PROVE  /\ tag'[s].raised \cap Later # {} => tag'[s].had
                      /\ tag'[s].had => "CREATED" \in tag'[s].raised \cup seen[s]
                      /\ seen[s] \cap Later # {} => "CREATED" \in seen[s]
    BY DEF CreationFirst
  <2>1. /\ tag[s].raised \cap Later # {} => tag[s].had
        /\ tag[s].had => "CREATED" \in tag[s].raised \cup seen[s]
        /\ seen[s] \cap Later # {} => "CREATED" \in seen[s]
    BY DEF CreationInv, CreationFirst
  <2> QED BY <1>1, <2>1 DEF Rises
<1>5. TellRaised'
  <2> SUFFICES ASSUME NEW d \in Threads, pc'[d] \in Telling
               PROVE  /\ pass'[d].tell \subseteq tag'[on'[d]].raised
                      /\ pass'[d].tell \cap Later # {} =>
                           "CREATED" \in pass'[d].tell \cup seen[on'[d]]
                      /\ pc'[d] = "peer" =>
                           pass'[d].tell # {} /\ FirstOf(pass'[d].tell) \in seen[on'[d]]
    BY DEF TellRaised
  <2>1. CASE d = c
    <3>1. /\ r.raised \cap Later # {} => r.had
          /\ r.had => "CREATED" \in r.raised \cup seen[t]
      BY <1>1, <1>4 DEF CreationFirst
    <3>2. p.tell \in {r.raised, {}}
      BY DEF Outstanding
    <3> QED BY <1>1, <1>2, <2>1, <3>1, <3>2
  <2>2. CASE d # c
    <3>1. pc[d] \in Telling /\ on[d] \in Tags /\ owner[on[d]] = d
      BY <1>1, <2>2 DEF MutexInv, Types, AtTag, HolderOwns, Telling, Holding
    <3>2. on[d] # t
      BY <2>2, <3>1, ThreadFacts
    <3>3. /\ pass[d].tell \subseteq tag[on[d]].raised
          /\ pass[d].tell \cap Later # {} => "CREATED" \in pass[d].tell \cup seen[on[d]]
          /\ pc[d] = "peer" => pass[d].tell # {} /\ FirstOf(pass[d].tell) \in seen[on[d]]
      BY <3>1 DEF CreationInv, TellRaised
    <3> QED BY <1>1, <2>2, <3>1, <3>2, <3>3
  <2> QED BY <2>1, <2>2
<1> QED BY <1>3, <1>4, <1>5 DEF CreationInv

(* Raised starts of t may be raised once more. *)
Weighs(t) == \A e \in Starts : e \in tag[t].raised => Weight(t, e) >= 1

LEMMA TakePending ==
  ASSUME EventAssumption, MutexInv, MutexInv', TagTypes, NEW c \in Threads, pc[c] \notin Telling,
         NEW t \in Tags, owner[t] \in {None, c},
         NEW r, tag' = [tag EXCEPT ![t] = r], NEW p,
         owner' = [owner EXCEPT ![t] = c], pc' = [pc EXCEPT ![c] = "deliver"],
         on' = [on EXCEPT ![c] = t], pass' = [pass EXCEPT ![c] = p]
  PROVE  /\ Pending(t) = tag[t].raised /\ Pending(t)' = r.raised
         /\ \A s \in Tags \ {t} : Pending(s)' = Pending(s) /\ tag'[s] = tag[s]
<1>1. /\ \A s \in Tags : tag'[s] = IF s = t THEN r ELSE tag[s]
      /\ owner'[t] = c /\ \A s \in Tags \ {t} : owner'[s] = owner[s] /\ owner[s] # c
      /\ \A d \in Threads \ {c} : pc'[d] = pc[d] /\ pass'[d] = pass[d]
  <2>1. \A s \in Tags : tag'[s] = IF s = t THEN r ELSE tag[s]
    BY DEF TagTypes
  <2> QED BY <2>1, ThreadFacts DEF MutexInv, Types, OwnerHolds
<1>2. Pending(t) = tag[t].raised
  BY ThreadFacts DEF Pending, Telling
<1>3. Pending(t)' = r.raised
  <2>1. pc'[c] = "deliver"
    BY DEF MutexInv, Types
  <2> QED BY <1>1, <2>1 DEF Pending
<1>4. ASSUME NEW s \in Tags \ {t} PROVE Pending(s)' = Pending(s) /\ tag'[s] = tag[s]
  <2>1. /\ tag'[s] = tag[s] /\ owner'[s] = owner[s]
        /\ owner[s] # c /\ owner[s] \in Threads \cup {None}
    BY <1>1 DEF MutexInv, Types
  <2>2. owner[s] # None => pc'[owner[s]] = pc[owner[s]] /\ pass'[owner[s]] = pass[owner[s]]
    BY <1>1, <2>1
  <2>3. Pending(s)' = Pending(s)
    BY <2>1, <2>2, SMTT(30) DEF Pending
  <2> QED BY <2>1, <2>3
<1> QED BY <1>2, <1>3, <1>4

LEMMA TakeTold ==
  ASSUME EventAssumption, MutexInv, MutexInv', TagTypes, CreationInv, ToldInv, NEW c \in Threads,
         NEW t \in Tags, owner[t] \in {None, c}, pc[c] \notin Telling,
         pc[c] = "idle" \/ on[c] = t,
         NEW r, tag' = [tag EXCEPT ![t] = r],
         Grows(tag[t], r) \/ (Starting(tag[t], r) /\ Weighs(t)),
         NEW p, p.tell = Outstanding(r),
         owner' = [owner EXCEPT ![t] = c], pc' = [pc EXCEPT ![c] = "deliver"],
         on' = [on EXCEPT ![c] = t], pass' = [pass EXCEPT ![c] = p], UNCHANGED <<balance, seen>>
  PROVE  ToldInv'
<1>1. /\ tag[t] \in TagRecord /\ \A s \in Tags : tag'[s] = IF s = t THEN r ELSE tag[s]
      /\ owner'[t] = c /\ \A s \in Tags \ {t} : owner'[s] = owner[s] /\ owner[s] # c
      /\ \A d \in Threads \ {c} : pc'[d] = pc[d] /\ pass'[d] = pass[d] /\ on'[d] = on[d]
      /\ pc'[c] = "deliver" /\ pass'[c] = p /\ on'[c] = t
  BY TakeFacts, ZenonT(60)
<1>2. /\ \A e \in Starts : Ends[e] \in Range(Ends) /\ Ends[e] \notin Starts
      /\ \A e, f \in Starts : Ends[e] = Ends[f] => e = f
  BY EventNames
<1>3. ASSUME ~AutoRead, ~r.callback PROVE r.raised \cap Starts = {}
  <2>1. tag[t].raised \cap Starts = {}
    BY <1>3, NoStart, ThreadFacts DEF Unheard
  <2> QED BY <1>3, <2>1 DEF Starting, Grows
<1>4. StartsTold'
  <2> SUFFICES ASSUME NEW s \in Tags, NEW e \in Starts, e \in tag'[s].raised
               PROVE  \/ owner'[s] # None /\ pc'[owner'[s]] \in Telling /\ e \in pass'[owner'[s]].tell
                      \/ Unheard(s)'
    BY DEF StartsTold
  <2>1. CASE s = t /\ r.callback
    <3>1. e \in p.tell
      BY <1>1, <2>1 DEF Outstanding
    <3> QED BY <1>1, <2>1, <3>1, ThreadFacts DEF Telling
  <2>2. CASE s = t /\ ~r.callback
    <3>1. AutoRead /\ p.tell = {}
      BY <1>1, <1>3, <2>2 DEF Outstanding
    <3> QED BY <1>1, <2>2, <3>1 DEF Unheard
  <2>3. CASE s # t
    <3>1. tag'[s] = tag[s] /\ owner'[s] = owner[s] /\ owner[s] # c
      BY <1>1, <2>3
    <3>2. owner[s] # None => owner[s] \in Threads /\ pc'[owner[s]] = pc[owner[s]]
                             /\ pass'[owner[s]] = pass[owner[s]]
      BY <1>1, <3>1 DEF MutexInv, Types
    <3>3. AtTickler(s) => AtTickler(s)'
      BY <1>1, <2>3, ThreadFacts DEF AtTickler
    <3>4. (owner[s] # None /\ pc[owner[s]] \in Telling /\ e \in pass[owner[s]].tell) \/ Unheard(s)
      BY <3>1 DEF ToldInv, StartsTold
    <3>5. CASE owner[s] # None /\ pc[owner[s]] \in Telling /\ e \in pass[owner[s]].tell
      BY <3>1, <3>2, <3>5
    <3>6. CASE Unheard(s)
      BY <3>1, <3>2, <3>3, <3>6 DEF Unheard
    <3> QED BY <3>4, <3>5, <3>6
  <2> QED BY <2>1, <2>2, <2>3
<1>5. Balanced'
  <2> SUFFICES ASSUME NEW s \in Tags, NEW e \in Starts
               PROVE  /\ balance[s][Ends[e]] >= 0
                      /\ Weight(s, e)' >= One(Ends[e] \in tag'[s].enabled)
    BY DEF Balanced
  <2>1. /\ balance[s][Ends[e]] >= 0 /\ balance[s][Ends[e]] \in Int
        /\ Weight(s, e) >= One(Ends[e] \in tag[s].enabled)
    BY <1>2 DEF CreationInv, GhostTypes, ToldInv, Balanced
  <2>2. CASE s # t
    <3>1. Pending(s)' = Pending(s) /\ tag'[s] = tag[s]
      BY <2>2, TakePending
    <3>2. Weight(s, e)' = Weight(s, e)
      BY <3>1 DEF Weight
    <3> QED BY <2>1, <3>1, <3>2
  <2>3. CASE s = t
    <3>0. Pending(t) = tag[t].raised /\ Pending(t)' = r.raised
      BY TakePending, ZenonT(120)
    <3>1. tag'[s] = r /\ Pending(s)' = r.raised /\ Pending(s) = tag[s].raised
      BY <1>1, <2>3, <3>0
    <3>2. /\ Weight(s, e) = balance[s][Ends[e]] + One(e \in tag[s].raised) - One(Ends[e] \in tag[s].raised)
          /\ Weight(s, e)' = balance[s][Ends[e]] + One(e \in r.raised) - One(Ends[e] \in r.raised)
      BY <3>1 DEF Weight
    <3>3. CASE Grows(tag[t], r)
      <4>1. /\ e \in r.raised <=> e \in tag[s].raised
            /\ Ends[e] \in r.raised /\ Ends[e] \in r.enabled =>
                 Ends[e] \in tag[s].raised /\ Ends[e] \in tag[s].enabled
            /\ Ends[e] \in r.raised \/ Ends[e] \in r.enabled =>
                 Ends[e] \in tag[s].raised \/ Ends[e] \in tag[s].enabled
        BY <1>2, <2>3, <3>3 DEF Grows
      <4> QED BY <2>1, <3>1, <3>2, <4>1 DEF One
    <3>4. CASE Starting(tag[t], r) /\ Weighs(t)
      <4>1. PICK f \in Starts : /\ r.raised = tag[t].raised \cup {f}
                                /\ r.enabled = tag[t].enabled \cup {Ends[f]}
        BY <3>4 DEF Starting
      <4>2. /\ e \in r.raised <=> e \in tag[s].raised \/ e = f
            /\ Ends[e] \in r.raised <=> Ends[e] \in tag[s].raised
            /\ Ends[e] \in r.enabled => Ends[e] \in tag[s].enabled \/ e = f
            /\ e \in tag[s].raised => Weight(s, e) >= 1
        BY <1>2, <2>3, <3>4, <4>1 DEF Weighs
      <4> QED BY <2>1, <3>1, <3>2, <4>2 DEF One
    <3> QED BY <3>3, <3>4
  <2> QED BY <2>2, <2>3
<1> QED BY <1>4, <1>5 DEF ToldInv

(* The starts of a tag at which nothing happens stay with who has them. *)
LEMMA OthersTold ==
  ASSUME EventAssumption, MutexInv, ToldInv, NEW c \in Threads, pc[c] # "events",
         \A d \in Threads \ {c} : pc'[d] = pc[d] /\ pass'[d] = pass[d] /\ on'[d] = on[d],
         NEW s \in Tags, tag'[s] = tag[s], owner'[s] = owner[s], owner[s] # c,
         NEW e \in Starts, e \in tag'[s].raised
  PROVE  \/ owner'[s] # None /\ pc'[owner'[s]] \in Telling /\ e \in pass'[owner'[s]].tell
         \/ Unheard(s)'
<1>1. owner[s] # None => owner[s] \in Threads /\ pc'[owner[s]] = pc[owner[s]]
                         /\ pass'[owner[s]] = pass[owner[s]]
  BY DEF MutexInv, Types
<1>2. AtTickler(s) => AtTickler(s)'
  BY ThreadFacts DEF AtTickler
<1>3. (owner[s] # None /\ pc[owner[s]] \in Telling /\ e \in pass[owner[s]].tell) \/ Unheard(s)
  BY DEF ToldInv, StartsTold
<1>4. CASE owner[s] # None /\ pc[owner[s]] \in Telling /\ e \in pass[owner[s]].tell
  BY <1>1, <1>4
<1>5. CASE Unheard(s)
  BY <1>1, <1>2, <1>5 DEF Unheard
<1> QED BY <1>3, <1>4, <1>5

(* What raising one more start needs to stay true *)
SameWeight == \A s \in Tags : \A e \in Starts : Weight(s, e)' = Weight(s, e)

(* A thread that has nothing more to tell goes on, with the mutex or not.  *)
LEMMA GiveTold ==
  ASSUME EventAssumption, MutexInv, TagTypes, CreationInv, MutexInv', NEW c \in Threads,
         NEW t, NEW r, NEW place, NEW x, NEW y, NEW p,
         pc[c] \in Holding, pc[c] # "peer", pc[c] \in Telling => pass[c].tell = {},
         t = on[c], Same(tag[t], r), place \notin Telling, x \in Threads \cup {None},
         x \in {c, None}, y \in Tags \cup {None}, p \in Pass,
         tag' = [tag EXCEPT ![t] = r], owner' = [owner EXCEPT ![t] = x],
         pc' = [pc EXCEPT ![c] = place], on' = [on EXCEPT ![c] = y],
         pass' = [pass EXCEPT ![c] = p], UNCHANGED <<balance, seen>>
  PROVE  CreationInv' /\ SameWeight /\ (ToldInv => ToldInv')
<1>0. t \in Tags /\ owner[t] = c
  BY DEF MutexInv, Types, AtTag, HolderOwns, Holding
<1>1. /\ tag[t] \in TagRecord /\ r \in TagRecord
      /\ \A s \in Tags : /\ tag'[s].raised = tag[s].raised /\ tag'[s].had = tag[s].had
                         /\ tag'[s].enabled = tag[s].enabled
                         /\ s # t => tag'[s] = tag[s]
      /\ tag'[t] = r
  BY <1>0 DEF TagTypes, Same, Hears
<1>2. /\ owner'[t] = x /\ \A s \in Tags \ {t} : owner'[s] = owner[s] /\ owner[s] # c
      /\ \A d \in Threads \ {c} : pc'[d] = pc[d] /\ pass'[d] = pass[d] /\ on'[d] = on[d]
      /\ pc'[c] = place
  BY <1>0, ThreadFacts DEF MutexInv, Types, OwnerHolds
<1>4. GhostTypes' /\ GhostTypes
  BY DEF CreationInv, GhostTypes
<1>5. ASSUME ToldInv PROVE StartsTold'
  <2> SUFFICES ASSUME NEW s \in Tags, NEW e \in Starts, e \in tag'[s].raised
               PROVE  \/ owner'[s] # None /\ pc'[owner'[s]] \in Telling /\ e \in pass'[owner'[s]].tell
                      \/ Unheard(s)'
    BY DEF StartsTold
  <2>0. pc[c] # "events"
    BY DEF Holding
  <2>1. CASE s = t
    <3>1. Unheard(t) /\ e \in tag[t].raised
      BY <1>0, <1>1, <1>5, <2>1 DEF ToldInv, StartsTold
    <3>2. AutoRead /\ (~r.callback \/ AtTickler(t))
      BY <3>1 DEF Unheard, Same, Hears
    <3>3. AtTickler(t) => AtTickler(t)'
      BY <1>2, <2>0, ThreadFacts DEF AtTickler
    <3>4. owner'[t] # None => owner'[t] = c
      BY <1>2
    <3> QED BY <1>1, <1>2, <2>1, <3>2, <3>3, <3>4 DEF Unheard
  <2>2. CASE s # t
    <3>1. tag'[s] = tag[s] /\ owner'[s] = owner[s] /\ owner[s] # c
      BY <1>1, <1>2, <2>2
    <3> QED BY <1>2, <1>5, <2>0, <3>1, OthersTold
  <2> QED BY <2>1, <2>2
<1>6. TellRaised'
  <2> SUFFICES ASSUME NEW d \in Threads, pc'[d] \in Telling
               PROVE  /\ pass'[d].tell \subseteq tag'[on'[d]].raised
                      /\ pass'[d].tell \cap Later # {} =>
                           "CREATED" \in pass'[d].tell \cup seen[on'[d]]
                      /\ pc'[d] = "peer" =>
                           pass'[d].tell # {} /\ FirstOf(pass'[d].tell) \in seen[on'[d]]
    BY DEF TellRaised
  <2>1. d # c
    BY <1>2
  <2>2. pc[d] \in Telling /\ on[d] \in Tags
    BY <1>2, <2>1 DEF MutexInv, Types, AtTag, Telling
  <2>3. /\ pass[d].tell \subseteq tag[on[d]].raised
        /\ pass[d].tell \cap Later # {} => "CREATED" \in pass[d].tell \cup seen[on[d]]
        /\ pc[d] = "peer" => pass[d].tell # {} /\ FirstOf(pass[d].tell) \in seen[on[d]]
    BY <2>2 DEF CreationInv, TellRaised
  <2> QED BY <1>1, <1>2, <2>1, <2>2, <2>3
<1>7. CreationFirst'
  BY <1>1 DEF CreationInv, CreationFirst
<1>8. ASSUME NEW s \in Tags PROVE Pending(s)' = Pending(s)
  <2>1. CASE s # t
    <3>1. owner'[s] = owner[s] /\ owner[s] # c /\ owner[s] \in Threads \cup {None}
      BY <1>2, <2>1 DEF MutexInv, Types
    <3>2. owner[s] # None => pc'[owner[s]] = pc[owner[s]] /\ pass'[owner[s]] = pass[owner[s]]
      BY <1>2, <3>1
    <3>3. tag'[s].raised = tag[s].raised
      BY <1>1
    <3> QED BY ONLY <3>1, <3>2, <3>3 DEF Pending
  <2>2. CASE s = t
    <3>1. Pending(s) = tag[s].raised
      BY <1>0, <2>2 DEF Pending
    <3>2. Pending(s)' = tag'[s].raised
      BY <1>2, <2>2 DEF Pending, Telling
    <3> QED BY <1>1, <3>1, <3>2
  <2> QED BY <2>1, <2>2
<1>9. SameWeight
  BY <1>8 DEF SameWeight, Weight
<1>10. ASSUME ToldInv PROVE Balanced'
  BY <1>1, <1>9, <1>10 DEF ToldInv, Balanced, SameWeight
<1> QED BY <1>4, <1>5, <1>6, <1>7, <1>9, <1>10 DEF ToldInv, CreationInv

(* The callback is told of the first event; whether it is over with it at  *)
(* once or calls another tag's function first, that event is not pending   *)
(* any more.                                                               *)
LEMMA TellTold ==
  ASSUME EventAssumption, MutexInv, TagTypes, CreationInv, NEW c \in Threads,
         Callback(c) \/ CallbackCalls(c)
  PROVE  CreationInv' /\ SameWeight /\ (ToldInv => ToldInv')
<1>0. PICK t \in Tags, e \in Range(Events), r \in TagRecord :
        /\ t = on[c] /\ e = FirstOf(pass[c].tell)
        /\ pc[c] = "deliver" /\ pass[c].tell # {} /\ Tell(t, e) /\ owner' = owner /\ on' = on
        /\ tag' = [tag EXCEPT ![t] = r] /\ r.had = tag[t].had /\ r.enabled = tag[t].enabled
        /\ \/ /\ r.raised = tag[t].raised \ {e} /\ pc' = pc
              /\ pass' = [pass EXCEPT ![c].tell = @ \ {e}]
           \/ r.raised = tag[t].raised /\ pc' = [pc EXCEPT ![c] = "peer"] /\ pass' = pass
  <2> DEFINE t0 == on[c]
             e0 == FirstOf(pass[c].tell)
             r0 == IF Callback(c) THEN [tag[t0] EXCEPT !.raised = @ \ {e0}] ELSE tag[t0]
  <2>1. /\ pc[c] = "deliver" /\ pass[c].tell # {} /\ Tell(t0, e0) /\ UNCHANGED <<owner, on>>
    BY DEF Callback, CallbackCalls
  <2>2. t0 \in Tags /\ tag[t0] \in TagRecord /\ pass[c] \in Pass
    BY <2>1 DEF MutexInv, Types, AtTag, TagTypes, Pass
  <2>3. e0 \in Range(Events)
    BY <2>1, <2>2, FirstOfFacts DEF Pass
  <2>4. r0 \in TagRecord /\ tag' = [tag EXCEPT ![t0] = r0]
    BY <2>2, ClearType DEF Callback, CallbackCalls, Told, TagTypes
  <2>5. /\ r0.had = tag[t0].had /\ r0.enabled = tag[t0].enabled
        /\ \/ r0.raised = tag[t0].raised \ {e0} /\ pc' = pc
              /\ pass' = [pass EXCEPT ![c].tell = @ \ {e0}]
           \/ r0.raised = tag[t0].raised /\ pc' = [pc EXCEPT ![c] = "peer"] /\ pass' = pass
    BY <2>2 DEF Callback, CallbackCalls, Told, Goto, TagRecord
  <2>6. t0 = on[c] /\ e0 = FirstOf(pass[c].tell)
    OBVIOUS
  <2> HIDE DEF t0, e0, r0
  <2> USE <2>2, <2>3, <2>4
  <2> WITNESS t0 \in Tags, e0 \in Range(Events), r0 \in TagRecord
  <2> QED BY <2>1, <2>4, <2>5, <2>6
<1>01. owner[t] = c
  BY <1>0 DEF MutexInv, HolderOwns, Holding
<1> USE <1>0, <1>01
<1>1. /\ tag[t] \in TagRecord
      /\ \A s \in Tags : tag'[s] = IF s = t THEN r ELSE tag[s]
      /\ pass[c].tell \in SUBSET Range(Events)
      /\ \A d \in Threads \ {c} : pc'[d] = pc[d] /\ pass'[d] = pass[d] /\ on'[d] = on[d]
      /\ pc'[c] \in Telling
  BY <1>0 DEF TagTypes, MutexInv, Types, Telling
<1>2. /\ e \in pass[c].tell
      /\ "CREATED" \in pass[c].tell => e = "CREATED"
      /\ \A f \in Starts : f \in pass[c].tell => e # Ends[f]
  BY <1>1, FirstOfFacts
<1>3. /\ pass[c].tell \subseteq tag[t].raised
      /\ pass[c].tell \cap Later # {} => "CREATED" \in pass[c].tell \cup seen[t]
  BY <1>0 DEF CreationInv, TellRaised, Telling
<1>4. /\ Starts \cap Later = {} /\ Range(Ends) \subseteq Later /\ "CREATED" \notin Later
      /\ Starts \cap Range(Ends) = {}
      /\ \A f \in Starts : Ends[f] \in Range(Ends)
      /\ \A f, g \in Starts : Ends[f] = Ends[g] => f = g
      /\ \A x \in Range(Ends) : \E f \in Starts : x = Ends[f]
  BY EventNames DEF Later
<1>5. GhostTypes
  BY DEF CreationInv
<1>6. /\ seen'[t] = seen[t] \cup {e} /\ \A s \in Tags \ {t} : seen'[s] = seen[s]
      /\ seen' \in [Tags -> SUBSET Range(Events)]
  BY <1>0, <1>1, <1>2, <1>5 DEF Tell, GhostTypes
<1>7. /\ balance' \in [Tags -> [Range(Ends) -> Int]]
      /\ \A s \in Tags \ {t} : balance'[s] = balance[s]
      /\ \A f \in Starts : balance'[t][Ends[f]] =
           IF f = e THEN balance[t][Ends[f]] + 1
           ELSE IF Ends[f] = e THEN balance[t][Ends[f]] - 1 ELSE balance[t][Ends[f]]
  <2>1. CASE e \in Starts
    <3>1. balance' = [balance EXCEPT ![t][Ends[e]] = @ + 1]
      BY <2>1 DEF Tell
    <3>2. Ends[e] \in Range(Ends) /\ \A f \in Starts : Ends[f] # e
      BY <1>4, <2>1, SMTT(30)
    <3> QED BY <1>0, <1>4, <1>5, <2>1, <3>1, <3>2 DEF GhostTypes
  <2>2. CASE e \in Range(Ends)
    <3>1. balance' = [balance EXCEPT ![t][e] = @ - 1] /\ e \notin Starts
      BY <1>4, <2>2 DEF Tell
    <3> QED BY <1>0, <1>4, <1>5, <2>2, <3>1 DEF GhostTypes
  <2>3. CASE e \notin Starts /\ e \notin Range(Ends)
    <3>1. balance' = balance
      BY <2>3 DEF Tell
    <3> QED BY <1>4, <1>5, <2>3, <3>1 DEF GhostTypes
  <2> QED BY <2>1, <2>2, <2>3, SMTT(30)
<1>8. ASSUME ToldInv
      PROVE  /\ \A f \in Starts : f \in tag[t].raised => f \in pass[c].tell
             /\ \A f \in Starts : f \in r.raised => f \in pass'[c].tell
  <2>0. ~Unheard(t)
    BY <1>0, ThreadFacts DEF Unheard, Telling
  <2>1. \A f \in Starts : f \in tag[t].raised => f \in pass[c].tell
    BY <1>0, <1>8, <2>0 DEF ToldInv, StartsTold
  <2> QED BY <2>1 DEF MutexInv, Types
<1>9. ASSUME ToldInv PROVE StartsTold'
  <2> SUFFICES ASSUME NEW s \in Tags, NEW f \in Starts, f \in tag'[s].raised
               PROVE  \/ owner'[s] # None /\ pc'[owner'[s]] \in Telling /\ f \in pass'[owner'[s]].tell
                      \/ Unheard(s)'
    BY DEF StartsTold
  <2>1. CASE s = t
    BY <1>0, <1>1, <1>8, <1>9, <2>1, ThreadFacts
  <2>2. CASE s # t
    <3>1. tag'[s] = tag[s] /\ owner'[s] = owner[s] /\ owner[s] # c
      BY <1>0, <1>1, <2>2, ThreadFacts DEF MutexInv, OwnerHolds
    <3>2. pc[c] # "events"
      BY <1>0
    <3> QED BY <1>1, <1>9, <3>1, <3>2, OthersTold
  <2> QED BY <2>1, <2>2
<1>10. TellRaised'
  <2> SUFFICES ASSUME NEW d \in Threads, pc'[d] \in Telling
               PROVE  /\ pass'[d].tell \subseteq tag'[on[d]].raised
                      /\ pass'[d].tell \cap Later # {} =>
                           "CREATED" \in pass'[d].tell \cup seen'[on[d]]
                      /\ pc'[d] = "peer" =>
                           pass'[d].tell # {} /\ FirstOf(pass'[d].tell) \in seen'[on[d]]
    BY <1>0 DEF TellRaised
  <2>1. CASE d = c
    <3>1. CASE /\ r.raised = tag[t].raised \ {e} /\ pc' = pc
               /\ pass' = [pass EXCEPT ![c].tell = @ \ {e}]
      <4>1. pass'[c].tell = pass[c].tell \ {e}
        BY <3>1 DEF MutexInv, Types
      <4> QED BY <1>0, <1>1, <1>2, <1>3, <1>6, <2>1, <3>1, <4>1
    <3>2. CASE pass' = pass /\ r.raised = tag[t].raised
      BY <1>0, <1>1, <1>2, <1>3, <1>6, <2>1, <3>2
    <3> QED BY <3>1, <3>2
  <2>2. CASE d # c
    <3>1. pc[d] \in Telling /\ on[d] \in Tags /\ on[d] # t
      BY <1>0, <1>1, <2>2 DEF MutexInv, Types, AtTag, HolderOwns, Telling, Holding
    <3>2. /\ pass[d].tell \subseteq tag[on[d]].raised
          /\ pass[d].tell \cap Later # {} => "CREATED" \in pass[d].tell \cup seen[on[d]]
          /\ pc[d] = "peer" => pass[d].tell # {} /\ FirstOf(pass[d].tell) \in seen[on[d]]
      BY <3>1 DEF CreationInv, TellRaised
    <3> QED BY <1>1, <1>6, <2>2, <3>1, <3>2
  <2> QED BY <2>1, <2>2
<1>11. CreationFirst'
  <2> SUFFICES ASSUME NEW s \in Tags
               PROVE  /\ tag'[s].raised \cap Later # {} => tag'[s].had
                      /\ tag'[s].had => "CREATED" \in tag'[s].raised \cup seen'[s]
                      /\ seen'[s] \cap Later # {} => "CREATED" \in seen'[s]
    BY DEF CreationFirst
  <2>1. /\ tag[s].raised \cap Later # {} => tag[s].had
        /\ tag[s].had => "CREATED" \in tag[s].raised \cup seen[s]
        /\ seen[s] \cap Later # {} => "CREATED" \in seen[s]
    BY DEF CreationInv, CreationFirst
  <2>2. CASE s # t
    BY <1>1, <1>6, <2>1, <2>2
  <2>3. CASE s = t
    <3>1. tag'[t] = r /\ (r.raised = tag[t].raised \/ r.raised = tag[t].raised \ {e})
      BY <1>0, <1>1
    <3>2. e \in Later => "CREATED" \in seen[t]
      BY <1>2, <1>3, <1>4
    <3> QED BY <1>6, <2>1, <2>3, <3>1, <3>2
  <2> QED BY <2>2, <2>3
<1>12. Pending(t) = tag[t].raised /\ Pending(t)' = tag[t].raised \ {e}
  <2>1. Pending(t) = tag[t].raised
    BY <1>0, ThreadFacts DEF Pending
  <2>2. CASE r.raised = tag[t].raised \ {e} /\ pc' = pc
    BY <1>0, <1>1, <2>2 DEF Pending
  <2>3. CASE r.raised = tag[t].raised /\ pc' = [pc EXCEPT ![c] = "peer"] /\ pass' = pass
    <3>1. pc'[owner[t]] = "peer" /\ pass'[owner[t]] = pass[c] /\ tag'[t] = r /\ owner[t] # None
      BY <1>0, <1>1, <2>3, ThreadFacts DEF MutexInv, Types
    <3> QED BY <1>0, <2>3, <3>1 DEF Pending
  <2> QED BY <2>1, <2>2, <2>3
<1>13. SameWeight
  <2> SUFFICES ASSUME NEW s \in Tags, NEW f \in Starts PROVE Weight(s, f)' = Weight(s, f)
    BY DEF SameWeight
  <2>1. balance[s][Ends[f]] \in Int
    BY <1>4, <1>5 DEF GhostTypes
  <2>2. CASE s # t
    <3>1. owner[s] # None => owner[s] \in Threads \ {c}
      BY <1>0, <2>2 DEF MutexInv, Types, OwnerHolds
    <3>2. owner[s] # None => pc'[owner[s]] = pc[owner[s]] /\ pass'[owner[s]] = pass[owner[s]]
      BY <1>1, <3>1
    <3>3. tag'[s] = tag[s] /\ owner'[s] = owner[s]
      BY <1>0, <1>1, <2>2
    <3>4. Pending(s)' = Pending(s)
      BY ONLY <3>2, <3>3 DEF Pending
    <3> QED BY <1>7, <2>2, <3>4 DEF Weight
  <2>3. CASE s = t
    <3>1. /\ Weight(t, f) = balance[t][Ends[f]] + One(f \in Pending(t)) - One(Ends[f] \in Pending(t))
          /\ Weight(t, f)' = balance'[t][Ends[f]] + One(f \in Pending(t)') - One(Ends[f] \in Pending(t)')
      BY DEF Weight
    <3>2. CASE f = e
      <4>1. f \in Pending(t) /\ f \notin Pending(t)' /\ Ends[f] # e
        BY <1>2, <1>3, <1>4, <1>12, <3>2
      <4>2. Ends[f] \in Pending(t)' <=> Ends[f] \in Pending(t)
        BY <1>12, <4>1
      <4> QED BY <1>7, <2>1, <2>3, <3>1, <3>2, <4>1, <4>2 DEF One
    <3>3. CASE Ends[f] = e
      <4>1. f # e
        BY <1>4, <3>3
      <4>2. /\ f \in Pending(t)' <=> f \in Pending(t)
            /\ Ends[f] \in Pending(t) /\ Ends[f] \notin Pending(t)'
        BY <1>2, <1>3, <1>12, <3>3, <4>1
      <4>3. balance'[t][Ends[f]] = balance[t][Ends[f]] - 1 /\ balance[t][Ends[f]] \in Int
        BY <1>7, <2>1, <2>3, <3>3, <4>1
      <4>4. Weight(t, f)' = Weight(t, f)
        BY <3>1, <4>2, <4>3 DEF One
      <4> QED BY <2>3, <4>4
    <3>4. CASE f # e /\ Ends[f] # e
      <4>1. /\ f \in Pending(t)' <=> f \in Pending(t)
            /\ Ends[f] \in Pending(t)' <=> Ends[f] \in Pending(t)
        BY <1>12, <3>4
      <4> QED BY <1>7, <2>1, <2>3, <3>1, <3>4, <4>1 DEF One
    <3> QED BY <3>2, <3>3, <3>4
  <2> QED BY <2>2, <2>3
<1>15. ASSUME ToldInv PROVE Balanced'
  <2> SUFFICES ASSUME NEW s \in Tags, NEW f \in Starts
               PROVE  /\ balance'[s][Ends[f]] >= 0
                      /\ Weight(s, f)' >= One(Ends[f] \in tag'[s].enabled)
    BY DEF Balanced
  <2>1. /\ balance[s][Ends[f]] >= 0 /\ balance[s][Ends[f]] \in Int
        /\ Weight(s, f) >= One(Ends[f] \in tag[s].enabled)
    BY <1>4, <1>5, <1>15 DEF GhostTypes, ToldInv, Balanced
  <2>2. tag'[s].enabled = tag[s].enabled
    BY <1>0, <1>1
  <2>3. Weight(s, f)' >= One(Ends[f] \in tag'[s].enabled)
    BY <1>13, <2>1, <2>2 DEF SameWeight
  <2>4. balance'[s][Ends[f]] >= 0
    <3>1. CASE s # t
      BY <1>7, <2>1, <3>1
    <3>2. CASE s = t /\ Ends[f] # e
      BY <1>7, <2>1, <3>2
    <3>3. CASE s = t /\ Ends[f] = e
      <4>1. f # e /\ f \notin tag[t].raised
        BY <1>2, <1>4, <1>8, <1>15, <3>3
      <4>2. f \notin Pending(t)
        BY <1>12, <4>1
      <4>3. Ends[f] \in Pending(t)
        BY <1>2, <1>3, <1>12, <3>3
      <4>4. balance[t][Ends[f]] >= 1
        BY <2>1, <3>3, <4>2, <4>3 DEF Weight, One
      <4> QED BY <1>7, <2>1, <3>3, <4>1, <4>4
    <3> QED BY <3>1, <3>2, <3>3
  <2> QED BY <2>3, <2>4
<1>14. GhostTypes'
  BY <1>6, <1>7 DEF GhostTypes
<1> QED BY <1>9, <1>10, <1>11, <1>13, <1>14, <1>15 DEF ToldInv, CreationInv

(* The callback returns from another tag's function. *)
LEMMA ReturnTold ==
  ASSUME EventAssumption, MutexInv, TagTypes, CreationInv, NEW c \in Threads, CallbackReturns(c)
  PROVE  CreationInv' /\ SameWeight /\ (ToldInv => ToldInv')
<1>0. PICK t \in Tags, e \in Range(Events), r \in TagRecord :
        /\ t = on[c] /\ e = FirstOf(pass[c].tell)
        /\ pc[c] = "peer" /\ pc' = [pc EXCEPT ![c] = "deliver"] /\ owner' = owner /\ on' = on
        /\ tag' = [tag EXCEPT ![t] = r] /\ r.had = tag[t].had /\ r.enabled = tag[t].enabled
        /\ r.raised = tag[t].raised \ {e} /\ pass' = [pass EXCEPT ![c].tell = @ \ {e}]
        /\ UNCHANGED <<balance, seen>>
  <2> DEFINE t0 == on[c]
             e0 == FirstOf(pass[c].tell)
             r0 == [tag[t0] EXCEPT !.raised = @ \ {e0}]
  <2>1. /\ pc[c] = "peer" /\ pc' = [pc EXCEPT ![c] = "deliver"]
        /\ pass' = [pass EXCEPT ![c].tell = @ \ {e0}] /\ tag' = [tag EXCEPT ![t0].raised = @ \ {e0}]
        /\ UNCHANGED <<owner, on, balance, seen>>
    BY DEF CallbackReturns, Told, Goto, ghosts
  <2>2. t0 \in Tags /\ tag[t0] \in TagRecord /\ pass[c] \in Pass
    BY <2>1 DEF MutexInv, Types, AtTag, TagTypes, Pass
  <2>3. e0 \in Range(Events)
    <3>1. pass[c].tell # {}
      BY <2>1 DEF CreationInv, TellRaised, Telling
    <3> QED BY <2>2, <3>1, FirstOfFacts DEF Pass
  <2>4. r0 \in TagRecord /\ tag' = [tag EXCEPT ![t0] = r0]
    BY <2>1, <2>2, ClearType DEF TagTypes
  <2>5. r0.had = tag[t0].had /\ r0.enabled = tag[t0].enabled /\ r0.raised = tag[t0].raised \ {e0}
    BY <2>2 DEF TagRecord
  <2>6. t0 = on[c] /\ e0 = FirstOf(pass[c].tell)
    OBVIOUS
  <2> HIDE DEF t0, e0, r0
  <2> USE <2>2, <2>3, <2>4
  <2> WITNESS t0 \in Tags, e0 \in Range(Events), r0 \in TagRecord
  <2> QED BY <2>1, <2>4, <2>5, <2>6
<1>01. owner[t] = c
  BY <1>0 DEF MutexInv, HolderOwns, Holding
<1> USE <1>0, <1>01
<1>1. /\ \A s \in Tags : tag'[s] = IF s = t THEN r ELSE tag[s]
      /\ \A d \in Threads \ {c} : pc'[d] = pc[d] /\ pass'[d] = pass[d] /\ on'[d] = on[d]
      /\ pc'[c] = "deliver" /\ pass'[c].tell = pass[c].tell \ {e}
  BY <1>0 DEF TagTypes, MutexInv, Types
<1>2. /\ pass[c].tell \subseteq tag[t].raised
      /\ pass[c].tell \cap Later # {} => "CREATED" \in pass[c].tell \cup seen[t]
      /\ e \in seen[t] /\ pass[c].tell # {}
  BY <1>0 DEF CreationInv, TellRaised, Telling
<1>3. GhostTypes /\ GhostTypes'
  BY DEF CreationInv, GhostTypes
<1>4. ASSUME ToldInv PROVE \A f \in Starts : f \in r.raised => f \in pass'[c].tell
  <2>1. ~Unheard(t)
    BY <1>0, <1>2, ThreadFacts DEF Unheard, Telling
  <2> QED BY <1>0, <1>1, <1>4, <2>1 DEF ToldInv, StartsTold
<1>5. ASSUME ToldInv PROVE StartsTold'
  <2> SUFFICES ASSUME NEW s \in Tags, NEW f \in Starts, f \in tag'[s].raised
               PROVE  \/ owner'[s] # None /\ pc'[owner'[s]] \in Telling /\ f \in pass'[owner'[s]].tell
                      \/ Unheard(s)'
    BY DEF StartsTold
  <2>1. CASE s = t
    BY <1>0, <1>1, <1>4, <1>5, <2>1, ThreadFacts DEF Telling
  <2>2. CASE s # t
    <3>1. tag'[s] = tag[s] /\ owner'[s] = owner[s] /\ owner[s] # c
      BY <1>0, <1>1, <2>2, ThreadFacts DEF MutexInv, OwnerHolds
    <3>2. pc[c] # "events"
      BY <1>0
    <3> QED BY <1>1, <1>5, <3>1, <3>2, OthersTold
  <2> QED BY <2>1, <2>2
<1>6. TellRaised'
  <2> SUFFICES ASSUME NEW d \in Threads, pc'[d] \in Telling
               PROVE  /\ pass'[d].tell \subseteq tag'[on[d]].raised
                      /\ pass'[d].tell \cap Later # {} =>
                           "CREATED" \in pass'[d].tell \cup seen[on[d]]
                      /\ pc'[d] = "peer" =>
                           pass'[d].tell # {} /\ FirstOf(pass'[d].tell) \in seen[on[d]]
    BY <1>0 DEF TellRaised
  <2>1. CASE d = c
    BY <1>0, <1>1, <1>2, <2>1
  <2>2. CASE d # c
    <3>1. pc[d] \in Telling /\ on[d] \in Tags /\ on[d] # t
      BY <1>0, <1>1, <2>2 DEF MutexInv, Types, AtTag, HolderOwns, Telling, Holding
    <3>2. /\ pass[d].tell \subseteq tag[on[d]].raised
          /\ pass[d].tell \cap Later # {} => "CREATED" \in pass[d].tell \cup seen[on[d]]
          /\ pc[d] = "peer" => pass[d].tell # {} /\ FirstOf(pass[d].tell) \in seen[on[d]]
      BY <3>1 DEF CreationInv, TellRaised
    <3> QED BY <1>1, <2>2, <3>1, <3>2
  <2> QED BY <2>1, <2>2
<1>7. CreationFirst'
  BY <1>1, <1>2 DEF CreationInv, CreationFirst
<1>8. ASSUME NEW s \in Tags PROVE Pending(s)' = Pending(s)
  <2>1. CASE s # t
    <3>1. owner[s] # None => owner[s] \in Threads \ {c}
      BY <1>0, <2>1 DEF MutexInv, Types, OwnerHolds
    <3>2. owner[s] # None => pc'[owner[s]] = pc[owner[s]] /\ pass'[owner[s]] = pass[owner[s]]
      BY <1>1, <3>1
    <3>3. tag'[s] = tag[s] /\ owner'[s] = owner[s]
      BY <1>0, <1>1, <2>1
    <3> QED BY ONLY <3>2, <3>3 DEF Pending
  <2>2. CASE s = t
    <3>1. Pending(t) = tag[t].raised \ {e}
      BY <1>0, ThreadFacts DEF Pending
    <3>2. Pending(t)' = r.raised
      BY <1>0, <1>1 DEF Pending
    <3> QED BY <2>2, <3>1, <3>2
  <2> QED BY <2>1, <2>2
<1>9. SameWeight
  BY <1>8 DEF SameWeight, Weight
<1>10. ASSUME ToldInv PROVE Balanced'
  <2>1. \A s \in Tags : tag'[s].enabled = tag[s].enabled
    BY <1>1
  <2> QED BY <1>9, <1>10, <2>1 DEF ToldInv, Balanced, SameWeight
<1> QED BY <1>3, <1>5, <1>6, <1>7, <1>9, <1>10 DEF ToldInv, CreationInv

-----------------------------------------------------------------------------
(* The actions *)

LEMMA InitIInv ==
  ASSUME EventAssumption, Init
  PROVE  IInv
<1>1. MutexInv
  BY ThreadFacts
  DEF Init, MutexInv, Types, AtTag, OwnerHolds, HolderOwns, PeerThere, Holding, Places
<1>2. TagTypes
  BY DEF Init, TagTypes, TagRecord, NewTag
<1>3. CreationInv
  BY DEF Init, NewTag, CreationInv, GhostTypes, TellRaised, CreationFirst, Telling, Later
<1>4. ToldInv
  <2>1. StartsTold
    BY DEF Init, NewTag, StartsTold
  <2>2. \A t \in Tags : Pending(t) = {} /\ tag[t].enabled = {}
    BY DEF Init, NewTag, Pending
  <2>3. \A e \in Starts : Ends[e] \in Range(Ends)
    BY EventNames
  <2> QED BY <2>1, <2>2, <2>3 DEF Init, ToldInv, Balanced, Weight, One
<1>5. CallInv
  <2>1. \A c \in Threads : pc[c] \in {"idle", "create"} /\ pass[c].then = "idle"
    BY DEF Init
  <2> QED BY <2>1 DEF Init, NewTag, CallInv, Uncalled, Calm, Unread
<1> QED BY <1>1, <1>2, <1>3, <1>4, <1>5 DEF IInv, BaseInv

LEMMA MoveStep ==
  ASSUME EventAssumption, IInv, NEW c \in Threads, pc[c] \notin Holding, pc[c] # "events",
         NEW place, place \notin Holding, NEW x \in Tags \cup {None}, x = None <=> place = "idle",
         NEW p \in Pass, NEW t \in Tags, NEW r \in TagRecord, Rises(tag[t], r),
         Single => \/ Aside(tag[t], r)
                   \/ Free(c, t) /\ Grows(tag[t], r)
                   \/ /\ Free(c, t) /\ Ticks(tag[t], r)
                      /\ c = TicklerThread /\ place = "events" /\ x = t,
         owner' = owner, pc' = [pc EXCEPT ![c] = place], on' = [on EXCEPT ![c] = x],
         pass' = [pass EXCEPT ![c] = p], tag' = [tag EXCEPT ![t] = r], UNCHANGED <<balance, seen>>
  PROVE  BaseInv'
<1>1. MutexInv' /\ Quiet
  BY MoveKeeps DEF IInv, BaseInv, Quiet, MutexInv, Types
<1>2. TagTypes'
  BY DEF IInv, BaseInv, TagTypes
<1>3. Free(c, t) => owner[t] = None
  BY DEF Free, IInv, BaseInv, MutexInv, OwnerHolds
<1>4. CreationInv'
  BY <1>1, QuietCreation DEF IInv, BaseInv
<1>5. TicklerStays
  BY DEF TicklerStays, AtTickler, IInv, BaseInv, MutexInv, Types
<1>6. c = TicklerThread /\ place = "events" /\ x = t => AtTickler(t)' /\ ~AtTickler(t)
  BY DEF AtTickler, IInv, BaseInv, MutexInv, Types
<1>7. Single => ToldInv'
  BY <1>1, <1>3, <1>5, <1>6, QuietTold DEF IInv, BaseInv
<1> QED BY <1>1, <1>2, <1>4, <1>7 DEF BaseInv, Single

(* A step that moves no thread *)
LEMMA StayStep ==
  ASSUME EventAssumption, IInv, NEW c \in Threads, NEW t \in Tags, NEW r \in TagRecord,
         Rises(tag[t], r),
         Single => Aside(tag[t], r) \/ (Free(c, t) /\ owner[t] # c /\ Grows(tag[t], r)),
         UNCHANGED <<owner, pc, on, pass, balance, seen>>, tag' = [tag EXCEPT ![t] = r]
  PROVE  BaseInv'
<1>1. MutexInv' /\ Quiet
  BY StayKeeps DEF IInv, BaseInv, Quiet
<1>2. TagTypes'
  BY DEF IInv, BaseInv, TagTypes
<1>3. Free(c, t) /\ owner[t] # c => owner[t] = None
  BY DEF Free
<1>4. CreationInv'
  BY <1>1, QuietCreation DEF IInv, BaseInv
<1>5. TicklerStays
  BY DEF TicklerStays, AtTickler
<1>6. Single => ToldInv'
  BY <1>1, <1>3, <1>5, QuietTold DEF IInv, BaseInv
<1> QED BY <1>1, <1>2, <1>4, <1>6 DEF BaseInv, Single

(* A thread in the library, and what its record may become *)
LEMMA Here ==
  ASSUME EventAssumption, IInv, NEW c \in Threads
  PROVE  /\ pc[c] # "idle" => on[c] \in Tags /\ tag[on[c]] \in TagRecord
         /\ \A t \in Tags : tag[t] \in TagRecord
         /\ \A t \in Tags : tag = [tag EXCEPT ![t] = tag[t]] /\ Same(tag[t], tag[t])
         /\ on = [on EXCEPT ![c] = on[c]]
         /\ pass = [pass EXCEPT ![c] = pass[c]] /\ pass[c] \in Pass
         /\ \A place \in Places : [pass[c] EXCEPT !.then = place] \in Pass
         /\ on[c] \in Tags \cup {None}
         /\ on[c] = None <=> pc[c] = "idle"
         /\ owner \in [Tags -> Threads \cup {None}]
<1>1. /\ owner \in [Tags -> Threads \cup {None}]
      /\ on \in [Threads -> Tags \cup {None}]
      /\ pass \in [Threads -> Pass]
      /\ on[c] = None <=> pc[c] = "idle"
      /\ tag \in [Tags -> TagRecord]
  BY DEF IInv, BaseInv, MutexInv, Types, AtTag, TagTypes, Pass
<1>2. \A t \in Tags : tag = [tag EXCEPT ![t] = tag[t]] /\ Same(tag[t], tag[t])
  BY <1>1 DEF Same, Hears
<1>3. \A place \in Places : [pass[c] EXCEPT !.then = place] \in Pass
  BY <1>1 DEF Pass
<1>4. /\ on = [on EXCEPT ![c] = on[c]] /\ pass = [pass EXCEPT ![c] = pass[c]]
  BY <1>1
<1> QED BY <1>1, <1>2, <1>3, <1>4

LEMMA TakeStep ==
  ASSUME EventAssumption, IInv, NEW c \in Threads, pc[c] \notin Holding, NEW t \in Tags, Free(c, t),
         pc[c] = "idle" \/ on[c] = t,
         NEW r \in TagRecord,
         Grows(tag[t], r) \/ (Starting(tag[t], r) /\ (AutoRead /\ Single => Weighs(t))),
         NEW p \in Pass, p.tell = Outstanding(r), tag' = [tag EXCEPT ![t] = r],
         owner' = [owner EXCEPT ![t] = c], pc' = [pc EXCEPT ![c] = "deliver"],
         on' = [on EXCEPT ![c] = t], pass' = [pass EXCEPT ![c] = p], UNCHANGED <<balance, seen>>
  PROVE  BaseInv'
<1>1. MutexInv' /\ owner[t] = None
  BY TakeKeeps DEF IInv, BaseInv
<1>2. TagTypes'
  BY DEF IInv, BaseInv, TagTypes
<1>3. pc[c] \notin Telling
  BY DEF Telling, Holding
<1>4. tag[t] \in TagRecord
  BY DEF IInv, BaseInv, TagTypes
<1>5. Rises(tag[t], r)
  BY <1>4, StartingRises DEF Grows
<1>6. owner[t] \in {None, c}
  BY <1>1
<1>7. CreationInv'
  BY <1>1, <1>5, <1>6, TakeCreation DEF IInv, BaseInv
<1>8. ASSUME Single PROVE ToldInv'
  <2>1. MutexInv /\ TagTypes /\ CreationInv /\ ToldInv
    BY <1>8 DEF IInv, BaseInv
  <2>2. ASSUME ~AutoRead PROVE Weighs(t)
    BY <1>1, <2>1, <2>2, NoStart DEF Weighs, Unheard
  <2>3. Grows(tag[t], r) \/ (Starting(tag[t], r) /\ Weighs(t))
    BY <1>8, <2>2
  <2> QED BY <1>1, <1>3, <1>6, <2>1, <2>3, TakeTold
<1> QED BY <1>1, <1>2, <1>7, <1>8 DEF BaseInv, Single

LEMMA GiveStep ==
  ASSUME EventAssumption, IInv, NEW c \in Threads, NEW r, NEW place, NEW x, NEW p,
         pc[c] \in Holding, pc[c] # "peer", pc[c] \in Telling => pass[c].tell = {},
         Same(tag[on[c]], r), place \notin Holding, p \in Pass,
         x \in Tags \cup {None}, x \in {on[c], None}, x = None <=> place = "idle",
         tag' = [tag EXCEPT ![on[c]] = r], owner' = [owner EXCEPT ![on[c]] = None],
         pc' = [pc EXCEPT ![c] = place], on' = [on EXCEPT ![c] = x],
         pass' = [pass EXCEPT ![c] = p], UNCHANGED <<balance, seen>>
  PROVE  BaseInv' /\ SameWeight
<1>1. MutexInv'
  BY GiveKeeps DEF IInv, BaseInv
<1>2. TagTypes'
  BY DEF IInv, BaseInv, TagTypes, Same, Hears
<1>3. place \notin Telling
  BY DEF Telling, Holding
<1>4. None \in Threads \cup {None} /\ None \in {c, None} /\ r \in TagRecord
  BY DEF Same, Hears
<1>5. CreationInv' /\ SameWeight /\ (ToldInv => ToldInv')
  <2>1. MutexInv /\ TagTypes /\ CreationInv
    BY DEF IInv, BaseInv
  <2> QED BY <1>1, <1>3, <1>4, <2>1, GiveTold
<1> QED BY <1>1, <1>2, <1>5 DEF IInv, BaseInv, Single

-----------------------------------------------------------------------------
(* The tag tickler thread and the protocol *)

LEMMA FetchIInv ==
  ASSUME EventAssumption, IInv, NEW t \in Tags, Fetch(t)
  PROVE  BaseInv'
<1>1. /\ pc[TicklerThread] \notin Holding /\ pc[TicklerThread] # "events"
      /\ "tick" \notin Holding /\ "tick" # "idle"
  BY DEF Fetch, Holding
<1>2. /\ pc' = [pc EXCEPT ![TicklerThread] = "tick"] /\ on' = [on EXCEPT ![TicklerThread] = t]
      /\ UNCHANGED <<tag, owner, pass, balance, seen>>
  BY DEF Fetch, Goto, ghosts
<1>3. Aside(tag[t], tag[t]) /\ Rises(tag[t], tag[t]) /\ t # None /\ tag[t] \in TagRecord /\ TicklerThread \in Threads
  BY Here, SameAside, ThreadFacts
<1>4. /\ tag' = [tag EXCEPT ![t] = tag[t]]
      /\ pass[TicklerThread] \in Pass
      /\ pass' = [pass EXCEPT ![TicklerThread] = pass[TicklerThread]]
  BY <1>2, <1>3, Here
<1> QED BY <1>1, <1>2, <1>3, <1>4, MoveStep

LEMMA RespondIInv ==
  ASSUME EventAssumption, IInv, NEW t \in Tags, NEW reply \in {"good", "bad"}, Respond(t, reply)
  PROVE  BaseInv'
<1> DEFINE r == [tag[t] EXCEPT !.reply = reply]
<1>1. tag' = [tag EXCEPT ![t] = r] /\ UNCHANGED <<owner, pc, on, pass, balance, seen>>
  BY DEF Respond, ghosts
<1>2. tag[t] \in TagRecord
  BY DEF IInv, BaseInv, TagTypes
<1>3. Same(tag[t], r)
  BY <1>2, SameRecords, Zenon
<1>4. Aside(tag[t], r) /\ Rises(tag[t], r) /\ r \in TagRecord
  BY <1>2, <1>3, SameAside, Zenon DEF Same, Hears
<1> HIDE DEF r
<1> QED BY <1>1, <1>4, ThreadFacts, StayStep, Zenon

(* The generic tickler raises starts of automatic reads only. *)
LEMMA GenericTicklerFacts ==
  ASSUME EventAssumption, NEW t \in TagRecord, NEW due \in BOOLEAN
  PROVE  /\ GenericTickler(t, due) \in TagRecord /\ Rises(t, GenericTickler(t, due))
         /\ \/ Grows(t, GenericTickler(t, due))
            \/ AutoRead /\ Starting(t, GenericTickler(t, due))
<1> DEFINE idle    == Idle(t)
           clear   == ClearFlight(idle)
           aborted == [clear EXCEPT !.abortReq = FALSE]
           reading == [t EXCEPT !.rif = TRUE]
           started == Begin(reading, "read")
<1>1. idle \in TagRecord /\ Same(t, idle)
  BY SameRecords, Zenon DEF Same, Hears
<1> HIDE DEF idle
<1>2. clear \in TagRecord /\ Same(idle, clear)
  BY <1>1, SameRecords, Zenon DEF Same, Hears
<1> HIDE DEF clear
<1>3. aborted \in TagRecord /\ Same(clear, aborted)
  BY <1>2, SameRecords, Zenon DEF Same, Hears
<1> HIDE DEF aborted
<1>4. Same(t, aborted)
  BY <1>1, <1>2, <1>3 DEF Same, Hears
<1>5. "ABORTED" \in Range(Events) \ Starts /\ "READ_STARTED" \in Range(Events)
  BY EventNames
<1>6. Raise(aborted, "ABORTED") \in TagRecord /\ Grows(t, Raise(aborted, "ABORTED"))
  <2>1. Grows(t, aborted) /\ Grows(aborted, Raise(aborted, "ABORTED"))
    BY <1>3, <1>4, <1>5, SameGrows, RaiseGrows
  <2>2. Grows(t, Raise(aborted, "ABORTED"))
    BY <1>3, <2>1, GrowsOn, Zenon
  <2> QED BY <2>2 DEF Grows, Rises, Hears
<1>7. reading \in TagRecord /\ Same(t, reading)
  BY SameRecords, Zenon DEF Same, Hears
<1> HIDE DEF reading
<1>8. started \in TagRecord /\ Same(reading, started)
  BY <1>7, SameRecords, Zenon DEF Same, Hears
<1> HIDE DEF started
<1>9. ASSUME NEW u \in {reading, started}
      PROVE  Grows(t, Raise(u, "READ_STARTED")) \/ Starting(t, Raise(u, "READ_STARTED"))
  <2>1. u \in TagRecord /\ Same(t, u)
    BY <1>7, <1>8, <1>9 DEF Same, Hears
  <2>2. Same(u, Raise(u, "READ_STARTED")) \/ Starting(u, Raise(u, "READ_STARTED"))
    BY <2>1, StartRaised, EventNames
  <2>3. CASE Same(u, Raise(u, "READ_STARTED"))
    <3>1. Same(t, Raise(u, "READ_STARTED"))
      BY <2>1, <2>3 DEF Same, Hears
    <3> QED BY <3>1, SameGrows
  <2>4. CASE Starting(u, Raise(u, "READ_STARTED"))
    BY <2>1, <2>4 DEF Starting, Same, Hears
  <2> QED BY <2>2, <2>3, <2>4
<1>10. Grows(t, t)
  BY SameGrows DEF Same, Hears
<1>11. /\ t.abortReq => GenericTickler(t, due) = Raise(aborted, "ABORTED")
       /\ ~t.abortReq /\ AutoRead /\ due /\ ~t.rif /\ ~t.wif =>
            GenericTickler(t, due) = Raise(started, "READ_STARTED")
            \/ GenericTickler(t, due) = Raise(reading, "READ_STARTED")
       /\ ~t.abortReq /\ ~(AutoRead /\ due /\ ~t.rif /\ ~t.wif) => GenericTickler(t, due) = t
  BY DEF GenericTickler, aborted, clear, idle, started, reading
<1>12. \/ Grows(t, GenericTickler(t, due))
       \/ AutoRead /\ Starting(t, GenericTickler(t, due))
  BY <1>6, <1>9, <1>10, <1>11
<1>13. Rises(t, GenericTickler(t, due))
  BY <1>12, StartingRises DEF Grows
<1> QED BY <1>12, <1>13 DEF Rises

LEMMA TickIInv ==
  ASSUME EventAssumption, IInv, NEW due \in BOOLEAN, Tick(due)
  PROVE  BaseInv'
<1> DEFINE c == TicklerThread
           t == on[c]
           g == GenericTickler(tag[t], due)
           u == Tickle(g)
           v == [u EXCEPT !.rdone = FALSE, !.rif = FALSE]
           r == IF u.rdone THEN Raise(v, "READ_COMPLETED") ELSE u
           q == [r EXCEPT !.wdone = FALSE, !.wif = FALSE]
           w0 == IF u.wdone THEN Raise(q, "WRITE_COMPLETED") ELSE r
<1>1. pc[c] = "tick" /\ Free(c, t) /\ tag' = [tag EXCEPT ![t] = w0]
  BY DEF Tick, Block
<1>2. /\ pc' = [pc EXCEPT ![c] = "events"] /\ pass' = [pass EXCEPT ![c].then = "idle"]
      /\ UNCHANGED <<owner, on, balance, seen>>
  BY DEF Tick, Handle, Goto, Then, ghosts
<1>3. t \in Tags /\ tag[t] \in TagRecord /\ c \in Threads
  BY <1>1, Here, ThreadFacts
<1>4. "READ_COMPLETED" \in Range(Events) \ Starts /\ "WRITE_COMPLETED" \in Range(Events) \ Starts
  BY EventNames
<1>5. /\ g \in TagRecord /\ Rises(tag[t], g)
      /\ Grows(tag[t], g) \/ (AutoRead /\ Starting(tag[t], g))
  BY <1>3, GenericTicklerFacts
<1> HIDE DEF g
<1>6. Grows(g, u) /\ u \in TagRecord
  BY <1>5, TickleGrows, Zenon DEF Grows, Rises, Hears
<1> HIDE DEF u
<1>7. Same(u, v) /\ v \in TagRecord
  BY <1>6, SameRecords, Zenon DEF Same, Hears
<1> HIDE DEF v
<1>8. Grows(u, v) /\ Grows(v, Raise(v, "READ_COMPLETED")) /\ Grows(u, u)
  BY <1>4, <1>6, <1>7, SameGrows, RaiseGrows DEF Same, Hears
<1>9. Grows(u, r) /\ r \in TagRecord
  BY <1>6, <1>7, <1>8, GrowsOn, Zenon DEF Grows, Rises, Hears
<1> HIDE DEF r
<1>10. Same(r, q) /\ q \in TagRecord
  BY <1>9, SameRecords, Zenon DEF Same, Hears
<1> HIDE DEF q
<1>11. Grows(r, q) /\ Grows(q, Raise(q, "WRITE_COMPLETED")) /\ Grows(r, r)
  BY <1>4, <1>9, <1>10, SameGrows, RaiseGrows DEF Same, Hears
<1>12. Grows(r, w0) /\ w0 \in TagRecord
  BY <1>9, <1>10, <1>11, GrowsOn DEF Grows, Rises, Hears
<1> HIDE DEF w0
<1>13. Grows(g, w0)
  <2>1. Grows(u, w0)
    BY <1>6, <1>9, <1>12, GrowsOn
  <2> QED BY <1>5, <1>6, <2>1, GrowsOn
<1>14. /\ Grows(tag[t], w0) \/ Ticks(tag[t], w0)
       /\ Rises(tag[t], w0)
  <2>1. Grows(tag[t], w0) \/ Ticks(tag[t], w0)
    BY <1>3, <1>5, <1>13, GrowsOn DEF Ticks
  <2>2. Rises(tag[t], w0)
    BY <1>3, <1>5, <1>13, RisesOn DEF Grows
  <2> QED BY <2>1, <2>2
<1>15. /\ pass' = [pass EXCEPT ![c] = [pass[c] EXCEPT !.then = "idle"]]
       /\ [pass[c] EXCEPT !.then = "idle"] \in Pass
       /\ on' = [on EXCEPT ![c] = t] /\ t # None
  BY <1>1, <1>2, <1>3, Here, ThreadFacts DEF Places
<1>16. /\ "events" \notin Holding /\ "events" # "idle"
       /\ pc[c] \notin Holding /\ pc[c] # "events" /\ c = TicklerThread
  BY <1>1 DEF Holding
<1> HIDE DEF c, t
<1> QED BY <1>1, <1>2, <1>3, <1>12, <1>14, <1>15, <1>16, MoveStep, ZenonT(60)

LEMMA TickSkipIInv ==
  ASSUME EventAssumption, IInv, TickSkip
  PROVE  BaseInv'
<1> DEFINE c == TicklerThread
           t == on[c]
<1>1. /\ pc[c] = "tick" /\ pc' = [pc EXCEPT ![c] = "idle"] /\ on' = [on EXCEPT ![c] = None]
      /\ UNCHANGED <<tag, owner, pass, balance, seen>>
  BY DEF TickSkip, Goto, ghosts
<1>2. t \in Tags /\ tag[t] \in TagRecord /\ c \in Threads
  BY <1>1, Here, ThreadFacts
<1>3. Aside(tag[t], tag[t]) /\ Rises(tag[t], tag[t])
  BY <1>2, Here, SameAside
<1>4. pc[c] \notin Holding /\ pc[c] # "events" /\ "idle" \notin Holding
  BY <1>1 DEF Holding
<1>5. /\ tag' = [tag EXCEPT ![t] = tag[t]] /\ owner' = owner
      /\ pass' = [pass EXCEPT ![c] = pass[c]] /\ pass[c] \in Pass
  BY <1>1, <1>2, Here
<1> HIDE DEF c, t
<1> QED BY <1>1, <1>2, <1>3, <1>4, <1>5, MoveStep, ZenonT(60)

-----------------------------------------------------------------------------
(* plc_tag_generic_handle_event_callbacks() *)

LEMMA DeliverPass ==
  ASSUME NEW r \in TagRecord, NEW place \in Places
  PROVE  [tell |-> Outstanding(r), then |-> place] \in Pass
  BY DEF Outstanding, Pass, TagRecord

LEMMA EnterEventsIInv ==
  ASSUME EventAssumption, IInv, NEW c \in Threads, EnterEvents(c)
  PROVE  BaseInv'
<1> DEFINE t == on[c]
           r == tag[t]
           p == [tell |-> Outstanding(r), then |-> pass[c].then]
<1>1. /\ pc[c] = "events" /\ Free(c, t) /\ owner' = [owner EXCEPT ![t] = c]
      /\ pc' = [pc EXCEPT ![c] = "deliver"] /\ pass' = [pass EXCEPT ![c] = p]
      /\ UNCHANGED <<tag, on, balance, seen>>
  BY DEF EnterEvents, Deliver, Goto, ghosts
<1>2. t \in Tags /\ r \in TagRecord /\ pass[c].then \in Places
  BY <1>1, Here DEF Pass
<1>3. p \in Pass /\ p.tell = Outstanding(r)
  BY <1>2, DeliverPass
<1>4. tag' = [tag EXCEPT ![t] = r] /\ on' = [on EXCEPT ![c] = t] /\ Grows(r, r)
  BY <1>1, <1>2, Here, SameGrows
<1>5. pc[c] \notin Holding
  BY <1>1 DEF Holding
<1>6. r = tag[t] /\ t = on[c]
  OBVIOUS
<1> HIDE DEF t, r, p
<1> QED BY <1>1, <1>2, <1>3, <1>4, <1>5, <1>6, TakeStep

LEMMA CallbackIInv ==
  ASSUME EventAssumption, IInv, NEW c \in Threads, Callback(c)
  PROVE  BaseInv'
<1> DEFINE t == on[c]
           e == FirstOf(pass[c].tell)
           r == [tag[t] EXCEPT !.raised = @ \ {e}]
           p == [pass[c] EXCEPT !.tell = @ \ {e}]
<1>1. /\ pc[c] = "deliver" /\ pass[c].tell # {} /\ Tell(t, e)
      /\ tag' = [tag EXCEPT ![t].raised = @ \ {e}]
      /\ pass' = [pass EXCEPT ![c].tell = @ \ {e}] /\ UNCHANGED <<owner, pc, on>>
  BY DEF Callback, Told
<1>2. t \in Tags /\ tag[t] \in TagRecord /\ pass[c] \in Pass
  BY <1>1, Here
<1>3. /\ tag' = [tag EXCEPT ![t] = r] /\ pass' = [pass EXCEPT ![c] = p]
      /\ r \in TagRecord /\ p \in Pass
  BY <1>1, <1>2, ClearType DEF Pass
<1> HIDE DEF r, p, e, t
<1>5. MutexInv'
  <2>1. pc[c] \in Holding /\ pc[c] # "peer"
    BY <1>1 DEF Holding
  <2> QED BY <1>1, <1>3, <2>1, HoldKeeps DEF IInv, BaseInv
<1>6. TagTypes'
  BY <1>3 DEF IInv, BaseInv, TagTypes
<1>7. CreationInv' /\ (ToldInv => ToldInv')
  BY TellTold DEF IInv, BaseInv
<1> QED BY <1>5, <1>6, <1>7 DEF IInv, BaseInv, Single

LEMMA CallbackCallsIInv ==
  ASSUME EventAssumption, IInv, NEW c \in Threads, CallbackCalls(c)
  PROVE  BaseInv'
<1> DEFINE t == on[c]
           e == FirstOf(pass[c].tell)
           r == tag[t]
<1>1. /\ pc[c] = "deliver" /\ pass[c].tell # {} /\ Tell(t, e) /\ Peer[t] # None
      /\ pc' = [pc EXCEPT ![c] = "peer"] /\ UNCHANGED <<tag, owner, on, pass>>
  BY DEF CallbackCalls, Goto
<1>2. t \in Tags /\ r \in TagRecord /\ pass[c] \in Pass
  BY <1>1, Here
<1>3. tag' = [tag EXCEPT ![t] = r] /\ pass' = [pass EXCEPT ![c] = pass[c]]
  BY <1>1, <1>2, Here
<1>4. MutexInv'
  <2>1. pc[c] \in Holding /\ "peer" \in Holding
    BY <1>1 DEF Holding
  <2> QED BY <1>1, <1>2, <1>3, <2>1, HoldKeeps DEF IInv, BaseInv
<1>5. TagTypes'
  BY <1>1 DEF IInv, BaseInv, TagTypes
<1>6. CreationInv' /\ (ToldInv => ToldInv')
  BY TellTold DEF IInv, BaseInv
<1> QED BY <1>4, <1>5, <1>6 DEF IInv, BaseInv, Single

LEMMA CallbackReturnsIInv ==
  ASSUME EventAssumption, IInv, NEW c \in Threads, CallbackReturns(c)
  PROVE  BaseInv'
<1> DEFINE t == on[c]
           e == FirstOf(pass[c].tell)
           r == [tag[t] EXCEPT !.raised = @ \ {e}]
           p == [pass[c] EXCEPT !.tell = @ \ {e}]
<1>1. /\ pc[c] = "peer" /\ tag' = [tag EXCEPT ![t].raised = @ \ {e}]
      /\ pass' = [pass EXCEPT ![c].tell = @ \ {e}] /\ pc' = [pc EXCEPT ![c] = "deliver"]
      /\ UNCHANGED <<owner, on, balance, seen>>
  BY DEF CallbackReturns, Told, Goto, ghosts
<1>2. t \in Tags /\ tag[t] \in TagRecord /\ pass[c] \in Pass
  BY <1>1, Here
<1>3. /\ tag' = [tag EXCEPT ![t] = r] /\ pass' = [pass EXCEPT ![c] = p]
      /\ r \in TagRecord /\ p \in Pass
  BY <1>1, <1>2, ClearType DEF Pass
<1> HIDE DEF r, p, e, t
<1>5. MutexInv'
  <2>1. pc[c] \in Holding /\ "deliver" \in Holding
    BY <1>1 DEF Holding
  <2> QED BY <1>1, <1>3, <2>1, HoldKeeps DEF IInv, BaseInv
<1>6. TagTypes'
  BY <1>3 DEF IInv, BaseInv, TagTypes
<1>7. CreationInv' /\ (ToldInv => ToldInv')
  BY ReturnTold DEF IInv, BaseInv
<1> QED BY <1>5, <1>6, <1>7 DEF IInv, BaseInv, Single

LEMMA LeaveEventsIInv ==
  ASSUME EventAssumption, IInv, NEW c \in Threads, LeaveEvents(c)
  PROVE  BaseInv' /\ SameWeight
<1> DEFINE t     == on[c]
           place == pass[c].then
           p     == [pass[c] EXCEPT !.then = "idle"]
           x     == IF place = "idle" THEN None ELSE t
<1>1. /\ pc[c] = "deliver" /\ pass[c].tell = {}
      /\ owner' = IF place \in {"read", "write"} THEN owner ELSE [owner EXCEPT ![t] = None]
      /\ pc' = [pc EXCEPT ![c] = place] /\ pass' = [pass EXCEPT ![c].then = "idle"]
      /\ on' = IF place = "idle" THEN [on EXCEPT ![c] = None] ELSE on
      /\ UNCHANGED <<tag, balance, seen>>
  BY DEF LeaveEvents, Goto, Then, ghosts
<1>2. t \in Tags /\ tag[t] \in TagRecord /\ pass[c] \in Pass
  BY <1>1, Here
<1>3. /\ pass' = [pass EXCEPT ![c] = p] /\ p \in Pass /\ on' = [on EXCEPT ![c] = x]
      /\ tag' = [tag EXCEPT ![t] = tag[t]] /\ Same(tag[t], tag[t])
  BY <1>1, <1>2, Here DEF Places
<1>4. pc[c] \in Holding /\ pc[c] # "peer" /\ place \in Places /\ place \notin Telling
  BY <1>1, <1>2 DEF Holding, Pass, Places, Telling
<1> HIDE DEF p, place
<1>5. CASE place \in {"read", "write"}
  <2>1. place \in Holding /\ place # "idle" /\ place # "peer" /\ x = t
    BY <1>5 DEF Holding
  <2>2. owner[t] = c
    BY <1>4 DEF IInv, BaseInv, MutexInv, HolderOwns
  <2>3. owner' = owner /\ on' = on
    BY <1>1, <1>5, <2>1, <2>2, Here
  <2>4. MutexInv'
    BY <1>1, <1>3, <1>4, <2>1, <2>3, HoldKeeps DEF IInv, BaseInv
  <2>5. TagTypes'
    BY <1>1 DEF IInv, BaseInv, TagTypes
  <2>6. CreationInv' /\ SameWeight /\ (ToldInv => ToldInv')
    <3>1. MutexInv /\ TagTypes /\ CreationInv
      BY DEF IInv, BaseInv
    <3>2. /\ t = on[c] /\ UNCHANGED <<balance, seen>> /\ pc' = [pc EXCEPT ![c] = place]
          /\ pc[c] \in Telling => pass[c].tell = {}
      BY <1>1
    <3>3. /\ owner' = [owner EXCEPT ![t] = c] /\ c \in {c, None} /\ c \in Threads \cup {None}
          /\ x \in Tags \cup {None}
      BY <1>2, <2>1, <2>2, <2>3, Here
    <3> HIDE DEF x, t
    <3> QED BY <1>3, <1>4, <2>4, <3>1, <3>2, <3>3, GiveTold
  <2> QED BY <2>4, <2>5, <2>6 DEF IInv, BaseInv, Single
<1>6. CASE place \notin {"read", "write"}
  <2>1. place \notin Holding
    BY <1>4, <1>6 DEF Holding, Telling
  <2>2. x \in Tags \cup {None} /\ x \in {on[c], None} /\ (x = None <=> place = "idle")
    BY <1>2, ThreadFacts
  <2>3. owner' = [owner EXCEPT ![on[c]] = None] /\ tag' = [tag EXCEPT ![on[c]] = tag[on[c]]]
    BY <1>1, <1>3, <1>6
  <2>4. pc[c] \in Telling => pass[c].tell = {}
    BY <1>1
  <2>5. Same(tag[on[c]], tag[on[c]]) /\ UNCHANGED <<balance, seen>>
    BY <1>1, <1>3
  <2> HIDE DEF x
  <2> QED BY <1>1, <1>3, <1>4, <2>1, <2>2, <2>3, <2>4, <2>5, GiveStep
<1> QED BY <1>5, <1>6

-----------------------------------------------------------------------------
(* The API functions *)

(* A thread without a mutex goes on at its tag. *)
LEMMA GoStep ==
  ASSUME EventAssumption, IInv, NEW c \in Threads, NEW r, NEW place, NEW then,
         pc[c] \notin Holding \cup {"idle", "events"}, place \notin Holding, place # "idle",
         r \in TagRecord, Aside(tag[on[c]], r) \/ (Free(c, on[c]) /\ Grows(tag[on[c]], r)),
         tag' = [tag EXCEPT ![on[c]] = r], Goto(c, place),
         pass' = pass \/ (then \in Places /\ Then(c, then)), UNCHANGED <<owner, on, balance, seen>>
  PROVE  BaseInv'
<1> DEFINE t == on[c]
           p == IF pass' = pass THEN pass[c] ELSE [pass[c] EXCEPT !.then = then]
<1>1. t \in Tags /\ t # None /\ on' = [on EXCEPT ![c] = t]
  BY Here, ThreadFacts
<1>2. p \in Pass /\ pass' = [pass EXCEPT ![c] = p]
  BY Here DEF Then
<1>3. pc' = [pc EXCEPT ![c] = place]
  BY DEF Goto
<1>4. /\ Aside(tag[t], r) \/ (Free(c, t) /\ Grows(tag[t], r))
      /\ Rises(tag[t], r) /\ pc[c] \notin Holding /\ pc[c] # "events"
  BY DEF Aside, Grows
<1>5. tag' = [tag EXCEPT ![t] = r] /\ owner' = owner
  OBVIOUS
<1> HIDE DEF t, p
<1> QED BY <1>1, <1>2, <1>3, <1>4, <1>5, MoveStep, ZenonT(60)

LEMMA CreatedAside ==
  ASSUME NEW u \in TagRecord, NEW r, r = Raise(u, "CREATED")
  PROVE  Aside(u, r) /\ r \in TagRecord /\ Rises(u, r)
<1>1. "CREATED" \in Range(Events) \ Starts /\ "CREATED" \notin Range(Ends)
  BY EventNames
<1>2. Grows(u, r)
  BY <1>1, RaiseGrows
<1>3. r.raised \subseteq u.raised \cup {"CREATED"} /\ r.enabled = u.enabled
  <2>1. CASE ~u.callback
    BY <2>1 DEF Raise
  <2>2. CASE u.callback
    <3>1. /\ r.raised \subseteq u.raised \cup {"CREATED"}
          /\ r.enabled = u.enabled \ {"CREATED"}
      BY <1>1, <2>2 DEF Raise, TagRecord
    <3> QED BY <1>1, <3>1 DEF TagRecord
  <2> QED BY <2>1, <2>2 DEF TagRecord
<1> QED BY <1>2, <1>3 DEF Aside, Grows, Rises

LEMMA CreateEndIInv ==
  ASSUME EventAssumption, IInv, NEW c \in Threads, CreateEnd(c)
  PROVE  BaseInv'
<1> DEFINE t == on[c]
           u == [tag[t] EXCEPT !.rif = FALSE, !.wif = FALSE]
           r == Raise(u, "CREATED")
           i == Idle(tag[t])
           s == [i EXCEPT !.gone = TRUE]
<1>1. /\ pc[c] = "create" /\ UNCHANGED <<owner, balance, seen>>
      /\ \/ /\ tag' = [tag EXCEPT ![t] = r] /\ Goto(c, "events") /\ Then(c, "idle") /\ on' = on
         \/ /\ tag' = [tag EXCEPT ![t] = s] /\ Goto(c, "idle")
            /\ on' = [on EXCEPT ![c] = None] /\ pass' = pass
  BY DEF CreateEnd, Handle, ghosts
<1>2. t \in Tags /\ tag[t] \in TagRecord
  BY <1>1, Here
<1>3. Same(tag[t], u) /\ u \in TagRecord /\ Same(tag[t], i) /\ i \in TagRecord
  BY <1>2, SameRecords, Zenon DEF Same, Hears
<1> HIDE DEF u, i
<1>4. Same(i, s) /\ s \in TagRecord
  BY <1>3, SameRecords, Zenon DEF Same, Hears
<1>5. Aside(tag[t], s) /\ Rises(tag[t], s)
  <2>1. Same(tag[t], s)
    BY <1>3, <1>4 DEF Same, Hears
  <2> QED BY <1>2, <2>1, SameAside
<1>6. Aside(tag[t], r) /\ r \in TagRecord
  <2>1. Aside(u, r) /\ r \in TagRecord /\ Grows(tag[t], u) /\ Grows(u, r)
    BY <1>2, <1>3, CreatedAside, SameGrows DEF Aside
  <2>2. Grows(tag[t], r)
    BY <1>2, <2>1, GrowsOn
  <2> QED BY <1>3, <2>1, <2>2 DEF Aside, Same
<1> HIDE DEF r, s
<1>7. /\ pc[c] \notin Holding \cup {"idle", "events"} /\ pc[c] \notin Holding /\ pc[c] # "events"
      /\ "events" \notin Holding /\ "idle" \notin Holding
  BY <1>1 DEF Holding
<1>8. CASE tag' = [tag EXCEPT ![t] = r] /\ Goto(c, "events") /\ Then(c, "idle") /\ on' = on
  <2>1. "idle" \in Places /\ UNCHANGED <<owner, on, balance, seen>> /\ "events" # "idle"
    BY <1>1, <1>8 DEF Places
  <2>2. Aside(tag[on[c]], r) /\ tag' = [tag EXCEPT ![on[c]] = r]
    BY <1>6, <1>8
  <2> QED BY <1>6, <1>7, <1>8, <2>1, <2>2, GoStep
<1>9. CASE /\ tag' = [tag EXCEPT ![t] = s] /\ Goto(c, "idle")
           /\ on' = [on EXCEPT ![c] = None] /\ pass' = pass
  <2>1. /\ pc' = [pc EXCEPT ![c] = "idle"] /\ pass[c] \in Pass
        /\ pass' = [pass EXCEPT ![c] = pass[c]] /\ owner' = owner /\ UNCHANGED <<balance, seen>>
    BY <1>1, <1>9, Here DEF Goto
  <2> HIDE DEF t
  <2> QED BY <1>2, <1>4, <1>5, <1>7, <1>9, <2>1, MoveStep
<1> QED BY <1>1, <1>8, <1>9

(* The start is raised and told of under the mutex. *)
LEMMA StartStep ==
  ASSUME EventAssumption, IInv, NEW c \in Threads, NEW t \in Tags, NEW u, NEW e, NEW place,
         pc[c] = "idle", u \in TagRecord, Same(tag[t], u), e \in Starts, place \in Places,
         AutoRead /\ Single => Weighs(t),
         Block(c, t, Raise(u, e)), owner' = [owner EXCEPT ![t] = c],
         Deliver(c, Raise(u, e), place), on' = [on EXCEPT ![c] = t], UNCHANGED <<balance, seen>>
  PROVE  BaseInv'
<1> DEFINE r == Raise(u, e)
           p == [tell |-> Outstanding(r), then |-> place]
<1>1. /\ Free(c, t) /\ tag' = [tag EXCEPT ![t] = r] /\ pc' = [pc EXCEPT ![c] = "deliver"]
      /\ pass' = [pass EXCEPT ![c] = p]
  BY DEF Block, Deliver, Goto
<1>2. tag[t] \in TagRecord /\ e \in Range(Events)
  BY EventNames DEF IInv, BaseInv, TagTypes
<1>3. r \in TagRecord
  BY <1>2, RaiseType
<1>4. p \in Pass /\ p.tell = Outstanding(r)
  BY <1>3, DeliverPass
<1>5. Grows(tag[t], r) \/ Starting(tag[t], r)
  <2>1. Same(u, r) \/ Starting(u, r)
    BY StartRaised
  <2>2. CASE Same(u, r)
    <3>1. Same(tag[t], r)
      BY <2>2 DEF Same, Hears
    <3> QED BY <1>2, <3>1, SameGrows
  <2>3. CASE Starting(u, r)
    BY <2>3 DEF Starting, Same, Hears
  <2> QED BY <2>1, <2>2, <2>3
<1>6. pc[c] \notin Holding
  BY DEF Holding
<1> HIDE DEF r, p
<1> QED BY <1>1, <1>3, <1>4, <1>5, <1>6, TakeStep

(* What is known of a tag while the calls are not used up: with automatic  *)
(* reads the next call is the first one.                                   *)
LEMMA FirstCall ==
  ASSUME EventAssumption, IInv, AutoRead, Single, calls < MaxCalls, NEW t \in Tags
  PROVE  Uncalled /\ tag[t].callback /\ Weighs(t)
<1>1. calls \in Nat /\ (calls = 0 => Uncalled) /\ MaxCalls \in Nat /\ MaxCalls <= 1
  BY DEF IInv, CallInv, Single, EventAssumption
<1>2. Uncalled
  BY <1>1
<1>3. \A e \in Starts : e = "READ_STARTED" \/ e = "WRITE_STARTED"
  BY EventNames
<1> QED BY <1>2, <1>3 DEF Uncalled, Calm, Weighs

LEMMA ReadIInv ==
  ASSUME EventAssumption, IInv, NEW c \in Clients, NEW t \in Tags, Read(c, t)
  PROVE  BaseInv'
<1>1. /\ pc[c] = "idle" /\ Block(c, t, Raise(tag[t], "READ_STARTED"))
      /\ owner' = [owner EXCEPT ![t] = c] /\ Deliver(c, Raise(tag[t], "READ_STARTED"), "read")
      /\ on' = [on EXCEPT ![c] = t] /\ UNCHANGED <<balance, seen>> /\ calls < MaxCalls
  BY DEF Read, Enter, CanCall, ghosts
<1>2. tag[t] \in TagRecord /\ Same(tag[t], tag[t]) /\ c \in Threads
  BY Here, ThreadFacts DEF IInv, BaseInv, TagTypes, Same, Hears
<1>3. "READ_STARTED" \in Starts /\ "read" \in Places
  BY EventNames DEF Places
<1>4. AutoRead /\ Single => Weighs(t)
  BY <1>1, FirstCall
<1> QED BY <1>1, <1>2, <1>3, <1>4, StartStep

(* A refused read is told of as aborted, still under the mutex. *)
LEMMA ReadStartIInv ==
  ASSUME EventAssumption, IInv, NEW c \in Threads, NEW sync \in BOOLEAN, NEW b \in BOOLEAN,
         ReadStart(c, sync, b)
  PROVE  BaseInv'
<1> DEFINE t       == on[c]
           reading == [tag[t] EXCEPT !.rif = TRUE]
           started == Begin(reading, "read")
           idle    == Idle(tag[t])
           clear   == ClearFlight(idle)
           aborted == [clear EXCEPT !.abortReq = TRUE]
           refused == Raise(aborted, "ABORTED")
           q       == [tell |-> Outstanding(refused), then |-> "events"]
<1>1. /\ pc[c] = "read" /\ UNCHANGED <<on, balance, seen>>
      /\ \/ /\ Handle(c, "idle") /\ owner' = [owner EXCEPT ![t] = None] /\ tag' = tag
         \/ /\ tag' = [tag EXCEPT ![t] = started] /\ owner' = [owner EXCEPT ![t] = None]
            /\ (Goto(c, "wait") /\ pass' = pass) \/ Handle(c, "idle")
         \/ /\ tag' = [tag EXCEPT ![t] = refused] /\ owner' = owner
            /\ Deliver(c, refused, "events")
  BY DEF ReadStart
<1>2. /\ t \in Tags /\ tag[t] \in TagRecord
      /\ pc[c] \in Holding /\ pc[c] # "peer" /\ pc[c] \notin Telling
  BY <1>1, Here, Zenon DEF Holding, Telling
<1>3. reading \in TagRecord /\ Same(tag[t], reading) /\ idle \in TagRecord /\ Same(tag[t], idle)
  BY <1>2, SameRecords, Zenon DEF Same, Hears
<1> HIDE DEF reading, idle
<1>4. started \in TagRecord /\ Same(reading, started) /\ clear \in TagRecord /\ Same(idle, clear)
  BY <1>3, SameRecords, Zenon DEF Same, Hears
<1> HIDE DEF started, clear
<1>5. aborted \in TagRecord /\ Same(clear, aborted)
  BY <1>4, SameRecords, Zenon DEF Same, Hears
<1> HIDE DEF aborted
<1>6. Same(tag[t], started) /\ Same(tag[t], aborted) /\ Same(tag[t], tag[t])
  BY <1>2, <1>3, <1>4, <1>5 DEF Same, Hears
<1>7. refused \in TagRecord /\ Grows(tag[t], refused)
  <2>1. "ABORTED" \in Range(Events) \ Starts
    BY EventNames
  <2>2. Grows(tag[t], aborted) /\ Grows(aborted, refused)
    BY <1>2, <1>5, <1>6, <2>1, SameGrows, RaiseGrows
  <2>3. Grows(tag[t], refused)
    BY <1>2, <1>5, <2>2, GrowsOn
  <2> QED BY <2>3 DEF Grows, Rises, Hears
<1> HIDE DEF refused
<1>8. CASE \/ /\ Handle(c, "idle") /\ owner' = [owner EXCEPT ![t] = None] /\ tag' = tag
           \/ /\ tag' = [tag EXCEPT ![t] = started] /\ owner' = [owner EXCEPT ![t] = None]
              /\ (Goto(c, "wait") /\ pass' = pass) \/ Handle(c, "idle")
  <2> DEFINE r     == IF tag' = tag THEN tag[t] ELSE started
             place == IF Handle(c, "idle") THEN "events" ELSE "wait"
             p     == IF Handle(c, "idle") THEN [pass[c] EXCEPT !.then = "idle"] ELSE pass[c]
  <2>1. owner' = [owner EXCEPT ![on[c]] = None] /\ on' = [on EXCEPT ![c] = on[c]]
    BY <1>1, <1>2, <1>8, Here
  <2>2. tag' = [tag EXCEPT ![on[c]] = r] /\ Same(tag[on[c]], r)
    BY <1>2, <1>6, <1>8, Here
  <2>3. pc' = [pc EXCEPT ![c] = place] /\ place \notin Holding /\ place # "idle"
    BY <1>8 DEF Handle, Goto, Holding
  <2>4. pass' = [pass EXCEPT ![c] = p] /\ p \in Pass
    BY <1>8, Here DEF Handle, Then, Places
  <2>5. on[c] \in Tags \cup {None} /\ on[c] \in {on[c], None} /\ on[c] # None
    BY <1>2, ThreadFacts
  <2> HIDE DEF r, place, p
  <2> QED BY <1>1, <1>2, <2>1, <2>2, <2>3, <2>4, <2>5, GiveStep
<1>9. CASE /\ tag' = [tag EXCEPT ![t] = refused] /\ owner' = owner
           /\ Deliver(c, refused, "events")
  <2>1. pc' = [pc EXCEPT ![c] = "deliver"] /\ pass' = [pass EXCEPT ![c] = q]
    BY <1>9 DEF Deliver, Goto
  <2>2. q \in Pass /\ q.tell = Outstanding(refused)
    BY <1>7, DeliverPass DEF Places
  <2> HIDE DEF q
  <2>3. MutexInv'
    <3>1. "deliver" \in Holding /\ "deliver" # "peer" /\ UNCHANGED <<owner, on>>
      BY <1>1, <1>9 DEF Holding
    <3> QED BY <1>2, <2>1, <2>2, <3>1, HoldKeeps DEF IInv, BaseInv
  <2>4. TagTypes'
    BY <1>7, <1>9 DEF IInv, BaseInv, TagTypes
  <2>5. CreationInv' /\ (Single => ToldInv')
    <3>1. MutexInv /\ TagTypes /\ CreationInv /\ (Single => ToldInv)
      BY DEF IInv, BaseInv
    <3>2. owner[t] = c
      BY <1>2, <3>1 DEF MutexInv, HolderOwns
    <3>3. owner[t] \in {None, c} /\ owner' = [owner EXCEPT ![t] = c] /\ on' = [on EXCEPT ![c] = t]
      BY <1>1, <1>2, <1>9, <3>2, Here
    <3>4. on[c] = t /\ Rises(tag[t], refused) /\ UNCHANGED <<balance, seen>>
      BY <1>1, <1>7 DEF Grows
    <3> HIDE DEF t
    <3>5. CreationInv'
      BY <1>2, <1>7, <1>9, <2>1, <2>2, <2>3, <3>1, <3>3, <3>4, TakeCreation
    <3>6. ToldInv => ToldInv'
      BY <1>2, <1>7, <1>9, <2>1, <2>2, <2>3, <3>1, <3>3, <3>4, TakeTold
    <3> QED BY <3>1, <3>5, <3>6
  <2> QED BY <2>3, <2>4, <2>5 DEF IInv, BaseInv, Single
<1> QED BY <1>1, <1>8, <1>9

LEMMA WriteIInv ==
  ASSUME EventAssumption, IInv, NEW c \in Clients, NEW t \in Tags, Write(c, t)
  PROVE  BaseInv'
<1> DEFINE u == [tag[t] EXCEPT !.wif = TRUE]
<1>1. /\ pc[c] = "idle" /\ on' = [on EXCEPT ![c] = t] /\ UNCHANGED <<balance, seen>>
      /\ calls < MaxCalls
      /\ \/ Goto(c, "written") /\ UNCHANGED <<tag, owner, pass>>
         \/ /\ Block(c, t, Raise(u, "WRITE_STARTED")) /\ owner' = [owner EXCEPT ![t] = c]
            /\ Deliver(c, Raise(u, "WRITE_STARTED"), "write")
  BY DEF Write, Enter, CanCall, ghosts
<1>2. tag[t] \in TagRecord /\ c \in Threads /\ t # None
  BY Here, ThreadFacts, Zenon DEF IInv, BaseInv, TagTypes
<1>3. /\ u \in TagRecord /\ Same(tag[t], u)
      /\ Aside(tag[t], tag[t]) /\ Rises(tag[t], tag[t])
  BY <1>2, SameRecords, SameAside, Zenon DEF Same, Hears
<1> HIDE DEF u
<1>4. "WRITE_STARTED" \in Starts /\ "write" \in Places
  BY EventNames DEF Places
<1>5. CASE Goto(c, "written") /\ UNCHANGED <<tag, owner, pass>>
  <2>1. /\ pc[c] \notin Holding /\ pc[c] # "events"
        /\ "written" \notin Holding /\ "written" # "idle"
    BY <1>1 DEF Holding
  <2>2. /\ pc' = [pc EXCEPT ![c] = "written"] /\ pass' = [pass EXCEPT ![c] = pass[c]]
        /\ pass[c] \in Pass /\ tag' = [tag EXCEPT ![t] = tag[t]] /\ owner' = owner
    BY <1>2, <1>5, Here DEF Goto
  <2> QED BY <1>1, <1>2, <1>3, <2>1, <2>2, MoveStep
<1>6. CASE /\ Block(c, t, Raise(u, "WRITE_STARTED")) /\ owner' = [owner EXCEPT ![t] = c]
           /\ Deliver(c, Raise(u, "WRITE_STARTED"), "write")
  <2>1. AutoRead /\ Single => Weighs(t)
    BY <1>1, FirstCall
  <2> QED BY <1>1, <1>2, <1>3, <1>4, <1>6, <2>1, StartStep
<1> QED BY <1>1, <1>5, <1>6

LEMMA WriteStartIInv ==
  ASSUME EventAssumption, IInv, NEW c \in Threads, NEW sync \in BOOLEAN, NEW b \in BOOLEAN,
         WriteStart(c, sync, b)
  PROVE  BaseInv'
<1> DEFINE t       == on[c]
           started == Begin(tag[t], "write")
           idle    == Idle(tag[t])
           given   == [idle EXCEPT !.wif = FALSE]
           r       == IF tag' = [tag EXCEPT ![t] = started] THEN started ELSE given
           place   == IF Handle(c, "idle") THEN "events"
                      ELSE IF Goto(c, "wait") THEN "wait" ELSE "written"
           p       == IF Handle(c, "idle") THEN [pass[c] EXCEPT !.then = "idle"] ELSE pass[c]
<1>1. /\ pc[c] = "write" /\ UNCHANGED <<on, balance, seen>>
      /\ owner' = [owner EXCEPT ![t] = None]
      /\ \/ /\ tag' = [tag EXCEPT ![t] = started]
            /\ (Goto(c, "wait") /\ pass' = pass) \/ Handle(c, "idle")
         \/ tag' = [tag EXCEPT ![t] = given] /\ Goto(c, "written") /\ pass' = pass
  BY DEF WriteStart
<1>2. /\ t \in Tags /\ tag[t] \in TagRecord
      /\ pc[c] \in Holding /\ pc[c] # "peer" /\ pc[c] \notin Telling
  BY <1>1, Here DEF Holding, Telling
<1>3. started \in TagRecord /\ Same(tag[t], started) /\ idle \in TagRecord /\ Same(tag[t], idle)
  BY <1>2, SameRecords, Zenon DEF Same, Hears
<1> HIDE DEF started, idle
<1>4. given \in TagRecord /\ Same(idle, given)
  BY <1>3, SameRecords, Zenon DEF Same, Hears
<1> HIDE DEF given
<1>5. Same(tag[t], given)
  BY <1>3, <1>4 DEF Same, Hears
<1>6. tag' = [tag EXCEPT ![on[c]] = r] /\ Same(tag[on[c]], r)
  BY <1>1, <1>3, <1>5
<1>7. pc' = [pc EXCEPT ![c] = place] /\ place \notin Holding /\ place # "idle"
  BY <1>1 DEF Handle, Goto, Holding
<1>8. pass' = [pass EXCEPT ![c] = p] /\ p \in Pass
  BY <1>1, Here DEF Handle, Then, Places
<1>9. /\ on[c] \in Tags \cup {None} /\ on[c] \in {on[c], None} /\ on[c] # None
      /\ on' = [on EXCEPT ![c] = on[c]] /\ owner' = [owner EXCEPT ![on[c]] = None]
  BY <1>1, <1>2, ThreadFacts, Here
<1> HIDE DEF r, place, p
<1> QED BY <1>1, <1>2, <1>6, <1>7, <1>8, <1>9, GiveStep

LEMMA WaitIInv ==
  ASSUME EventAssumption, IInv, NEW c \in Threads, Wake(c) \/ WaitTimeout(c)
  PROVE  BaseInv'
<1>1. /\ pc[c] = "wait" /\ UNCHANGED <<tag, owner, on, balance, seen>>
      /\ \/ Goto(c, "check") /\ pass' = pass
         \/ Goto(c, "flag") /\ Then(c, "end")
  BY DEF Wake, WaitTimeout, ghosts
<1>2. on[c] \in Tags /\ tag[on[c]] \in TagRecord
  BY <1>1, Here
<1>3. Aside(tag[on[c]], tag[on[c]]) /\ tag' = [tag EXCEPT ![on[c]] = tag[on[c]]]
  BY <1>1, <1>2, Here, SameAside
<1>4. /\ pc[c] \notin Holding \cup {"idle", "events"} /\ "end" \in Places
      /\ "check" \notin Holding /\ "flag" \notin Holding /\ "check" # "idle" /\ "flag" # "idle"
  BY <1>1 DEF Holding, Places
<1> QED BY <1>1, <1>2, <1>3, <1>4, GoStep

LEMMA CheckIInv ==
  ASSUME EventAssumption, IInv, NEW c \in Threads, Check(c)
  PROVE  BaseInv'
<1> DEFINE u == Tickle(tag[on[c]])
<1>1. /\ pc[c] = "check" /\ Free(c, on[c]) /\ tag' = [tag EXCEPT ![on[c]] = u]
      /\ UNCHANGED <<owner, on, balance, seen>>
      /\ \/ Goto(c, "wait") /\ pass' = pass
         \/ Goto(c, "end") /\ pass' = pass
         \/ Goto(c, "flag") /\ Then(c, "end")
  BY DEF Check, Block, ghosts
<1>2. on[c] \in Tags /\ tag[on[c]] \in TagRecord
  BY <1>1, Here
<1>3. Grows(tag[on[c]], u) /\ u \in TagRecord
  BY <1>2, TickleGrows DEF Grows, Rises, Hears
<1>4. /\ pc[c] \notin Holding \cup {"idle", "events"} /\ "end" \in Places
      /\ "wait" \notin Holding /\ "end" \notin Holding /\ "flag" \notin Holding
      /\ "wait" # "idle" /\ "end" # "idle" /\ "flag" # "idle"
  BY <1>1 DEF Holding, Places
<1> HIDE DEF u
<1> QED BY <1>1, <1>2, <1>3, <1>4, GoStep

(* A block that raises an event other than a start, and the events next *)
LEMMA RaiseStep ==
  ASSUME EventAssumption, IInv, NEW c \in Threads, NEW u, NEW e,
         pc[c] \notin Holding \cup {"idle", "events"}, u \in TagRecord, Same(tag[on[c]], u),
         e \in Range(Events) \ Starts, Block(c, on[c], Raise(u, e)), Goto(c, "events"),
         pass' = pass \/ Then(c, "idle"), UNCHANGED <<owner, on, balance, seen>>
  PROVE  BaseInv'
<1> DEFINE r == Raise(u, e)
<1>1. Free(c, on[c]) /\ tag' = [tag EXCEPT ![on[c]] = r]
  BY DEF Block
<1>2. on[c] \in Tags /\ tag[on[c]] \in TagRecord
  BY Here
<1>3. Grows(tag[on[c]], u) /\ Grows(u, r)
  BY <1>2, SameGrows, RaiseGrows
<1>4. Grows(tag[on[c]], r) /\ r \in TagRecord
  BY <1>2, <1>3, GrowsOn DEF Grows, Rises, Hears
<1>5. "events" \notin Holding /\ "events" # "idle" /\ "idle" \in Places
  BY DEF Holding, Places
<1> HIDE DEF r
<1> QED BY <1>1, <1>4, <1>5, GoStep

LEMMA EndIInv ==
  ASSUME EventAssumption, IInv, NEW c \in Threads, End(c)
  PROVE  BaseInv'
<1> DEFINE u == [tag[on[c]] EXCEPT !.rif = FALSE, !.rdone = FALSE]
           r == [tag[on[c]] EXCEPT !.wif = FALSE, !.wdone = FALSE]
<1>1. /\ pc[c] = "end" /\ UNCHANGED <<owner, on, balance, seen>>
      /\ \/ Block(c, on[c], Raise(u, "READ_COMPLETED")) /\ Goto(c, "events") /\ Then(c, "idle")
         \/ Free(c, on[c]) /\ tag' = [tag EXCEPT ![on[c]] = r] /\ Goto(c, "written") /\ pass' = pass
  BY DEF End, Block, Handle, ghosts
<1>2. on[c] \in Tags /\ tag[on[c]] \in TagRecord
  BY <1>1, Here, Zenon
<1>3. Same(tag[on[c]], u) /\ u \in TagRecord /\ Same(tag[on[c]], r) /\ r \in TagRecord
  BY <1>2, SameRecords, Zenon DEF Same, Hears
<1>4. Aside(tag[on[c]], r)
  BY <1>2, <1>3, SameAside
<1> HIDE DEF u, r
<1>5. /\ pc[c] \notin Holding \cup {"idle", "events"} /\ "written" \notin Holding /\ "written" # "idle"
      /\ "READ_COMPLETED" \in Range(Events) \ Starts
  BY <1>1, EventNames DEF Holding
<1>6. CASE Block(c, on[c], Raise(u, "READ_COMPLETED")) /\ Goto(c, "events") /\ Then(c, "idle")
  BY <1>1, <1>3, <1>5, <1>6, RaiseStep
<1>7. CASE Free(c, on[c]) /\ tag' = [tag EXCEPT ![on[c]] = r] /\ Goto(c, "written") /\ pass' = pass
  BY <1>1, <1>3, <1>4, <1>5, <1>7, GoStep
<1> QED BY <1>1, <1>6, <1>7

LEMMA WriteCompletedIInv ==
  ASSUME EventAssumption, IInv, NEW c \in Threads, WriteCompleted(c)
  PROVE  BaseInv'
<1>1. /\ pc[c] = "written" /\ Block(c, on[c], Raise(tag[on[c]], "WRITE_COMPLETED"))
      /\ Goto(c, "events") /\ Then(c, "idle") /\ UNCHANGED <<owner, on, balance, seen>>
  BY DEF WriteCompleted, Handle, ghosts
<1>2. tag[on[c]] \in TagRecord /\ Same(tag[on[c]], tag[on[c]])
  BY <1>1, Here
<1>3. /\ pc[c] \notin Holding \cup {"idle", "events"}
      /\ "WRITE_COMPLETED" \in Range(Events) \ Starts
  BY <1>1, EventNames DEF Holding
<1> QED BY <1>1, <1>2, <1>3, RaiseStep

LEMMA AbortIInv ==
  ASSUME EventAssumption, IInv, NEW c \in Clients, NEW t \in Tags, Abort(c, t)
  PROVE  BaseInv'
<1> DEFINE gone == [tag[t] EXCEPT !.gone = TRUE]
           r    == IF tag' = tag THEN tag[t] ELSE gone
           then == IF Then(c, "idle") THEN "idle" ELSE "destroy"
           p    == [pass[c] EXCEPT !.then = then]
<1>1. /\ pc[c] = "idle" /\ on' = [on EXCEPT ![c] = t] /\ pc' = [pc EXCEPT ![c] = "flag"]
      /\ UNCHANGED <<owner, balance, seen>> /\ Then(c, then)
      /\ tag' = tag \/ tag' = [tag EXCEPT ![t] = gone]
  BY DEF Abort, Enter, CanCall, Goto, ghosts
<1>2. tag[t] \in TagRecord /\ c \in Threads /\ t # None
  BY Here, ThreadFacts DEF IInv, BaseInv, TagTypes
<1>3. Same(tag[t], gone) /\ Same(tag[t], tag[t])
  BY <1>2, SameRecords, Zenon DEF Same, Hears
<1>4. tag' = [tag EXCEPT ![t] = r] /\ Same(tag[t], r)
  BY <1>1, <1>2, <1>3, Here
<1>5. Aside(tag[t], r) /\ Rises(tag[t], r) /\ r \in TagRecord
  BY <1>2, <1>4, SameAside DEF Same, Hears
<1>6. p \in Pass /\ pass' = [pass EXCEPT ![c] = p]
  BY <1>1, <1>2, Here DEF Then, Places
<1>7. /\ pc[c] \notin Holding /\ pc[c] # "events"
      /\ "flag" \notin Holding /\ "flag" # "idle" /\ owner' = owner
  BY <1>1 DEF Holding
<1> HIDE DEF r, p
<1> QED BY <1>1, <1>2, <1>4, <1>5, <1>6, <1>7, MoveStep, Zenon

LEMMA AbortFlagIInv ==
  ASSUME EventAssumption, IInv, NEW c \in Threads, AbortFlag(c)
  PROVE  BaseInv'
<1> DEFINE r == [tag[on[c]] EXCEPT !.abortReq = TRUE]
<1>1. /\ pc[c] = "flag" /\ Goto(c, "abort") /\ tag' = [tag EXCEPT ![on[c]] = r]
      /\ UNCHANGED <<owner, on, pass, balance, seen>>
  BY DEF AbortFlag, ghosts
<1>2. on[c] \in Tags /\ tag[on[c]] \in TagRecord
  BY <1>1, Here
<1>3. Same(tag[on[c]], r)
  BY <1>2, SameRecords, Zenon
<1>4. Aside(tag[on[c]], r) /\ r \in TagRecord
  BY <1>2, <1>3, SameAside DEF Same, Hears
<1>5. pc[c] \notin Holding \cup {"idle", "events"} /\ "abort" \notin Holding /\ "abort" # "idle"
  BY <1>1 DEF Holding
<1> HIDE DEF r
<1> QED BY <1>1, <1>4, <1>5, GoStep, Zenon

LEMMA AbortRunIInv ==
  ASSUME EventAssumption, IInv, NEW c \in Threads, AbortRun(c)
  PROVE  BaseInv'
<1> DEFINE t    == tag[on[c]]
           idle == IF t.abortReq THEN Idle(t) ELSE t
           u    == ClearFlight(idle)
<1>1. /\ pc[c] = "abort" /\ Block(c, on[c], Raise(u, "ABORTED")) /\ Goto(c, "events")
      /\ UNCHANGED <<owner, on, pass, balance, seen>>
  BY DEF AbortRun, ghosts
<1>2. t \in TagRecord
  BY <1>1, Here, Zenon
<1>3. idle \in TagRecord /\ Same(t, idle)
  BY <1>2, SameRecords, Zenon DEF Same, Hears
<1> HIDE DEF idle
<1>4. u \in TagRecord /\ Same(idle, u)
  BY <1>3, SameRecords, Zenon DEF Same, Hears
<1>5. Same(tag[on[c]], u)
  BY <1>3, <1>4 DEF Same, Hears
<1>6. pc[c] \notin Holding \cup {"idle", "events"} /\ "ABORTED" \in Range(Events) \ Starts
  BY <1>1, EventNames DEF Holding
<1> HIDE DEF u
<1> QED BY <1>1, <1>4, <1>5, <1>6, RaiseStep

LEMMA DestroyedIInv ==
  ASSUME EventAssumption, IInv, NEW c \in Threads, Destroyed(c)
  PROVE  BaseInv'
<1>1. /\ pc[c] = "destroy" /\ Block(c, on[c], Raise(tag[on[c]], "DESTROYED"))
      /\ Goto(c, "events") /\ Then(c, "idle") /\ UNCHANGED <<owner, on, balance, seen>>
  BY DEF Destroyed, Handle, ghosts
<1>2. tag[on[c]] \in TagRecord /\ Same(tag[on[c]], tag[on[c]])
  BY <1>1, Here
<1>3. pc[c] \notin Holding \cup {"idle", "events"} /\ "DESTROYED" \in Range(Events) \ Starts
  BY <1>1, EventNames DEF Holding
<1> QED BY <1>1, <1>2, <1>3, RaiseStep

(* The callback comes and goes; the raised events stay.  With automatic    *)
(* reads there is a callback already, so that none comes.                  *)
LEMMA RegisterIInv ==
  ASSUME EventAssumption, IInv, NEW c \in Clients, NEW t \in Tags,
         Register(c, t) \/ Unregister(c, t)
  PROVE  BaseInv'
<1>1. PICK b \in BOOLEAN : /\ tag' = [tag EXCEPT ![t] = [tag[t] EXCEPT !.callback = b]]
                           /\ b => ~tag[t].callback
  BY DEF Register, Unregister, Block
<1>2. UNCHANGED <<owner, pc, on, pass, balance, seen>> /\ c \in Threads /\ calls < MaxCalls
  BY ThreadFacts DEF Register, Unregister, CanCall, ghosts
<1>3. tag[t] \in TagRecord
  BY Zenon DEF IInv, BaseInv, TagTypes
<1> DEFINE s == [tag[t] EXCEPT !.callback = b]
<1>4. /\ ~AutoRead \/ ~b => Same(tag[t], s)
      /\ Rises(tag[t], s)
  BY <1>3, SameRecords, Zenon
<1>5. s \in TagRecord /\ tag' = [tag EXCEPT ![t] = s]
  BY <1>1, <1>4 DEF Rises
<1> HIDE DEF s
<1>6. Single => ~AutoRead \/ ~b
  BY <1>1, <1>2, FirstCall
<1>7. Single => Aside(tag[t], s)
  BY <1>3, <1>4, <1>6, SameAside
<1> QED BY <1>2, <1>4, <1>5, <1>7, StayStep

-----------------------------------------------------------------------------
(* The theorems *)

LEMMA StepIInv ==
  ASSUME EventAssumption, IInv, NEW c \in Threads, Step(c)
  PROVE  BaseInv'
<1>1. CASE EnterEvents(c)
  BY <1>1, EnterEventsIInv
<1>2. CASE Callback(c)
  BY <1>2, CallbackIInv
<1>3. CASE CallbackCalls(c)
  BY <1>3, CallbackCallsIInv
<1>4. CASE CallbackReturns(c)
  BY <1>4, CallbackReturnsIInv
<1>5. CASE LeaveEvents(c)
  BY <1>5, LeaveEventsIInv
<1>6. CASE CreateEnd(c)
  BY <1>6, CreateEndIInv
<1>7. CASE \E sync, b \in BOOLEAN : ReadStart(c, sync, b) \/ WriteStart(c, sync, b)
  BY <1>7, ReadStartIInv, WriteStartIInv
<1>8. CASE Wake(c) \/ WaitTimeout(c)
  BY <1>8, WaitIInv
<1>9. CASE Check(c)
  BY <1>9, CheckIInv
<1>10. CASE End(c)
  BY <1>10, EndIInv
<1>11. CASE WriteCompleted(c)
  BY <1>11, WriteCompletedIInv
<1>12. CASE AbortFlag(c)
  BY <1>12, AbortFlagIInv
<1>13. CASE AbortRun(c)
  BY <1>13, AbortRunIInv
<1>14. CASE Destroyed(c)
  BY <1>14, DestroyedIInv
<1> QED BY <1>1, <1>2, <1>3, <1>4, <1>5, <1>6, <1>7, <1>8, <1>9, <1>10, <1>11, <1>12, <1>13,
           <1>14 DEF Step

LEMMA StutterIInv ==
  ASSUME IInv, UNCHANGED vars
  PROVE  IInv'
<1>1. MutexInv'
  BY StayKeeps DEF IInv, BaseInv, vars
<1>2. TagTypes'
  BY DEF IInv, BaseInv, TagTypes, vars
<1>3. CreationInv'
  BY DEF IInv, BaseInv, CreationInv, GhostTypes, TellRaised, CreationFirst, vars
<1>4. \A t \in Tags : Pending(t)' = Pending(t)
  BY DEF Pending, vars
<1>5. ASSUME Single PROVE ToldInv'
  <2>1. StartsTold'
    BY <1>5 DEF IInv, BaseInv, ToldInv, StartsTold, Unheard, AtTickler, vars
  <2>2. Balanced'
    BY <1>4, <1>5 DEF IInv, BaseInv, ToldInv, Balanced, Weight, vars
  <2> QED BY <2>1, <2>2 DEF ToldInv
<1>6. ASSUME AutoRead, Single PROVE CallInv'
  BY <1>4, <1>6 DEF IInv, CallInv, Uncalled, Calm, Unread, Weight, vars
<1> QED BY <1>1, <1>2, <1>3, <1>5, <1>6 DEF IInv, BaseInv, Single

-----------------------------------------------------------------------------
(* Before the first call, with automatic reads *)

(* A step that does not disturb a thread which has a mutex, and raises the *)
(* creation at most, keeps the weights.                                    *)
LEMMA MoveWeight ==
  ASSUME EventAssumption, MutexInv, TagTypes, MutexInv', NEW c \in Threads, pc[c] \notin Holding,
         pc' = pc \/ (\E place : place \notin Holding /\ pc' = [pc EXCEPT ![c] = place]),
         owner' = owner, \A d \in Threads \ {c} : pass'[d] = pass[d] /\ on'[d] = on[d],
         NEW t \in Tags, NEW r, tag' = [tag EXCEPT ![t] = r], Aside(tag[t], r),
         UNCHANGED <<balance, seen>>
  PROVE  SameWeight
<1>1. Quiet
  BY DEF Quiet, MutexInv, Types
<1> QED BY <1>1, QuietWeight DEF SameWeight

(* A step of c at t that keeps the weights *)
LEMMA KeepsUncalled ==
  ASSUME EventAssumption, Uncalled, SameWeight, NEW c \in Threads,
         \A d \in Threads \ {c} : pc'[d] = pc[d] /\ pass'[d] = pass[d],
         pc'[c] \in {"idle", "create", "tick", "events", "deliver", "peer"},
         pass'[c].then = "idle", NEW t \in Tags, cond' \in [Tags -> BOOLEAN],
         \A s \in Tags \ {t} : tag'[s] = tag[s] /\ cond'[s] = cond[s],
         Calm(tag'[t]), Unread(tag'[t]) => ~cond'[t],
         "READ_STARTED" \in tag'[t].raised => "READ_STARTED" \in tag[t].raised
  PROVE  Uncalled'
<1>1. \A d \in Threads : /\ pc'[d] \in {"idle", "create", "tick", "events", "deliver", "peer"}
                         /\ pass'[d].then = "idle"
  BY DEF Uncalled
<1>2. ASSUME NEW s \in Tags
      PROVE  /\ Calm(tag'[s]) /\ (Unread(tag'[s]) => ~cond'[s])
             /\ "READ_STARTED" \in tag'[s].raised => Weight(s, "READ_STARTED")' >= 1
  <2>1. "READ_STARTED" \in tag'[s].raised => "READ_STARTED" \in tag[s].raised
    BY <1>2
  <2>2. Weight(s, "READ_STARTED")' = Weight(s, "READ_STARTED")
    BY EventNames DEF SameWeight
  <2>3. Calm(tag'[s]) /\ (Unread(tag'[s]) => ~cond'[s])
    BY <1>2 DEF Uncalled
  <2> QED BY <2>1, <2>2, <2>3 DEF Uncalled
<1> QED BY <1>1, <1>2 DEF Uncalled, Calm, Unread

(* What differs from a calm record in nothing that matters to the calls *)
Like(u, r) ==
  /\ r.callback = u.callback /\ r.abortReq = u.abortReq /\ r.rdone = u.rdone /\ r.wdone = u.wdone
  /\ r.enabled = u.enabled /\ r.op = u.op /\ r.raised \cap Starts = u.raised \cap Starts

LEMMA LikeCalm ==
  ASSUME NEW u, NEW r, Calm(u), Like(u, r), ~r.wif, Unread(r) => r.rif
  PROVE  /\ Calm(r) /\ (Unread(r) => Unread(u))
         /\ "READ_STARTED" \in r.raised => "READ_STARTED" \in u.raised
  BY EventNames DEF Calm, Like, Unread

LEMMA RespondUncalled ==
  ASSUME EventAssumption, IInv, BaseInv', Uncalled,
         NEW t \in Tags, NEW reply \in {"good", "bad"}, Respond(t, reply)
  PROVE  Uncalled'
<1> DEFINE r == [tag[t] EXCEPT !.reply = reply]
<1>1. tag' = [tag EXCEPT ![t] = r] /\ UNCHANGED <<owner, pc, on, pass, cond, balance, seen>>
  BY DEF Respond, ghosts
<1>2. tag[t] \in TagRecord
  BY DEF IInv, BaseInv, TagTypes
<1>3. Aside(tag[t], r)
  <2>1. Same(tag[t], r)
    BY <1>2, SameRecords, Zenon
  <2> QED BY <1>2, <2>1, SameAside
<1>4. Like(tag[t], r) /\ r.wif = tag[t].wif /\ r.rif = tag[t].rif
  BY <1>2 DEF Like, TagRecord
<1>5. SameWeight
  <2>1. Quiet /\ MutexInv' /\ MutexInv /\ TagTypes
    BY <1>1 DEF Quiet, IInv, BaseInv
  <2> HIDE DEF r
  <2> QED BY <1>1, <1>3, <2>1, QuietWeight DEF SameWeight
<1>6. Calm(tag[t]) /\ (Unread(tag[t]) => ~cond[t]) /\ cond \in [Tags -> BOOLEAN]
  BY DEF Uncalled
<1>7. /\ Calm(r) /\ (Unread(r) => Unread(tag[t]))
      /\ "READ_STARTED" \in r.raised => "READ_STARTED" \in tag[t].raised
  BY <1>4, <1>6, LikeCalm DEF Calm, Like, Unread
<1>8. /\ tag'[t] = r /\ \A s \in Tags \ {t} : tag'[s] = tag[s]
      /\ pc[TicklerThread] \in {"idle", "create", "tick", "events", "deliver", "peer"}
      /\ pass[TicklerThread].then = "idle" /\ TicklerThread \in Threads
  BY <1>1, ThreadFacts DEF IInv, BaseInv, TagTypes, Uncalled
<1> HIDE DEF r
<1> QED BY <1>1, <1>5, <1>6, <1>7, <1>8, KeepsUncalled

(* The tickler comes to a tag, or skips it. *)
LEMMA FetchUncalled ==
  ASSUME EventAssumption, IInv, BaseInv', Uncalled, NEW t \in Tags, Fetch(t) \/ TickSkip
  PROVE  Uncalled'
<1> DEFINE c == TicklerThread
<1>1. /\ pc[c] \in {"idle", "tick"} /\ \E place \in {"idle", "tick"} : pc' = [pc EXCEPT ![c] = place]
      /\ \E x : on' = [on EXCEPT ![c] = x]
      /\ UNCHANGED <<tag, owner, pass, cond, balance, seen>>
  BY DEF Fetch, TickSkip, Goto, ghosts
<1>2. tag[t] \in TagRecord /\ c \in Threads /\ tag' = [tag EXCEPT ![t] = tag[t]]
  BY <1>1, ThreadFacts DEF IInv, BaseInv, TagTypes
<1>3. Aside(tag[t], tag[t]) /\ pc[c] \notin Holding
  BY <1>1, <1>2, Here, SameAside DEF Holding
<1>4. MutexInv /\ MutexInv' /\ TagTypes
  BY DEF IInv, BaseInv
<1>5. \E place : place \notin Holding /\ pc' = [pc EXCEPT ![c] = place]
  BY <1>1 DEF Holding
<1>6. \A d \in Threads \ {c} : pass'[d] = pass[d] /\ on'[d] = on[d] /\ pc'[d] = pc[d]
  BY <1>1 DEF IInv, BaseInv, MutexInv, Types
<1>7. pc'[c] \in {"idle", "create", "tick", "events", "deliver", "peer"} /\ pass'[c].then = "idle"
  BY <1>1, <1>2 DEF IInv, BaseInv, MutexInv, Types, Uncalled
<1> HIDE DEF c
<1>8. SameWeight
  BY <1>1, <1>2, <1>3, <1>4, <1>5, <1>6, MoveWeight
<1>9. Calm(tag[t]) /\ (Unread(tag[t]) => ~cond[t]) /\ cond \in [Tags -> BOOLEAN]
  BY DEF Uncalled
<1> QED BY <1>1, <1>2, <1>6, <1>7, <1>8, <1>9, KeepsUncalled

LEMMA CreateEndUncalled ==
  ASSUME EventAssumption, IInv, BaseInv', Uncalled, NEW c \in Threads, CreateEnd(c)
  PROVE  Uncalled'
<1> DEFINE t == on[c]
           u == [tag[t] EXCEPT !.rif = FALSE, !.wif = FALSE]
           r == Raise(u, "CREATED")
           s == [Idle(tag[t]) EXCEPT !.gone = TRUE]
<1>1. /\ pc[c] = "create" /\ UNCHANGED <<owner, balance, seen>>
      /\ cond' = [cond EXCEPT ![t] = FALSE] /\ \E x : on' = [on EXCEPT ![c] = x]
      /\ \E place \in {"events", "idle"} : pc' = [pc EXCEPT ![c] = place]
      /\ (Then(c, "idle") \/ pass' = pass)
      /\ (tag' = [tag EXCEPT ![t] = r] /\ cond[t]) \/ tag' = [tag EXCEPT ![t] = s]
  <2>1. on = [on EXCEPT ![c] = on[c]]
    BY Here
  <2> QED BY <2>1 DEF CreateEnd, Handle, Goto, ghosts
<1>2. t \in Tags /\ tag[t] \in TagRecord
  BY <1>1, Here
<1>3. Same(tag[t], u) /\ u \in TagRecord
  BY <1>2, SameRecords, Zenon DEF Same, Hears
<1>4. Calm(tag[t]) /\ (Unread(tag[t]) => ~cond[t]) /\ cond \in [Tags -> BOOLEAN]
  BY <1>2 DEF Uncalled
<1>5. u.callback /\ Like(tag[t], u) /\ ~u.wif
  BY <1>2, <1>4 DEF Like, Calm, TagRecord
<1> HIDE DEF u
<1>6. Aside(u, r) /\ r \in TagRecord
  BY <1>3, CreatedAside
<1>7. Like(u, r) /\ r.wif = u.wif
  <2>1. "CREATED" \notin Starts /\ "CREATED" \notin Range(Ends)
    BY EventNames
  <2>2. r.raised \cap Starts = u.raised \cap Starts /\ r.enabled = u.enabled
    BY <1>6 DEF Aside, Grows
  <2>3. /\ r.callback = u.callback /\ r.abortReq = u.abortReq /\ r.rdone = u.rdone
        /\ r.wdone = u.wdone /\ r.op = u.op /\ r.wif = u.wif
    BY <1>3, <1>5 DEF Raise, TagRecord
  <2> QED BY <2>2, <2>3 DEF Like
<1> HIDE DEF r
<1>8. Like(tag[t], r) /\ ~r.wif
  BY <1>5, <1>7 DEF Like
<1>9. /\ Aside(tag[t], r)
      /\ Aside(tag[t], s) /\ Calm(s) /\ ~Unread(s) /\ s.raised = tag[t].raised
  <2>1. Same(tag[t], u) /\ Grows(tag[t], u) /\ Grows(u, r)
    BY <1>2, <1>3, <1>6, SameGrows DEF Aside
  <2>2. Grows(tag[t], r)
    BY <1>2, <1>3, <2>1, GrowsOn
  <2>3. Aside(tag[t], r)
    BY <1>6, <2>1, <2>2 DEF Aside, Same
  <2>4. Idle(tag[t]) \in TagRecord /\ Same(tag[t], Idle(tag[t]))
    BY <1>2, SameRecords, Zenon DEF Same, Hears
  <2>5. Same(Idle(tag[t]), s)
    BY <2>4, SameRecords, Zenon
  <2>6. Same(tag[t], s)
    BY <2>4, <2>5 DEF Same, Hears
  <2>7. Aside(tag[t], s) /\ s.raised = tag[t].raised
    BY <1>2, <2>6, SameAside DEF Same
  <2>8. Calm(s) /\ ~Unread(s)
    BY <1>2, <1>4, <2>7 DEF Calm, Unread, Idle, TagRecord
  <2> QED BY <2>3, <2>7, <2>8
<1> HIDE DEF s
<1>10. PICK q : /\ tag' = [tag EXCEPT ![t] = q] /\ Aside(tag[t], q) /\ Calm(q) /\ ~Unread(q)
                /\ "READ_STARTED" \in q.raised => "READ_STARTED" \in tag[t].raised
  <2>1. CASE tag' = [tag EXCEPT ![t] = r] /\ cond[t]
    <3>1. ~Unread(r)
      BY <1>4, <1>8, <2>1 DEF Like, Unread
    <3>2. Calm(r) /\ ("READ_STARTED" \in r.raised => "READ_STARTED" \in tag[t].raised)
      BY <1>4, <1>8, <3>1, LikeCalm
    <3> QED BY <1>9, <2>1, <3>1, <3>2
  <2>2. CASE tag' = [tag EXCEPT ![t] = s]
    BY <1>9, <2>2
  <2> QED BY <1>1, <2>1, <2>2
<1>11. /\ pc[c] \notin Holding /\ \E place : place \notin Holding /\ pc' = [pc EXCEPT ![c] = place]
       /\ pc'[c] \in {"idle", "create", "tick", "events", "deliver", "peer"}
       /\ \A d \in Threads \ {c} : pc'[d] = pc[d]
  BY <1>1 DEF Holding, IInv, BaseInv, MutexInv, Types
<1>12. \A d \in Threads \ {c} : pass'[d] = pass[d] /\ on'[d] = on[d]
  <2>1. DOMAIN pass = Threads /\ DOMAIN on = Threads
    BY DEF IInv, BaseInv, MutexInv, Types
  <2> QED BY <1>1, <2>1 DEF Then
<1>13. pass'[c].then = "idle"
  BY <1>1, Here DEF Then, Uncalled, Pass
<1> HIDE DEF t
<1>14. /\ \A x \in Tags \ {t} : tag'[x] = tag[x] /\ cond'[x] = cond[x]
       /\ tag'[t] = q /\ cond' \in [Tags -> BOOLEAN]
  <2>1. tag \in [Tags -> TagRecord]
    BY DEF IInv, BaseInv, TagTypes
  <2>2. \A x \in Tags \ {t} : tag'[x] = tag[x]
    BY <1>2, <1>10, <2>1
  <2>3. tag'[t] = q
    BY <1>2, <1>10, <2>1
  <2>4. (\A x \in Tags \ {t} : cond'[x] = cond[x]) /\ cond' \in [Tags -> BOOLEAN]
    BY <1>1, <1>2, <1>4
  <2> QED BY <2>2, <2>3, <2>4
<1>15. SameWeight
  <2>1. MutexInv /\ MutexInv' /\ TagTypes
    BY DEF IInv, BaseInv
  <2> QED BY <1>1, <1>2, <1>10, <1>11, <1>12, <2>1, MoveWeight
<1> QED BY <1>2, <1>10, <1>11, <1>12, <1>13, <1>14, <1>15, KeepsUncalled

(* A thread that handles events *)
LEMMA HandlesUncalled ==
  ASSUME EventAssumption, IInv, Uncalled, SameWeight, NEW c \in Threads,
         pc[c] # "idle", \A d \in Threads \ {c} : pc'[d] = pc[d] /\ pass'[d] = pass[d],
         pc'[c] \in {"idle", "create", "tick", "events", "deliver", "peer"},
         pass'[c].then = "idle", cond' = cond,
         NEW S, tag' = tag \/ tag' = [tag EXCEPT ![on[c]].raised = @ \ S]
  PROVE  Uncalled'
<1> DEFINE t == on[c]
           r == tag'[t]
<1>1. t \in Tags /\ tag[t] \in TagRecord /\ tag \in [Tags -> TagRecord]
  BY Here DEF IInv, BaseInv, TagTypes
<1>2. Calm(tag[t]) /\ (Unread(tag[t]) => ~cond[t]) /\ cond \in [Tags -> BOOLEAN]
  BY <1>1 DEF Uncalled
<1>3. \A s \in Tags \ {t} : tag'[s] = tag[s]
  BY <1>1
<1>4. r = tag[t] \/ r = [tag[t] EXCEPT !.raised = @ \ S]
  BY <1>1
<1>5. /\ Calm(r) /\ (Unread(r) => Unread(tag[t]))
      /\ "READ_STARTED" \in r.raised => "READ_STARTED" \in tag[t].raised
  BY <1>1, <1>2, <1>4 DEF Calm, Unread, TagRecord
<1>6. Calm(tag'[t]) /\ (Unread(tag'[t]) => ~cond'[t])
  BY <1>2, <1>5
<1>7. "READ_STARTED" \in tag'[t].raised => "READ_STARTED" \in tag[t].raised
  BY <1>5
<1> HIDE DEF t, r
<1> QED BY <1>1, <1>2, <1>3, <1>6, <1>7, KeepsUncalled

LEMMA EventsUncalled ==
  ASSUME EventAssumption, IInv, BaseInv', Uncalled, NEW c \in Threads,
         \/ EnterEvents(c) \/ Callback(c) \/ CallbackCalls(c) \/ CallbackReturns(c) \/ LeaveEvents(c)
  PROVE  Uncalled'
<1>1. /\ MutexInv /\ TagTypes /\ CreationInv /\ MutexInv'
      /\ pass \in [Threads -> Pass] /\ DOMAIN pc = Threads /\ pass[c].then = "idle"
  BY DEF IInv, BaseInv, MutexInv, Types, Pass, Uncalled
<1>2. CASE EnterEvents(c)
  <2> DEFINE p == [tell |-> Outstanding(tag[on[c]]), then |-> pass[c].then]
  <2>1. /\ pc[c] = "events" /\ Free(c, on[c]) /\ owner' = [owner EXCEPT ![on[c]] = c]
        /\ pc' = [pc EXCEPT ![c] = "deliver"] /\ pass' = [pass EXCEPT ![c] = p]
        /\ UNCHANGED <<tag, on, cond, balance, seen>>
    BY <1>2 DEF EnterEvents, Deliver, Goto, ghosts
  <2>2. PICK t \in Tags, r \in TagRecord :
          /\ t = on[c] /\ r = tag[t]
          /\ tag' = [tag EXCEPT ![t] = r] /\ on' = [on EXCEPT ![c] = t]
    BY <2>1, Here
  <2>3. /\ owner[t] \in {None, c} /\ pc[c] \notin Telling
        /\ owner' = [owner EXCEPT ![t] = c]
        /\ pc' = [pc EXCEPT ![c] = "deliver"] /\ pass' = [pass EXCEPT ![c] = p]
    BY <2>1, <2>2 DEF Free, Telling
  <2>4. /\ \A d \in Threads \ {c} : pc'[d] = pc[d] /\ pass'[d] = pass[d]
        /\ pc'[c] = "deliver" /\ pass'[c].then = "idle"
    BY <1>1, <2>1
  <2> HIDE DEF p
  <2>5. /\ Pending(t) = tag[t].raised /\ Pending(t)' = r.raised
        /\ \A s \in Tags \ {t} : Pending(s)' = Pending(s) /\ tag'[s] = tag[s]
    <3>1. EventAssumption /\ MutexInv /\ MutexInv' /\ TagTypes
      BY <1>1
    <3> QED BY <2>2, <2>3, <3>1, TakePending
  <2>6. ASSUME NEW s \in Tags PROVE Pending(s)' = Pending(s)
    BY <2>2, <2>5
  <2>7. SameWeight
    BY <2>1, <2>6 DEF SameWeight, Weight
  <2>8. tag' = tag /\ cond' = cond /\ pc[c] # "idle"
    BY <2>1
  <2> QED BY <2>4, <2>7, <2>8, HandlesUncalled
<1>3. CASE Callback(c) \/ CallbackCalls(c)
  <2>1. SameWeight
    BY <1>1, <1>3, TellTold
  <2>2. /\ pc[c] = "deliver" /\ cond' = cond
        /\ tag' = tag \/ tag' = [tag EXCEPT ![on[c]].raised = @ \ {FirstOf(pass[c].tell)}]
        /\ pc' = pc \/ pc' = [pc EXCEPT ![c] = "peer"]
        /\ pass' = pass \/ pass' = [pass EXCEPT ![c].tell = @ \ {FirstOf(pass[c].tell)}]
    BY <1>3 DEF Callback, CallbackCalls, Told, Goto
  <2>3. /\ \A d \in Threads \ {c} : pc'[d] = pc[d] /\ pass'[d] = pass[d]
        /\ pc'[c] \in {"deliver", "peer"} /\ pass'[c].then = "idle"
    BY <1>1, <2>2 DEF Pass
  <2> QED BY <2>1, <2>2, <2>3, HandlesUncalled
<1>4. CASE CallbackReturns(c)
  <2>1. SameWeight
    BY <1>1, <1>4, ReturnTold
  <2>2. /\ pc[c] = "peer" /\ cond' = cond
        /\ tag' = [tag EXCEPT ![on[c]].raised = @ \ {FirstOf(pass[c].tell)}]
        /\ pc' = [pc EXCEPT ![c] = "deliver"]
        /\ pass' = [pass EXCEPT ![c].tell = @ \ {FirstOf(pass[c].tell)}]
    BY <1>4 DEF CallbackReturns, Told, Goto
  <2>3. /\ \A d \in Threads \ {c} : pc'[d] = pc[d] /\ pass'[d] = pass[d]
        /\ pc'[c] = "deliver" /\ pass'[c].then = "idle"
    BY <1>1, <2>2 DEF Pass
  <2> QED BY <2>1, <2>2, <2>3, HandlesUncalled
<1>5. CASE LeaveEvents(c)
  <2>1. SameWeight
    BY <1>5, LeaveEventsIInv
  <2>2. /\ pc[c] = "deliver" /\ cond' = cond /\ tag' = tag
        /\ pc' = [pc EXCEPT ![c] = pass[c].then] /\ pass' = [pass EXCEPT ![c].then = "idle"]
    BY <1>5 DEF LeaveEvents, Goto, Then
  <2>3. /\ \A d \in Threads \ {c} : pc'[d] = pc[d] /\ pass'[d] = pass[d]
        /\ pc'[c] = "idle" /\ pass'[c].then = "idle"
    BY <1>1, <2>2 DEF Pass
  <2> QED BY <2>1, <2>2, <2>3, HandlesUncalled
<1> QED BY <1>2, <1>3, <1>4, <1>5

(* tag_raise_event() leaves everything but the events alone. *)
LEMMA RaiseFields ==
  ASSUME NEW t \in TagRecord, NEW e \in Range(Events), NEW r, r = Raise(t, e)
  PROVE  /\ r \in TagRecord
         /\ r.callback = t.callback /\ r.abortReq = t.abortReq /\ r.rif = t.rif /\ r.wif = t.wif
         /\ r.rdone = t.rdone /\ r.wdone = t.wdone /\ r.op = t.op /\ r.reply = t.reply
         /\ r.raised \subseteq t.raised \cup {"CREATED", e}
         /\ e \notin Starts => t.enabled \ {e} \subseteq r.enabled /\ r.enabled \subseteq t.enabled
         /\ e \in Starts /\ t.callback => r.enabled = t.enabled \cup {Ends[e]}
<1> DEFINE created == IF e \in Starts \cup {"DESTROYED"} \/ t.had THEN {} ELSE {"CREATED"}
           event   == CASE e = "CREATED"    -> {}
                        [] e \in Range(Ends) -> {e} \cap t.enabled
                        [] OTHER            -> {e}
           raised  == t.raised \cup created \cup event
           had     == t.had \/ created # {}
           enabled == IF e \in Starts THEN t.enabled \cup {Ends[e]} ELSE t.enabled \ {e}
<1>1. created \subseteq {"CREATED"} /\ event \subseteq {e}
  OBVIOUS
<1>2. raised \subseteq t.raised \cup {"CREATED", e}
  BY <1>1
<1>3. /\ e \notin Starts => enabled = t.enabled \ {e}
      /\ e \in Starts => enabled = t.enabled \cup {Ends[e]}
  OBVIOUS
<1>4. r = IF ~t.callback THEN t ELSE [t EXCEPT !.raised = raised, !.had = had,
                                               !.enabled = enabled]
  BY DEF Raise, TagRecord
<1>5. r \in TagRecord
  BY RaiseType
<1> HIDE DEF created, event, raised, had, enabled
<1>6. CASE ~t.callback
  BY <1>4, <1>5, <1>6
<1>7. CASE t.callback
  <2>1. r = [t EXCEPT !.raised = raised, !.had = had, !.enabled = enabled]
    BY <1>4, <1>7
  <2>2. /\ r.callback = t.callback /\ r.abortReq = t.abortReq /\ r.rif = t.rif /\ r.wif = t.wif
        /\ r.rdone = t.rdone /\ r.wdone = t.wdone /\ r.op = t.op /\ r.reply = t.reply
        /\ r.raised = raised /\ r.enabled = enabled
    BY <2>1 DEF TagRecord
  <2> QED BY <1>2, <1>3, <1>5, <2>2
<1> QED BY <1>6, <1>7 DEF TagRecord

(* An automatic read leaves a tag calm. *)
LEMMA GenericCalm ==
  ASSUME EventAssumption, NEW t \in TagRecord, Calm(t), NEW due \in BOOLEAN,
         NEW g, g = GenericTickler(t, due)
  PROVE  /\ g \in TagRecord /\ Calm(g)
         /\ \/ g = t
            \/ "READ_COMPLETED" \in g.enabled /\ (g.reply # "none" => "READ_COMPLETED" \in t.enabled)
<1> DEFINE reading == [t EXCEPT !.rif = TRUE]
           started == Begin(reading, "read")
<1>1. /\ "READ_STARTED" \in Range(Events) \cap Starts /\ Ends["READ_STARTED"] = "READ_COMPLETED"
      /\ "WRITE_STARTED" \notin {"CREATED", "READ_STARTED"}
  BY EventNames
<1>2. /\ reading \in TagRecord /\ reading.callback /\ ~reading.abortReq /\ ~reading.wif
      /\ ~reading.rdone /\ ~reading.wdone /\ reading.op = t.op /\ reading.reply = t.reply
      /\ reading.raised = t.raised /\ reading.rif
  BY DEF Calm, TagRecord
<1>3. /\ started \in TagRecord /\ started.callback /\ ~started.abortReq /\ ~started.wif
      /\ ~started.rdone /\ ~started.wdone /\ started.op = "read" /\ started.reply = "none"
      /\ started.raised = t.raised /\ started.rif
  BY <1>2, ZenonT(60) DEF Begin, TagRecord
<1>4. CASE AutoRead /\ due /\ ~t.rif
  <2>1. g = Raise(IF t.op = "none" THEN started ELSE reading, "READ_STARTED")
    BY <1>4 DEF GenericTickler, Calm, Begins
  <2> HIDE DEF started, reading
  <2>2. t.op # "none" => t.op = "read" /\ "READ_COMPLETED" \in t.enabled
    BY <1>4 DEF Calm, Unread, TagRecord
  <2>3. CASE t.op = "none"
    <3>1. g = Raise(started, "READ_STARTED")
      BY <2>1, <2>3
    <3>2. /\ g \in TagRecord /\ g.callback /\ ~g.abortReq /\ ~g.wif /\ ~g.rdone /\ ~g.wdone
          /\ g.op = "read" /\ g.reply = "none" /\ "READ_COMPLETED" \in g.enabled
          /\ g.raised \subseteq t.raised \cup {"CREATED", "READ_STARTED"}
      BY <1>1, <1>3, <3>1, RaiseFields
    <3> QED BY <1>1, <3>2 DEF Calm, Unread
  <2>4. CASE t.op # "none"
    <3>1. g = Raise(reading, "READ_STARTED")
      BY <2>1, <2>4
    <3>2. /\ g \in TagRecord /\ g.callback /\ ~g.abortReq /\ ~g.wif /\ ~g.rdone /\ ~g.wdone
          /\ g.op = "read" /\ "READ_COMPLETED" \in g.enabled
          /\ g.raised \subseteq t.raised \cup {"CREATED", "READ_STARTED"}
      BY <1>1, <1>2, <2>2, <2>4, <3>1, RaiseFields
    <3> QED BY <1>1, <2>2, <2>4, <3>2 DEF Calm, Unread
  <2> QED BY <2>3, <2>4
<1>5. CASE ~(AutoRead /\ due /\ ~t.rif)
  BY <1>5 DEF GenericTickler, Calm
<1> QED BY <1>4, <1>5

LEMMA ReadRaised ==
  ASSUME NEW v \in TagRecord, NEW r, r = Raise(v, "READ_COMPLETED")
  PROVE  /\ r \in TagRecord
         /\ r.callback = v.callback /\ r.abortReq = v.abortReq /\ r.wif = v.wif
         /\ r.rdone = v.rdone /\ r.wdone = v.wdone /\ r.op = v.op
         /\ r.raised \subseteq v.raised \cup {"CREATED", "READ_COMPLETED"}
  BY EventNames, RaiseFields

(* One turn of the tickler for a calm tag t: with what was done u, what it *)
(* leaves is r.  Whoever waits is signalled when the first read has ended, *)
(* and a start that is raised was there before, or may end, or follows one *)
(* that could.                                                             *)
ReadEnds(u) ==
  IF u.rdone THEN Raise([u EXCEPT !.rdone = FALSE, !.rif = FALSE], "READ_COMPLETED") ELSE u

TickedCalm(t, u, r) ==
  /\ r \in TagRecord /\ Calm(r) /\ ~u.wdone /\ u.rdone \in BOOLEAN
  /\ Unread(r) => ~u.rdone /\ Unread(t)
  /\ "READ_STARTED" \in r.raised =>
       "READ_STARTED" \in t.raised \/ "READ_COMPLETED" \in r.enabled \cup t.enabled

LEMMA TickCalm ==
  ASSUME EventAssumption, NEW t \in TagRecord, Calm(t), NEW due \in BOOLEAN,
         NEW u, u = Tickle(GenericTickler(t, due)), NEW r, r = ReadEnds(u)
  PROVE  TickedCalm(t, u, r)
<1> USE DEF TickedCalm
<1>1. PICK g : g = GenericTickler(t, due) /\ u = Tickle(g)
  OBVIOUS
<1>2. PICK v : /\ v = [u EXCEPT !.rdone = FALSE, !.rif = FALSE]
               /\ r = IF u.rdone THEN Raise(v, "READ_COMPLETED") ELSE u
  BY Zenon DEF ReadEnds
<1>3. /\ g \in TagRecord /\ Calm(g)
      /\ \/ g = t
         \/ "READ_COMPLETED" \in g.enabled /\ (g.reply # "none" => "READ_COMPLETED" \in t.enabled)
  BY <1>1, GenericCalm
<1>4. /\ "READ_COMPLETED" \in Range(Events) \ Starts /\ "CREATED" \in Range(Events) \ Starts
      /\ "CREATED" \notin Range(Ends)
      /\ {"READ_STARTED", "WRITE_STARTED"} \cap {"CREATED", "READ_COMPLETED"} = {}
  BY EventNames
<1>5. CASE g.reply = "none"
  <2>1. u = g
    BY <1>1, <1>5 DEF Tickle
  <2>2. r = g /\ u.rdone = FALSE /\ ~u.wdone
    BY <1>2, <1>3, <2>1 DEF Calm, TagRecord
  <2>3. Unread(g) => Unread(t)
    BY <1>3 DEF Unread
  <2>4. "READ_STARTED" \in g.raised =>
          "READ_STARTED" \in t.raised \/ "READ_COMPLETED" \in g.enabled \cup t.enabled
    BY <1>3
  <2> QED BY <1>3, <2>2, <2>3, <2>4
<1>6. CASE g.reply # "none"
  <2> DEFINE ended == [Idle(g) EXCEPT !.failed = g.reply = "bad",
                                      !.rdone = @ \/ g.op = "read", !.wdone = @ \/ g.op = "write"]
  <2>1. /\ ended \in TagRecord /\ ended.callback /\ ~ended.abortReq /\ ~ended.wif
        /\ ended.rdone = (g.op = "read") /\ ~ended.wdone /\ ended.op = "none"
        /\ ended.raised = g.raised /\ ended.enabled = g.enabled
    <3>1. PICK d \in TagRecord : d = Idle(g)
      BY <1>3, SameRecords, Zenon DEF Same
    <3>2. /\ d.callback = g.callback /\ d.abortReq = g.abortReq /\ d.wif = g.wif
          /\ d.rdone = g.rdone /\ d.wdone = g.wdone /\ d.op = "none"
          /\ d.raised = g.raised /\ d.enabled = g.enabled
      BY <1>3, <3>1 DEF Idle, TagRecord
    <3>3. PICK x \in BOOLEAN, y \in BOOLEAN, z \in BOOLEAN :
            /\ x = (g.reply = "bad")
            /\ y = (g.op = "read") /\ z = (g.op = "write")
      BY Zenon
    <3>4. d.rdone = FALSE /\ d.wdone = FALSE /\ z = FALSE
      BY <1>3, <3>2, <3>3 DEF Calm, TagRecord
    <3>5. (d.rdone \/ g.op = "read") = y /\ (d.wdone \/ g.op = "write") = z
      BY <3>3, <3>4
    <3>6. ended = [d EXCEPT !.failed = x, !.rdone = y, !.wdone = z]
      BY <3>1, <3>3, <3>5 DEF TagRecord
    <3> HIDE DEF ended
    <3>7. /\ ended \in TagRecord
          /\ ended.callback = d.callback /\ ended.abortReq = d.abortReq /\ ended.wif = d.wif
          /\ ended.rdone = y /\ ended.wdone = z /\ ended.op = d.op
          /\ ended.raised = d.raised /\ ended.enabled = d.enabled
      BY <3>6, ZenonT(90) DEF TagRecord
    <3> QED BY <1>3, <3>2, <3>3, <3>4, <3>7 DEF Calm
  <2>2. u = IF g.op = "read" THEN Raise(ended, "CREATED") ELSE ended
    BY <1>1, <1>6 DEF Tickle
  <2> HIDE DEF ended
  <2>3. /\ u \in TagRecord /\ u.callback /\ ~u.abortReq /\ ~u.wif /\ u.rdone = (g.op = "read")
        /\ ~u.wdone /\ u.op = "none"
        /\ u.raised \subseteq g.raised \cup {"CREATED"} /\ u.enabled \subseteq g.enabled
        /\ g.op # "read" => u.enabled = g.enabled
    <3>1. CASE g.op = "read"
      <4>1. u = Raise(ended, "CREATED")
        BY <2>2, <3>1
      <4> QED BY <1>4, <2>1, <3>1, <4>1, RaiseFields
    <3>2. CASE g.op # "read"
      BY <2>1, <2>2, <3>2
    <3> QED BY <3>1, <3>2
  <2>4. CASE g.op = "read"
    <3>6. v \in TagRecord
      BY <1>2, <2>3, SameRecords, Zenon DEF Same
    <3>7. /\ v.callback = u.callback /\ v.abortReq = u.abortReq /\ v.wif = u.wif
          /\ v.rdone = FALSE /\ v.wdone = u.wdone /\ v.op = u.op
          /\ v.raised = u.raised /\ v.enabled = u.enabled
      BY <1>2, <2>3 DEF TagRecord
    <3>1. /\ v \in TagRecord /\ v.callback /\ ~v.abortReq /\ ~v.wif /\ ~v.rdone /\ ~v.wdone
          /\ v.op = "none" /\ v.raised = u.raised /\ v.enabled = u.enabled
      BY <2>3, <3>6, <3>7
    <3>2. r = Raise(v, "READ_COMPLETED")
      BY <1>2, <2>3, <2>4
    <3>3. /\ r \in TagRecord /\ r.callback /\ ~r.abortReq /\ ~r.wif /\ ~r.rdone /\ ~r.wdone
          /\ r.op = "none" /\ r.raised \subseteq g.raised \cup {"CREATED", "READ_COMPLETED"}
      <4>2. /\ r \in TagRecord
            /\ r.callback = v.callback /\ r.abortReq = v.abortReq /\ r.wif = v.wif
            /\ r.rdone = v.rdone /\ r.wdone = v.wdone /\ r.op = v.op
            /\ r.raised \subseteq v.raised \cup {"CREATED", "READ_COMPLETED"}
        BY <3>6, <3>2, ReadRaised
      <4> QED BY <2>3, <3>1, <4>2
    <3>4. Calm(r) /\ ~Unread(r)
      BY <1>3, <1>4, <3>3 DEF Calm, Unread
    <3>5. "READ_STARTED" \in r.raised => "READ_STARTED" \in g.raised
      BY <1>4, <3>3
    <3> QED BY <1>3, <1>6, <2>3, <2>4, <3>3, <3>4, <3>5
  <2>5. CASE g.op # "read"
    <3>1. r = u /\ u.rdone = FALSE
      BY <1>2, <2>3, <2>5 DEF TagRecord
    <3>2. Calm(u) /\ ~Unread(u)
      BY <1>3, <1>4, <2>3, <3>1 DEF Calm, Unread
    <3> QED BY <1>3, <1>4, <1>6, <2>3, <2>5, <3>1, <3>2
  <2> QED BY <2>4, <2>5
<1> QED BY <1>5, <1>6

LEMMA TickUncalled ==
  ASSUME EventAssumption, IInv, BaseInv', Uncalled, AutoRead, Single, NEW due \in BOOLEAN, Tick(due)
  PROVE  Uncalled'
<1> DEFINE c == TicklerThread
           e == "READ_STARTED"
           f == "READ_COMPLETED"
<1>1. /\ MutexInv /\ TagTypes /\ CreationInv /\ ToldInv
      /\ MutexInv' /\ TagTypes' /\ ToldInv'
      /\ tag \in [Tags -> TagRecord] /\ cond \in [Tags -> BOOLEAN]
      /\ DOMAIN pc = Threads /\ pass \in [Threads -> Pass]
  BY DEF IInv, BaseInv, Single, MutexInv, Types, TagTypes, Pass, Uncalled
<1>2. c \in Threads /\ None \notin Threads
  BY ThreadFacts DEF EventAssumption
<1>3. PICK t \in Tags : t = on[c]
  BY Here, <1>2 DEF Tick
<1>4. PICK k \in TagRecord : k = tag[t]
  BY <1>1
<1>5. PICK u : u = Tickle(GenericTickler(k, due))
  OBVIOUS
<1>6. PICK r : r = ReadEnds(u)
  OBVIOUS
<1>7. tag[t] \in TagRecord /\ Calm(tag[t]) /\ (Unread(tag[t]) => ~cond[t])
  BY <1>1 DEF Uncalled
<1>8. /\ r \in TagRecord /\ Calm(r) /\ ~u.wdone /\ u.rdone \in BOOLEAN
      /\ Unread(r) => ~u.rdone /\ Unread(tag[t])
      /\ e \in r.raised => e \in tag[t].raised \/ f \in r.enabled \cup tag[t].enabled
  <2>1. Calm(k)
    BY <1>4, <1>7
  <2>2. TickedCalm(k, u, r)
    BY <1>5, <1>6, <2>1, TickCalm
  <2> QED BY <1>4, <2>2 DEF TickedCalm
<1>9. /\ pc[c] = "tick" /\ Free(c, t)
       /\ tag' = [tag EXCEPT ![t] = r] /\ cond' = [cond EXCEPT ![t] = @ \/ u.rdone \/ u.wdone]
       /\ pc' = [pc EXCEPT ![c] = "events"] /\ pass' = [pass EXCEPT ![c].then = "idle"]
       /\ UNCHANGED <<owner, on, balance, seen>>
  <2> DEFINE w == IF u.wdone THEN Raise([r EXCEPT !.wdone = FALSE, !.wif = FALSE], "WRITE_COMPLETED")
                              ELSE r
  <2>1. tag' = [tag EXCEPT ![t] = w] /\ cond' = [cond EXCEPT ![t] = @ \/ u.rdone \/ u.wdone]
    BY <1>3, <1>4, <1>5, <1>6, Zenon DEF Tick, Block, ReadEnds
  <2>2. w = r
    BY <1>8
  <2>3. /\ pc[c] = "tick" /\ Free(c, t)
        /\ pc' = [pc EXCEPT ![c] = "events"] /\ pass' = [pass EXCEPT ![c].then = "idle"]
        /\ UNCHANGED <<owner, on, balance, seen>>
    BY <1>3 DEF Tick, Block, Handle, Goto, Then, ghosts
  <2> QED BY <2>1, <2>2, <2>3
<1> HIDE <1>4, <1>5, <1>6
<1> HIDE DEF c
<1>10. /\ cond' \in [Tags -> BOOLEAN] /\ \A s \in Tags \ {t} : cond'[s] = cond[s]
       /\ cond'[t] = (cond[t] \/ u.rdone)
  <2>1. cond[t] \in BOOLEAN /\ (cond[t] \/ u.rdone \/ u.wdone) = (cond[t] \/ u.rdone)
    BY <1>1, <1>8
  <2>2. cond' = [cond EXCEPT ![t] = cond[t] \/ u.rdone]
    BY <1>1, <1>9, <2>1
  <2> QED BY <1>1, <2>1, <2>2
<1>11. tag'[t] = r /\ \A s \in Tags \ {t} : tag'[s] = tag[s]
  BY <1>1, <1>9
<1>12. ASSUME NEW d \in Threads
       PROVE  /\ pc'[d] \in {"idle", "create", "tick", "events", "deliver", "peer"}
              /\ pass'[d].then = "idle"
  BY <1>1, <1>2, <1>9 DEF Uncalled, Pass
<1>13. owner[t] = None /\ \A s \in Tags : owner[s] # c
  BY <1>1, <1>2, <1>9 DEF Free, MutexInv, OwnerHolds, Holding
<1>14. tag[t].raised \cap Starts = {}
  <2>1. ~Unheard(t)
    BY <1>7, <1>9 DEF Unheard, Calm, AtTickler, c
  <2> QED BY <1>1, <1>13, <2>1, NoStart
<1>15. Pending(t) = tag[t].raised /\ Pending(t)' = r.raised
  BY <1>9, <1>11, <1>13 DEF Pending
<1>16. ASSUME NEW s \in Tags \ {t} PROVE Weight(s, e)' = Weight(s, e)
  <2>1. owner[s] # None => pc'[owner[s]] = pc[owner[s]] /\ pass'[owner[s]] = pass[owner[s]]
    BY <1>1, <1>2, <1>9, <1>13 DEF MutexInv, Types
  <2>2. Pending(s)' = Pending(s)
    BY <1>9, <1>11, <2>1, SMTT(30) DEF Pending
  <2> QED BY <1>9, <2>2 DEF Weight
<1>17. ASSUME e \in r.raised PROVE Weight(t, e)' >= 1
  <2>1. e \in Starts /\ Ends[e] = f
    BY EventNames
  <2>2. /\ Weight(t, e) = balance[t][f] + One(e \in tag[t].raised) - One(f \in tag[t].raised)
        /\ Weight(t, e)' = balance[t][f] + One(e \in r.raised) - One(f \in r.raised)
    BY <1>9, <1>15, <2>1 DEF Weight
  <2>3. e \notin tag[t].raised /\ f \in r.enabled \cup tag[t].enabled
    BY <1>8, <1>14, <1>17, <2>1
  <2>4. CASE f \in r.enabled
    <3>1. Weight(t, e)' >= One(Ends[e] \in tag'[t].enabled)
      BY <1>1, <2>1 DEF ToldInv, Balanced
    <3> QED BY <1>11, <2>1, <2>4, <3>1 DEF One
  <2>5. CASE f \in tag[t].enabled
    <3>1. Weight(t, e) >= One(f \in tag[t].enabled)
      BY <1>1, <2>1 DEF ToldInv, Balanced
    <3>2. balance[t][f] \in Int
      BY <1>1, <2>1, EventNames DEF CreationInv, GhostTypes
    <3>3. balance[t][f] - One(f \in tag[t].raised) >= 1
      BY <2>2, <2>3, <2>5, <3>1, <3>2 DEF One
    <3> HIDE DEF e, f
    <3> QED BY <1>17, <2>2, <3>2, <3>3 DEF One
  <2> QED BY <2>3, <2>4, <2>5
<1>18. ASSUME NEW s \in Tags
       PROVE  /\ Calm(tag'[s]) /\ (Unread(tag'[s]) => ~cond'[s])
              /\ e \in tag'[s].raised => Weight(s, e)' >= 1
  <2>1. CASE s = t
    BY <1>7, <1>8, <1>10, <1>11, <1>17, <2>1
  <2>2. CASE s # t
    <3>1. Weight(s, e)' = Weight(s, e) /\ tag'[s] = tag[s] /\ cond'[s] = cond[s]
      BY <1>10, <1>11, <1>16, <2>2
    <3> QED BY <3>1 DEF Uncalled
  <2> QED BY <2>1, <2>2
<1> QED BY <1>10, <1>12, <1>18 DEF Uncalled, Calm, Unread

(* A thread in the library *)
LEMMA StepUncalled ==
  ASSUME EventAssumption, IInv, BaseInv', Uncalled, NEW c \in Threads, Step(c)
  PROVE  Uncalled'
<1>1. pc[c] \in {"idle", "create", "tick", "events", "deliver", "peer"}
  BY DEF Uncalled
<1>2. /\ \A sync, b \in BOOLEAN : ~ReadStart(c, sync, b) /\ ~WriteStart(c, sync, b)
      /\ ~Wake(c) /\ ~WaitTimeout(c) /\ ~Check(c) /\ ~End(c) /\ ~WriteCompleted(c)
      /\ ~AbortFlag(c) /\ ~AbortRun(c) /\ ~Destroyed(c)
  BY <1>1 DEF ReadStart, WriteStart, Wake, WaitTimeout, Check, End, WriteCompleted, AbortFlag,
              AbortRun, Destroyed
<1>3. CASE CreateEnd(c)
  BY <1>3, CreateEndUncalled
<1>4. CASE \/ EnterEvents(c) \/ Callback(c) \/ CallbackCalls(c) \/ CallbackReturns(c)
           \/ LeaveEvents(c)
  BY <1>4, EventsUncalled
<1> QED BY <1>2, <1>3, <1>4 DEF Step

(* Whatever is done, the calls are counted. *)
LEMMA NextCalls ==
  ASSUME EventAssumption, Next
  PROVE  \/ calls' = calls + 1
         \/ /\ calls' = calls
            /\ \/ \E t \in Tags : Fetch(t) \/ \E reply \in {"good", "bad"} : Respond(t, reply)
               \/ \E due \in BOOLEAN : Tick(due)
               \/ TickSkip
               \/ \E c \in Threads : Step(c)
<1>1. ASSUME NEW c \in Clients, NEW t \in Tags, ApiCall(c, t) PROVE calls' = calls + 1
  BY <1>1 DEF ApiCall, Read, Write, Abort, Register, Unregister, Enter, CanCall
<1>2. ASSUME NEW t \in Tags, Fetch(t) PROVE calls' = calls
  BY <1>2 DEF Fetch
<1>3. ASSUME NEW t \in Tags, NEW reply \in {"good", "bad"}, Respond(t, reply) PROVE calls' = calls
  BY <1>3, SMTT(30) DEF Respond
<1>4. ASSUME TicklerStep PROVE calls' = calls
  BY <1>4, ZenonT(60) DEF TicklerStep, Tick, TickSkip
<1>5. ASSUME NEW c \in Threads, Step(c) PROVE calls' = calls
  BY <1>5 DEF Step, EnterEvents, Callback, CallbackCalls, CallbackReturns, LeaveEvents, CreateEnd,
              ReadStart, WriteStart, Wake, WaitTimeout, Check, End, WriteCompleted, AbortFlag,
              AbortRun, Destroyed
<1> QED BY <1>1, <1>2, <1>3, <1>4, <1>5 DEF Next, TicklerStep

LEMMA NextCallInv ==
  ASSUME EventAssumption, IInv, BaseInv', Next, AutoRead, Single
  PROVE  CallInv'
<1>1. CallInv
  BY DEF IInv
<1>2. calls' \in Nat /\ (calls' = 0 => calls = 0)
  BY <1>1, NextCalls DEF CallInv
<1>3. ASSUME calls' = 0 PROVE Uncalled'
  <2>1. Uncalled /\ calls' # calls + 1
    BY <1>1, <1>2, <1>3 DEF CallInv
  <2>2. ASSUME NEW t \in Tags, Fetch(t) \/ TickSkip PROVE Uncalled'
    BY <2>1, <2>2, FetchUncalled
  <2>3. ASSUME NEW t \in Tags, NEW reply \in {"good", "bad"}, Respond(t, reply) PROVE Uncalled'
    BY <2>1, <2>3, RespondUncalled
  <2>4. ASSUME NEW due \in BOOLEAN, Tick(due) PROVE Uncalled'
    BY <2>1, <2>4, TickUncalled
  <2>5. ASSUME NEW c \in Threads, Step(c) PROVE Uncalled'
    BY <2>1, <2>5, StepUncalled
  <2>6. ASSUME TickSkip PROVE \E t \in Tags : TRUE
    <3>1. pc[TicklerThread] = "tick" /\ TicklerThread \in Threads
      BY <2>6, ThreadFacts DEF TickSkip
    <3> QED BY <3>1, Here
  <2> QED BY <2>1, <2>2, <2>3, <2>4, <2>5, <2>6, NextCalls
<1> QED BY <1>2, <1>3 DEF CallInv

LEMMA NextIInv ==
  ASSUME EventAssumption, IInv, [Next]_vars
  PROVE  IInv'
<1>1. ASSUME NEW t \in Tags, Fetch(t) PROVE BaseInv'
  BY <1>1, FetchIInv
<1>2. ASSUME NEW t \in Tags, NEW reply \in {"good", "bad"}, Respond(t, reply) PROVE BaseInv'
  BY <1>2, RespondIInv
<1>3. ASSUME TicklerStep PROVE BaseInv'
  BY <1>3, TickIInv, TickSkipIInv DEF TicklerStep
<1>4. ASSUME NEW c \in Threads, Step(c) PROVE BaseInv'
  BY <1>4, StepIInv
<1>5. ASSUME NEW c \in Clients, NEW t \in Tags, ApiCall(c, t) PROVE BaseInv'
  BY <1>5, ReadIInv, WriteIInv, AbortIInv, RegisterIInv DEF ApiCall
<1>6. CASE Next
  <2>1. BaseInv'
    BY <1>1, <1>2, <1>3, <1>4, <1>5, <1>6 DEF Next
  <2>2. AutoRead /\ Single => CallInv'
    BY <1>6, <2>1, NextCallInv
  <2> QED BY <2>1, <2>2 DEF IInv, Single
<1>7. CASE UNCHANGED vars
  BY <1>7, StutterIInv
<1> QED BY <1>6, <1>7

(* The invariant: who has a mutex is where it is needed, at its tag, what  *)
(* follows the creation waits for it, and what is raised, pending and told *)
(* of fits, unless automatic reads meet several calls.                     *)
THEOREM EventsInvariant ==
  ASSUME EventAssumption
  PROVE  Spec => []IInv
<1>1. Init => IInv
  BY InitIInv
<1>2. IInv /\ [Next]_vars => IInv'
  BY NextIInv
<1> QED BY <1>1, <1>2, PTL DEF Spec

(* The types, and that a thread has a mutex just where it delivers events, *)
(* is in a callback that calls on, or is about to start an operation       *)
(* (lib.c, critical_block(tag->api_mutex)).                                *)
THEOREM EventTypes ==
  ASSUME EventAssumption
  PROVE  Spec => []TypeOK
<1>1. IInv => TypeOK
  <2> SUFFICES ASSUME IInv PROVE TypeOK
    OBVIOUS
  <2>1. tag \in [Tags -> TagRecord] /\ owner \in [Tags -> Threads \cup {None}]
        /\ on \in [Threads -> Tags \cup {None}]
    BY DEF IInv, BaseInv, TagTypes, MutexInv, Types
  <2>2. ASSUME NEW c \in Threads
        PROVE  pc[c] \in {"deliver", "peer", "read", "write"} <=> \E t \in Tags : owner[t] = c
    <3>1. ASSUME pc[c] \in Holding PROVE \E t \in Tags : owner[t] = c
      BY <3>1 DEF IInv, BaseInv, MutexInv, Types, AtTag, HolderOwns, Holding
    <3>2. ASSUME NEW t \in Tags, owner[t] = c PROVE pc[c] \in Holding
      BY <3>2, ThreadFacts DEF IInv, BaseInv, MutexInv, OwnerHolds
    <3> QED BY <3>1, <3>2 DEF Holding
  <2> QED BY <2>1, <2>2 DEF TypeOK, TagRecord
<1> QED BY <1>1, EventsInvariant, PTL

(* The callbacks call down a hierarchy of tags: each calls functions of    *)
(* tags of a lower level, or of its own.                                   *)
Hierarchy ==
  \E level \in [Tags -> Nat] :
    \A t \in Tags : Peer[t] \notin {None, t} => level[Peer[t]] < level[t]

LEMMA HierarchyFree ==
  ASSUME EventAssumption, Hierarchy, IInv
  PROVE  NoDeadlock
<1> SUFFICES ASSUME IInv, NEW S \in SUBSET Threads, S # {}, \A c \in S : Awaited(c) \cap S # {}
             PROVE  FALSE
  BY DEF NoDeadlock
<1>1. PICK level \in [Tags -> Nat] :
        \A t \in Tags : Peer[t] \notin {None, t} => level[Peer[t]] < level[t]
  BY DEF Hierarchy
<1>2. ASSUME NEW c \in S
      PROVE  on[c] \in Tags /\ \E d \in S : on[d] \in Tags /\ level[on[d]] < level[on[c]]
  <2> DEFINE p == Peer[on[c]]
             d == owner[p]
  <2>1. pc[c] = "peer" /\ ~Free(c, p) /\ d \in S
    BY <1>2 DEF Awaited
  <2>2. on[c] \in Tags /\ owner[on[c]] = c /\ p # None
    BY <2>1 DEF IInv, BaseInv, MutexInv, Types, AtTag, HolderOwns, PeerThere, Holding
  <2>3. d \notin {None, c} /\ p # on[c] /\ p \in Tags
    BY <2>1, <2>2 DEF Free, EventAssumption
  <2>4. on[d] = p
    BY <2>3 DEF IInv, BaseInv, MutexInv, OwnerHolds
  <2>5. level[p] < level[on[c]]
    BY <1>1, <2>2, <2>3
  <2> HIDE DEF d, p
  <2> QED BY <2>1, <2>2, <2>3, <2>4, <2>5
<1> DEFINE L == {level[on[c]] : c \in S}
<1>3. L # {} /\ L \subseteq Nat
  BY <1>1, <1>2
<1>4. PICK l \in L : \A m \in L : ~ (<<m, l>> \in OpToRel(<, Nat))
  BY <1>3, NatLessThanWellFounded, WFMin, Zenon
<1>5. \A m \in L : ~ (m < l)
  BY <1>3, <1>4 DEF OpToRel
<1>6. PICK c \in S : l = level[on[c]]
  OBVIOUS
<1> QED BY <1>2, <1>5, <1>6

(* Callbacks that call other tags' functions down a hierarchy never wait   *)
(* for each other, whatever threads they run in (libplctag.h:260): among   *)
(* any threads, one that is told of events at a tag of the lowest level    *)
(* waits for none of them.                                                 *)
THEOREM NoDeadlockInHierarchy ==
  ASSUME EventAssumption, Hierarchy
  PROVE  Spec => []NoDeadlock
<1>1. IInv => NoDeadlock
  BY HierarchyFree
<1> QED BY <1>1, EventsInvariant, PTL

LEMMA OrderedWhenTold ==
  ASSUME EventAssumption, Single, IInv
  PROVE  ToldInOrder
<1> SUFFICES ASSUME NEW t \in Tags
             PROVE  /\ seen[t] \cap Later # {} => "CREATED" \in seen[t]
                    /\ \A e \in Range(Ends) : balance[t][e] >= 0
  BY DEF ToldInOrder, Later
<1>1. CreationInv /\ ToldInv
  BY DEF IInv, BaseInv
<1>2. seen[t] \cap Later # {} => "CREATED" \in seen[t]
  BY <1>1 DEF CreationInv, CreationFirst
<1>3. \A e \in Range(Ends) : \E s \in Starts : e = Ends[s]
  BY EventNames
<1>4. \A s \in Starts : balance[t][Ends[s]] >= 0
  BY <1>1 DEF ToldInv, Balanced
<1> QED BY <1>2, <1>3, <1>4

(* In whatever order threads raise and handle events, the callback is told *)
(* of the creation before an end or an abort, and never of more ends of    *)
(* reads, or of writes, than of starts (tag_raise_event()).  With          *)
(* automatic reads this takes that the application makes no more than one  *)
(* call beside them: a read of its own raises its start even while that of *)
(* an automatic read is raised, and two starts that are raised at once are *)
(* told of once (lib.c, plc_tag_read()).                                   *)
THEOREM ToldInOrderWithOneCall ==
  ASSUME EventAssumption, AutoRead => MaxCalls <= 1
  PROVE  Spec => []ToldInOrder
<1>1. IInv => ToldInOrder
  BY OrderedWhenTold DEF Single
<1> QED BY <1>1, EventsInvariant, PTL

(* Whatever the tickler and the application do, the callback is told of    *)
(* the creation before an end or an abort (tag_raise_event()).             *)
CreatedIsFirst ==
  \A t \in Tags : seen[t] \cap (Range(Ends) \cup {"ABORTED"}) # {} => "CREATED" \in seen[t]

THEOREM CreatedIsToldFirst ==
  ASSUME EventAssumption
  PROVE  Spec => []CreatedIsFirst
<1>1. IInv => CreatedIsFirst
  BY DEF IInv, BaseInv, CreationInv, CreationFirst, CreatedIsFirst, Later
<1> QED BY <1>1, EventsInvariant, PTL

=============================================================================
