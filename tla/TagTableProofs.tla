--------------------------- MODULE TagTableProofs ---------------------------
(* Proofs about TagTable: type correctness, that the reference counts are  *)
(* exact and nothing is used after it was freed, and that the table        *)
(* implements TagOwnership, for any number of threads, tags and handles.   *)
(* The last theorem is about the session beside it in the run.             *)
EXTENDS MCTagTable, FiniteSetTheorems, TLAPS

-----------------------------------------------------------------------------
(* Type correctness. *)

LEMMA TypeInit == Init => TypeOK
<1> SUFFICES ASSUME Init PROVE TypeOK
  OBVIOUS
<1>1. StartId \in Ids
  BY IdAssumption DEF Ids
<1>2. pc \in [Threads -> AllPcs]
  BY DEF Init, AllPcs
<1>3. /\ mem \in [Tags -> {"none", "live", "freed"}]
      /\ count \in [Tags -> Nat]
      /\ tagId \in [Tags -> Ids \cup {0}]
  BY DEF Init
<1>4. /\ table \in [Ids -> Tags \cup {NoTag}]
      /\ ptr \in [Threads -> Tags \cup {NoTag}]
      /\ doomed \in [Threads -> Tags \cup {NoTag}]
  BY DEF Init
<1> QED BY <1>1, <1>2, <1>3, <1>4 DEF Init, TypeOK

(* tag_id_inc() stays among the handles: it skips zero and wraps around. *)
LEMMA TagIdIncType ==
  ASSUME NEW id \in Ids, NEW k \in Nat
  PROVE  TagIdInc(id, k) \in Ids
  BY IdAssumption DEF TagIdInc, Ids

(* What one step needs to know to keep the types: which threads have a tag. *)
TypeInv == TypeOK /\ PointersFit /\ TicklerFits

LEMMA TypeInvInit == Init => TypeInv
<1> SUFFICES ASSUME Init PROVE PointersFit /\ TicklerFits
  BY TypeInit DEF TypeInv
<1>1. PointersFit
  BY DEF Init, PointersFit
<1>2. TicklerFits
  BY DEF Init, TicklerFits, Threads
<1> QED BY <1>1, <1>2

LEMMA TypeCreateAlloc ==
  ASSUME TypeInv, NEW t \in Clients, NEW g \in Tags, CreateAlloc(t, g)
  PROVE  TypeInv'
<1>1. TypeOK'
  BY TaskAssumption DEF TypeInv, TypeOK, PointersFit, CreateAlloc, Threads, AllPcs, CountedPcs, CreatorPcs, ShutdownPcs
<1>2. PointersFit'
  BY TaskAssumption, TagAssumption DEF TypeInv, TypeOK, PointersFit, TicklerFits, CreateAlloc, Threads, AllPcs
<1>3. TicklerFits'
  BY TaskAssumption DEF TypeInv, TypeOK, TicklerFits, PointersFit, CreateAlloc, Threads, AllPcs
<1> QED BY <1>1, <1>2, <1>3 DEF TypeInv

LEMMA TypeLookupTag ==
  ASSUME TypeInv, NEW t \in Clients, NEW id \in Ids, LookupTag(t, id)
  PROVE  TypeInv'
<1>1. TypeOK'
  BY TaskAssumption DEF TypeInv, TypeOK, PointersFit, LookupTag, RcInc, Threads, AllPcs, CountedPcs, CreatorPcs, ShutdownPcs
<1>2. PointersFit'
  BY TaskAssumption, TagAssumption DEF TypeInv, TypeOK, PointersFit, TicklerFits, LookupTag, RcInc, Threads, AllPcs
<1>3. TicklerFits'
  BY TaskAssumption DEF TypeInv, TypeOK, TicklerFits, PointersFit, LookupTag, RcInc, Threads, AllPcs
<1> QED BY <1>1, <1>2, <1>3 DEF TypeInv

LEMMA TypeDestroyRemove ==
  ASSUME TypeInv, NEW t \in Clients, NEW id \in Ids, DestroyRemove(t, id)
  PROVE  TypeInv'
<1>1. TypeOK'
  BY TaskAssumption DEF TypeInv, TypeOK, PointersFit, DestroyRemove, Unbind, Threads, AllPcs, CountedPcs, CreatorPcs, ShutdownPcs
<1>2. PointersFit'
  BY TaskAssumption, TagAssumption DEF TypeInv, TypeOK, PointersFit, TicklerFits, DestroyRemove, Unbind, Threads, AllPcs
<1>3. TicklerFits'
  BY TaskAssumption DEF TypeInv, TypeOK, TicklerFits, PointersFit, DestroyRemove, Unbind, Threads, AllPcs
<1> QED BY <1>1, <1>2, <1>3 DEF TypeInv

LEMMA TypeShutdownScan ==
  ASSUME TypeInv, NEW t \in Clients, NEW id \in Ids, ShutdownScan(t, id)
  PROVE  TypeInv'
<1>1. TypeOK'
  BY TaskAssumption DEF TypeInv, TypeOK, PointersFit, ShutdownScan, RcInc, Threads, AllPcs, CountedPcs, CreatorPcs, ShutdownPcs
<1>2. PointersFit'
  BY TaskAssumption, TagAssumption DEF TypeInv, TypeOK, PointersFit, TicklerFits, ShutdownScan, RcInc, Threads, AllPcs
<1>3. TicklerFits'
  BY TaskAssumption DEF TypeInv, TypeOK, TicklerFits, PointersFit, ShutdownScan, RcInc, Threads, AllPcs
<1> QED BY <1>1, <1>2, <1>3 DEF TypeInv

LEMMA TypeTicklerScan ==
  ASSUME TypeInv, NEW g \in Tags, TicklerScan(g)
  PROVE  TypeInv'
<1>1. TypeOK'
  BY TaskAssumption DEF TypeInv, TypeOK, PointersFit, TicklerScan, RcInc, Threads, AllPcs, CountedPcs, CreatorPcs, ShutdownPcs
<1>2. PointersFit'
  BY TaskAssumption, TagAssumption DEF TypeInv, TypeOK, PointersFit, TicklerFits, TicklerScan, RcInc, Threads, AllPcs
<1>3. TicklerFits'
  BY TaskAssumption DEF TypeInv, TypeOK, TicklerFits, PointersFit, TicklerScan, RcInc, Threads, AllPcs
<1> QED BY <1>1, <1>2, <1>3 DEF TypeInv

LEMMA TypeTicklerStop ==
  ASSUME TypeInv, TicklerStop
  PROVE  TypeInv'
<1>1. TypeOK'
  BY TaskAssumption DEF TypeInv, TypeOK, PointersFit, TicklerStop, Threads, AllPcs, CountedPcs, CreatorPcs, ShutdownPcs
<1>2. PointersFit'
  BY TaskAssumption, TagAssumption DEF TypeInv, TypeOK, PointersFit, TicklerFits, TicklerStop, Threads, AllPcs
<1>3. TicklerFits'
  BY TaskAssumption DEF TypeInv, TypeOK, TicklerFits, PointersFit, TicklerStop, Threads, AllPcs
<1> QED BY <1>1, <1>2, <1>3 DEF TypeInv

LEMMA TypeCreateFail ==
  ASSUME TypeInv, NEW t \in Clients, CreateFail(t)
  PROVE  TypeInv'
<1>1. TypeOK'
  BY TaskAssumption DEF TypeInv, TypeOK, PointersFit, CreateFail, RcDec, Threads, AllPcs, CountedPcs, CreatorPcs, ShutdownPcs
<1>2. PointersFit'
  BY TaskAssumption, TagAssumption DEF TypeInv, TypeOK, PointersFit, TicklerFits, CreateFail, RcDec, Threads, AllPcs
<1>3. TicklerFits'
  BY TaskAssumption DEF TypeInv, TypeOK, TicklerFits, PointersFit, CreateFail, RcDec, Threads, AllPcs
<1> QED BY <1>1, <1>2, <1>3 DEF TypeInv

LEMMA TypeSetTagId ==
  ASSUME TypeInv, NEW t \in Clients, SetTagId(t)
  PROVE  TypeInv'
<1>1. TypeOK'
  BY TaskAssumption DEF TypeInv, TypeOK, PointersFit, SetTagId, Threads, AllPcs, CountedPcs, CreatorPcs, ShutdownPcs
<1>2. PointersFit'
  BY TaskAssumption, TagAssumption DEF TypeInv, TypeOK, PointersFit, TicklerFits, SetTagId, Threads, AllPcs
<1>3. TicklerFits'
  BY TaskAssumption DEF TypeInv, TypeOK, TicklerFits, PointersFit, SetTagId, Threads, AllPcs
<1> QED BY <1>1, <1>2, <1>3 DEF TypeInv

LEMMA TypeCreateReturn ==
  ASSUME TypeInv, NEW t \in Clients, CreateReturn(t)
  PROVE  TypeInv'
<1>1. TypeOK'
  BY TaskAssumption DEF TypeInv, TypeOK, PointersFit, CreateReturn, Threads, AllPcs, CountedPcs, CreatorPcs, ShutdownPcs
<1>2. PointersFit'
  BY TaskAssumption, TagAssumption DEF TypeInv, TypeOK, PointersFit, TicklerFits, CreateReturn, Threads, AllPcs
<1>3. TicklerFits'
  BY TaskAssumption DEF TypeInv, TypeOK, TicklerFits, PointersFit, CreateReturn, Threads, AllPcs
<1> QED BY <1>1, <1>2, <1>3 DEF TypeInv

LEMMA TypeCreateError ==
  ASSUME TypeInv, NEW t \in Clients, CreateError(t)
  PROVE  TypeInv'
<1>1. TypeOK'
  BY TaskAssumption DEF TypeInv, TypeOK, PointersFit, CreateError, Unbind, Threads, AllPcs, CountedPcs, CreatorPcs, ShutdownPcs
<1>2. PointersFit'
  BY TaskAssumption, TagAssumption DEF TypeInv, TypeOK, PointersFit, TicklerFits, CreateError, Unbind, Threads, AllPcs
<1>3. TicklerFits'
  BY TaskAssumption DEF TypeInv, TypeOK, TicklerFits, PointersFit, CreateError, Unbind, Threads, AllPcs
<1> QED BY <1>1, <1>2, <1>3 DEF TypeInv

LEMMA TypeCreatedCallback ==
  ASSUME TypeInv, NEW t \in Clients, CreatedCallback(t)
  PROVE  TypeInv'
<1>1. TypeOK'
  BY TaskAssumption DEF TypeInv, TypeOK, PointersFit, CreatedCallback, Threads, AllPcs, CountedPcs, CreatorPcs, ShutdownPcs
<1>2. PointersFit'
  BY TaskAssumption, TagAssumption DEF TypeInv, TypeOK, PointersFit, TicklerFits, CreatedCallback, Threads, AllPcs
<1>3. TicklerFits'
  BY TaskAssumption DEF TypeInv, TypeOK, TicklerFits, PointersFit, CreatedCallback, Threads, AllPcs
<1> QED BY <1>1, <1>2, <1>3 DEF TypeInv

LEMMA TypeRelease ==
  ASSUME TypeInv, NEW t \in Threads, Release(t)
  PROVE  TypeInv'
<1>1. TypeOK'
  BY TaskAssumption DEF TypeInv, TypeOK, PointersFit, Release, RcDec, Threads, AllPcs, CountedPcs, CreatorPcs, ShutdownPcs
<1>2. PointersFit'
  BY TaskAssumption, TagAssumption DEF TypeInv, TypeOK, PointersFit, TicklerFits, Release, RcDec, Threads, AllPcs
<1>3. TicklerFits'
  BY TaskAssumption DEF TypeInv, TypeOK, TicklerFits, PointersFit, Release, RcDec, Threads, AllPcs
<1> QED BY <1>1, <1>2, <1>3 DEF TypeInv

LEMMA TypeDestroyRelease ==
  ASSUME TypeInv, NEW t \in Clients, DestroyRelease(t)
  PROVE  TypeInv'
<1>1. TypeOK'
  BY TaskAssumption DEF TypeInv, TypeOK, PointersFit, DestroyRelease, RcDec, Threads, AllPcs, CountedPcs, CreatorPcs, ShutdownPcs
<1>2. PointersFit'
  BY TaskAssumption, TagAssumption DEF TypeInv, TypeOK, PointersFit, TicklerFits, DestroyRelease, RcDec, Threads, AllPcs
<1>3. TicklerFits'
  BY TaskAssumption DEF TypeInv, TypeOK, TicklerFits, PointersFit, DestroyRelease, RcDec, Threads, AllPcs
<1> QED BY <1>1, <1>2, <1>3 DEF TypeInv

LEMMA TypeCleanup ==
  ASSUME TypeInv, NEW t \in Threads, Cleanup(t)
  PROVE  TypeInv'
<1>1. TypeOK'
  BY TaskAssumption DEF TypeInv, TypeOK, PointersFit, Cleanup, Threads, AllPcs, CountedPcs, CreatorPcs, ShutdownPcs
<1>2. PointersFit'
  BY TaskAssumption, TagAssumption DEF TypeInv, TypeOK, PointersFit, TicklerFits, Cleanup, Threads, AllPcs
<1>3. TicklerFits'
  BY TaskAssumption DEF TypeInv, TypeOK, TicklerFits, PointersFit, Cleanup, Threads, AllPcs
<1> QED BY <1>1, <1>2, <1>3 DEF TypeInv

LEMMA TypeShutdownStart ==
  ASSUME TypeInv, NEW t \in Clients, ShutdownStart(t)
  PROVE  TypeInv'
<1>1. TypeOK'
  BY TaskAssumption DEF TypeInv, TypeOK, PointersFit, ShutdownStart, Threads, AllPcs, CountedPcs, CreatorPcs, ShutdownPcs
<1>2. PointersFit'
  BY TaskAssumption, TagAssumption DEF TypeInv, TypeOK, PointersFit, TicklerFits, ShutdownStart, Threads, AllPcs
<1>3. TicklerFits'
  BY TaskAssumption DEF TypeInv, TypeOK, TicklerFits, PointersFit, ShutdownStart, Threads, AllPcs
<1> QED BY <1>1, <1>2, <1>3 DEF TypeInv

LEMMA TypeShutdownDestroy ==
  ASSUME TypeInv, NEW t \in Clients, ShutdownDestroy(t)
  PROVE  TypeInv'
<1>1. TypeOK'
  BY TaskAssumption DEF TypeInv, TypeOK, PointersFit, ShutdownDestroy, Unbind, Threads, AllPcs, CountedPcs, CreatorPcs, ShutdownPcs
<1>2. PointersFit'
  BY TaskAssumption, TagAssumption DEF TypeInv, TypeOK, PointersFit, TicklerFits, ShutdownDestroy, Unbind, Threads, AllPcs
<1>3. TicklerFits'
  BY TaskAssumption DEF TypeInv, TypeOK, TicklerFits, PointersFit, ShutdownDestroy, Unbind, Threads, AllPcs
<1> QED BY <1>1, <1>2, <1>3 DEF TypeInv

LEMMA TypeShutdownDrop ==
  ASSUME TypeInv, NEW t \in Clients, ShutdownDrop(t)
  PROVE  TypeInv'
<1>1. TypeOK'
  BY TaskAssumption DEF TypeInv, TypeOK, PointersFit, ShutdownDrop, RcDec, Threads, AllPcs, CountedPcs, CreatorPcs, ShutdownPcs
<1>2. PointersFit'
  BY TaskAssumption, TagAssumption DEF TypeInv, TypeOK, PointersFit, TicklerFits, ShutdownDrop, RcDec, Threads, AllPcs
<1>3. TicklerFits'
  BY TaskAssumption DEF TypeInv, TypeOK, TicklerFits, PointersFit, ShutdownDrop, RcDec, Threads, AllPcs
<1> QED BY <1>1, <1>2, <1>3 DEF TypeInv

LEMMA TypeShutdownSessions ==
  ASSUME TypeInv, NEW t \in Clients, ShutdownSessions(t)
  PROVE  TypeInv'
<1>1. TypeOK'
  BY TaskAssumption DEF TypeInv, TypeOK, PointersFit, ShutdownSessions, Threads, AllPcs, CountedPcs, CreatorPcs, ShutdownPcs
<1>2. PointersFit'
  BY TaskAssumption, TagAssumption DEF TypeInv, TypeOK, PointersFit, TicklerFits, ShutdownSessions, Threads, AllPcs
<1>3. TicklerFits'
  BY TaskAssumption DEF TypeInv, TypeOK, TicklerFits, PointersFit, ShutdownSessions, Threads, AllPcs
<1> QED BY <1>1, <1>2, <1>3 DEF TypeInv

LEMMA TypeShutdownJoin ==
  ASSUME TypeInv, NEW t \in Clients, ShutdownJoin(t)
  PROVE  TypeInv'
<1>1. TypeOK'
  BY TaskAssumption DEF TypeInv, TypeOK, PointersFit, ShutdownJoin, Threads, AllPcs, CountedPcs, CreatorPcs, ShutdownPcs
<1>2. PointersFit'
  BY TaskAssumption, TagAssumption DEF TypeInv, TypeOK, PointersFit, TicklerFits, ShutdownJoin, Threads, AllPcs
<1>3. TicklerFits'
  BY TaskAssumption DEF TypeInv, TypeOK, TicklerFits, PointersFit, ShutdownJoin, Threads, AllPcs
<1> QED BY <1>1, <1>2, <1>3 DEF TypeInv

LEMMA TypeAddTagLookup ==
  ASSUME TypeInv, NEW t \in Clients, AddTagLookup(t)
  PROVE  TypeInv'
<1> DEFINE free == {k \in 1..MaxAttempts : table[TagIdInc(nextId, k)] = NoTag}
<1> USE DEF TypeInv, TypeOK
<1>1. /\ pc[t] = "add" /\ ptr[t] \in Tags
      /\ UNCHANGED <<mem, tagId, published, doomed, todo, terminating, libUp>>
  BY DEF AddTagLookup, PointersFit, Threads
<1>2. CASE \E k \in free :
             /\ table' = [table EXCEPT ![TagIdInc(nextId, k)] = ptr[t]]
             /\ nextId' = TagIdInc(nextId, k)
             /\ pc' = [pc EXCEPT ![t] = "setid"]
             /\ UNCHANGED <<count, ptr>>
  <2>1. PICK k \in free : /\ table' = [table EXCEPT ![TagIdInc(nextId, k)] = ptr[t]]
                          /\ nextId' = TagIdInc(nextId, k)
                          /\ pc' = [pc EXCEPT ![t] = "setid"]
                          /\ UNCHANGED <<count, ptr>>
    BY <1>2
  <2>2. TagIdInc(nextId, k) \in Ids
    BY TagIdIncType, IdAssumption
  <2>3. TypeOK'
    BY <1>1, <2>1, <2>2 DEF Threads, AllPcs, CreatorPcs
  <2>4. PointersFit'
    BY <1>1, <2>1 DEF PointersFit, Threads
  <2>5. TicklerFits'
    BY <1>1, <2>1, TaskAssumption DEF TicklerFits, Threads
  <2> QED BY <2>3, <2>4, <2>5
<1>3. CASE /\ nextId' = TagIdInc(nextId, MaxAttempts)
           /\ RcDec(t, ptr[t], "idle")
           /\ UNCHANGED table
  <2>1. nextId' \in Ids
    BY <1>3, TagIdIncType, IdAssumption
  <2>2. TypeOK'
    BY <1>1, <1>3, <2>1 DEF RcDec, Threads, AllPcs
  <2>3. PointersFit'
    BY <1>1, <1>3, TagAssumption DEF PointersFit, RcDec, Threads
  <2>4. TicklerFits'
    BY <1>1, <1>3, TaskAssumption DEF TicklerFits, RcDec, Threads
  <2> QED BY <2>2, <2>3, <2>4
<1> QED BY <1>2, <1>3 DEF AddTagLookup

LEMMA TypeInvStep == TypeInv /\ [Next]_vars => TypeInv'
<1> SUFFICES ASSUME TypeInv, [Next]_vars PROVE TypeInv'
  OBVIOUS
<1>1. CASE UNCHANGED vars
  BY <1>1 DEF vars, TypeInv, TypeOK, PointersFit, TicklerFits
<1>2. ASSUME NEW t \in Clients, ClientCall(t) PROVE TypeInv'
  BY <1>2, TypeCreateAlloc, TypeLookupTag, TypeDestroyRemove DEF ClientCall
<1>3. ASSUME NEW t \in Clients, ClientStep(t) PROVE TypeInv'
  <2>1. t \in Threads
    BY DEF Threads
  <2> QED
    BY <1>3, <2>1, TypeCreateFail, TypeAddTagLookup, TypeSetTagId, TypeCreateReturn, TypeCreateError,
       TypeCreatedCallback, TypeRelease, TypeDestroyRelease, TypeCleanup
    DEF ClientStep, CreateWait
<1>4. ASSUME NEW t \in Clients, ShutdownStart(t) \/ ShutdownStep(t) PROVE TypeInv'
  BY <1>4, TypeShutdownStart, TypeShutdownScan, TypeShutdownDestroy, TypeShutdownDrop,
     TypeShutdownSessions, TypeShutdownJoin
  DEF ShutdownStep
<1>5. CASE TicklerStep
  <2>1. Tickler \in Threads
    BY DEF Threads
  <2> QED
    BY <1>5, <2>1, TypeTicklerScan, TypeTicklerStop, TypeRelease, TypeCleanup DEF TicklerStep
<1> QED BY <1>1, <1>2, <1>3, <1>4, <1>5 DEF Next

(* The types hold in every state, and a thread has a tag in its hands      *)
(* exactly where the code needs one.                                       *)
THEOREM TypeCorrect == Spec => [](TypeOK /\ PointersFit /\ TicklerFits)
<1>1. TypeInv <=> TypeOK /\ PointersFit /\ TicklerFits
  BY DEF TypeInv
<1> QED BY <1>1, TypeInvInit, TypeInvStep, PTL DEF Spec

-----------------------------------------------------------------------------
(* How the set of owners of one tag follows from the table, the threads'   *)
(* pointers and the doomed ones; and what that does to its cardinality.    *)

LEMMA OwnersSame ==
  ASSUME NEW h, Slots(h)' = Slots(h), Holders(h)' = Holders(h), Doomers(h)' = Doomers(h)
  PROVE  Owners(h)' = Owners(h)
  BY DEF Owners

LEMMA HolderJoins ==
  ASSUME NEW h, NEW t, t \notin Holders(h),
         Slots(h)' = Slots(h), Holders(h)' = Holders(h) \cup {t}, Doomers(h)' = Doomers(h)
  PROVE  Owners(h)' = Owners(h) \cup {<<"ptr", t>>} /\ <<"ptr", t>> \notin Owners(h)
  BY DEF Owners

LEMMA HolderLeaves ==
  ASSUME NEW h, NEW t, t \in Holders(h),
         Slots(h)' = Slots(h), Holders(h)' = Holders(h) \ {t}, Doomers(h)' = Doomers(h)
  PROVE  Owners(h)' = Owners(h) \ {<<"ptr", t>>} /\ <<"ptr", t>> \in Owners(h)
  BY DEF Owners

LEMMA DoomerLeaves ==
  ASSUME NEW h, NEW t, t \in Doomers(h),
         Slots(h)' = Slots(h), Holders(h)' = Holders(h), Doomers(h)' = Doomers(h) \ {t}
  PROVE  Owners(h)' = Owners(h) \ {<<"doomed", t>>} /\ <<"doomed", t>> \in Owners(h)
  BY DEF Owners

LEMMA HolderRegisters ==
  ASSUME NEW h, NEW t, NEW id, t \in Holders(h), id \notin Slots(h),
         Slots(h)' = Slots(h) \cup {id}, Holders(h)' = Holders(h) \ {t}, Doomers(h)' = Doomers(h)
  PROVE  /\ Owners(h)' = (Owners(h) \ {<<"ptr", t>>}) \cup {<<"table", id>>}
         /\ <<"ptr", t>> \in Owners(h) /\ <<"table", id>> \notin Owners(h)
  BY DEF Owners

LEMMA SlotToHolder ==
  ASSUME NEW h, NEW t, NEW id, t \notin Holders(h), id \in Slots(h),
         Slots(h)' = Slots(h) \ {id}, Holders(h)' = Holders(h) \cup {t}, Doomers(h)' = Doomers(h)
  PROVE  /\ Owners(h)' = (Owners(h) \ {<<"table", id>>}) \cup {<<"ptr", t>>}
         /\ <<"table", id>> \in Owners(h) /\ <<"ptr", t>> \notin Owners(h)
  BY DEF Owners

LEMMA SlotToDoomer ==
  ASSUME NEW h, NEW t, NEW id, t \notin Doomers(h), id \in Slots(h),
         Slots(h)' = Slots(h) \ {id}, Holders(h)' = Holders(h), Doomers(h)' = Doomers(h) \cup {t}
  PROVE  /\ Owners(h)' = (Owners(h) \ {<<"table", id>>}) \cup {<<"doomed", t>>}
         /\ <<"table", id>> \in Owners(h) /\ <<"doomed", t>> \notin Owners(h)
  BY DEF Owners

(* Adding, removing and exchanging one element. *)
LEMMA CardAdd ==
  ASSUME NEW S, IsFiniteSet(S), NEW x, x \notin S
  PROVE  IsFiniteSet(S \cup {x}) /\ Cardinality(S \cup {x}) = Cardinality(S) + 1
  BY FS_AddElement

LEMMA CardRemove ==
  ASSUME NEW S, IsFiniteSet(S), NEW x, x \in S
  PROVE  IsFiniteSet(S \ {x}) /\ Cardinality(S \ {x}) = Cardinality(S) - 1
  BY FS_RemoveElement

LEMMA CardExchange ==
  ASSUME NEW S, IsFiniteSet(S), NEW x, x \in S, NEW y, y \notin S
  PROVE  IsFiniteSet((S \ {x}) \cup {y}) /\ Cardinality((S \ {x}) \cup {y}) = Cardinality(S)
<1>1. IsFiniteSet(S \ {x}) /\ Cardinality(S \ {x}) = Cardinality(S) - 1
  BY CardRemove
<1>2. y \notin S \ {x}
  OBVIOUS
<1>3. Cardinality(S) \in Nat
  BY FS_CardinalityType
<1> QED BY <1>1, <1>2, <1>3, CardAdd

(* The last owner is the only one. *)
LEMMA CardOne ==
  ASSUME NEW S, IsFiniteSet(S), Cardinality(S) = 1, NEW x, x \in S
  PROVE  S \ {x} = {}
<1>1. IsFiniteSet(S \ {x}) /\ Cardinality(S \ {x}) = 0
  BY CardRemove
<1> QED BY <1>1, FS_EmptySet

-----------------------------------------------------------------------------
(* Consequences of the invariant: whoever can reach a tag finds it live.   *)

LEMMA OwnedFacts ==
  ASSUME IInv, NEW g \in Tags
  PROVE  /\ Bound(g) => Owners(g) # {}
         /\ \A t \in Threads : ptr[t] = g /\ pc[t] \in CountedPcs => Owners(g) # {}
         /\ \A t \in Threads : doomed[t] = g => Owners(g) # {}
         /\ Owners(g) # {} => count[g] > 0
         /\ count[g] = 1 => \A o \in Owners(g) : Owners(g) = {o}
<1>1. Bound(g) => Owners(g) # {}
  <2>1. \A id \in Slots(g) : <<"table", id>> \in Owners(g)
    BY DEF Owners
  <2> QED BY <2>1 DEF Bound, Slots
<1>2. \A t \in Threads : ptr[t] = g /\ pc[t] \in CountedPcs => Owners(g) # {}
  <2>1. \A t \in Holders(g) : <<"ptr", t>> \in Owners(g)
    BY DEF Owners
  <2> QED BY <2>1 DEF Holders
<1>3. \A t \in Threads : doomed[t] = g => Owners(g) # {}
  <2>1. \A t \in Doomers(g) : <<"doomed", t>> \in Owners(g)
    BY DEF Owners
  <2> QED BY <2>1 DEF Doomers
<1>4. Owners(g) # {} => count[g] > 0
  BY FS_EmptySet, FS_CardinalityType DEF IInv, FiniteCount
<1>5. count[g] = 1 => \A o \in Owners(g) : Owners(g) = {o}
  <2> SUFFICES ASSUME count[g] = 1, NEW o \in Owners(g) PROVE Owners(g) = {o}
    OBVIOUS
  <2>1. Owners(g) \ {o} = {}
    BY CardOne DEF IInv, FiniteCount
  <2> QED BY <2>1
<1> QED BY <1>1, <1>2, <1>3, <1>4, <1>5

(* A pointer is good: its tag is live. *)
LEMMA PointerIsLive ==
  ASSUME IInv, NEW t \in Threads
  PROVE  /\ ptr[t] # NoTag => ptr[t] \in Tags /\ mem[ptr[t]] = "live"
         /\ doomed[t] # NoTag => doomed[t] \in Tags /\ mem[doomed[t]] = "live"
         /\ pc[t] \in CreatorPcs => Bound(ptr[t])
<1>1. pc[t] \in CreatorPcs => Bound(ptr[t])
  BY DEF IInv, CreationIsPrivate, CreatorPcs, Bound
<1>2. /\ ptr[t] # NoTag => ptr[t] \in Tags
      /\ doomed[t] # NoTag => doomed[t] \in Tags
  BY DEF IInv, TypeOK
<1>3. doomed[t] # NoTag => mem[doomed[t]] = "live"
  BY <1>2, OwnedFacts DEF IInv, OwnedIsLive
<1>4. ASSUME ptr[t] # NoTag PROVE mem[ptr[t]] = "live"
  <2>1. pc[t] \in {"cleanup"} \cup CountedPcs \cup CreatorPcs
    BY <1>4 DEF IInv, TypeOK, PointersFit, AllPcs, ShutdownPcs, CountedPcs
  <2>2. CASE pc[t] = "cleanup"
    BY <1>2, <1>4, <2>2 DEF IInv, CleanerIsLast
  <2>3. CASE pc[t] \in CountedPcs
    BY <1>2, <1>4, <2>3, OwnedFacts DEF IInv, OwnedIsLive
  <2>4. CASE pc[t] \in CreatorPcs
    BY <1>1, <1>2, <1>4, <2>4, OwnedFacts DEF IInv, OwnedIsLive
  <2> QED BY <2>1, <2>2, <2>3, <2>4
<1> QED BY <1>1, <1>2, <1>3, <1>4

(* What a step does in the abstract view, TagOwnership, follows from what   *)
(* it does to the owners and to the memory of one tag.                     *)
View == <<[g \in Tags |-> Life(g)], [g \in Tags |-> Owners(g)]>>
Step == [Ownership!Next]_View

(* Nothing happens to tags but g. *)
OnlyAbout(g) == \A h \in Tags \ {g} : Owners(h)' = Owners(h) /\ mem'[h] = mem[h]

LEMMA OwnerNamesFit ==
  ASSUME NEW g \in Tags
  PROVE  Owners(g) \subseteq OwnerNames
  BY DEF Owners, Slots, Holders, Doomers, OwnerNames

LEMMA QuietStep ==
  ASSUME mem' = mem, \A h \in Tags : Owners(h)' = Owners(h)
  PROVE  Step
  BY DEF Step, View, Life

(* The tag that a step is about, as the abstract view has it. *)
LEMMA ViewOf ==
  ASSUME NEW g \in Tags, OnlyAbout(g)
  PROVE  /\ [h \in Tags |-> Owners(h)]' = [[h \in Tags |-> Owners(h)] EXCEPT ![g] = Owners(g)']
         /\ [h \in Tags |-> Life(h)]' = [[h \in Tags |-> Life(h)] EXCEPT ![g] = Life(g)']
<1>1. \A h \in Tags \ {g} : Life(h)' = Life(h)
  BY DEF OnlyAbout, Life
<1> QED BY <1>1 DEF OnlyAbout

LEMMA BornStep ==
  ASSUME NEW g \in Tags, OnlyAbout(g), NEW o \in OwnerNames,
         mem[g] = "none", mem'[g] = "live", Owners(g)' = {o}
  PROVE  Step
<1>1. Life(g) = "none" /\ Life(g)' = "live"
  BY DEF Life
<1>2. Ownership!Born(g, o) /\ Ownership!Changed(g)
  BY <1>1, ViewOf DEF Ownership!Born, Ownership!Changed
<1> QED BY <1>2 DEF Step, Ownership!Next

LEMMA AcquireStep ==
  ASSUME NEW g \in Tags, OnlyAbout(g), NEW o \in OwnerNames, o \notin Owners(g),
         mem[g] = "live", mem'[g] = mem[g], Owners(g) # {}, Owners(g)' = Owners(g) \cup {o}
  PROVE  Step
<1>1. Life(g) = "live" /\ Life(g)' = "live"
  BY DEF Life
<1>2. Ownership!Acquire(g, o) /\ Ownership!Changed(g)
  BY <1>1, ViewOf DEF Ownership!Acquire, Ownership!Changed
<1> QED BY <1>2 DEF Step, Ownership!Next

LEMMA TransferStep ==
  ASSUME NEW g \in Tags, OnlyAbout(g), NEW o \in Owners(g), NEW p \in OwnerNames,
         p \notin Owners(g), mem'[g] = mem[g], Owners(g)' = (Owners(g) \ {o}) \cup {p}
  PROVE  Step
<1>1. Life(g)' = Life(g)
  BY DEF Life
<1>2. Ownership!Transfer(g, o, p) /\ Ownership!Changed(g)
  BY <1>1, ViewOf DEF Ownership!Transfer, Ownership!Changed
<1> QED BY <1>2 DEF Step, Ownership!Next

LEMMA ReleaseStep ==
  ASSUME NEW g \in Tags, OnlyAbout(g), NEW o \in Owners(g),
         mem[g] = "live", mem'[g] = mem[g], Owners(g)' = Owners(g) \ {o}
  PROVE  Step
<1>1. Life(g) = "live" /\ Life(g)' = IF Owners(g) = {o} THEN "dying" ELSE "live"
  BY DEF Life
<1>2. Ownership!Release(g, o) /\ Ownership!Changed(g)
  BY <1>1, ViewOf DEF Ownership!Release, Ownership!Changed
<1> QED BY <1>2, OwnerNamesFit DEF Step, Ownership!Next

LEMMA ReclaimStep ==
  ASSUME NEW g \in Tags, OnlyAbout(g),
         mem[g] = "live", mem'[g] = "freed", Owners(g) = {}, Owners(g)' = {}
  PROVE  Step
<1>1. Life(g) = "dying" /\ Life(g)' = "freed"
  BY DEF Life
<1>2. Ownership!Reclaim(g) /\ Ownership!Changed(g)
  BY <1>1, ViewOf DEF Ownership!Reclaim, Ownership!Changed
<1> QED BY <1>2 DEF Step, Ownership!Next

(* Names that owners may have *)
LEMMA OwnerName ==
  /\ \A t \in Threads : <<"ptr", t>> \in OwnerNames /\ <<"doomed", t>> \in OwnerNames
  /\ \A id \in Ids : <<"table", id>> \in OwnerNames
  BY DEF OwnerNames

-----------------------------------------------------------------------------
(* plc_tag_create_ex(): a new tag, whose only owner is its creator. *)
LEMMA CreateAllocKeeps ==
  ASSUME IInv, NEW t \in Clients, NEW g \in Tags, CreateAlloc(t, g)
  PROVE  IInv' /\ Step
<1> t \in Threads /\ t # Tickler /\ Tickler \in Threads
  BY TaskAssumption DEF Threads
<1>1. TypeInv'
  BY TypeCreateAlloc DEF IInv, TypeInv
<1>2. /\ ~Bound(g) /\ Owners(g) = {} /\ g \notin published
      /\ \A u \in Threads : ptr[u] # g /\ doomed[u] # g
  <2>1. mem[g] # "live" /\ g # NoTag
    BY TagAssumption DEF CreateAlloc
  <2>2. \A u \in Threads : ptr[u] # g /\ doomed[u] # g
    BY <2>1, PointerIsLive
  <2>3. Owners(g) = {}
    BY <2>1 DEF IInv, OwnedIsLive
  <2> QED BY <2>2, <2>3, OwnedFacts DEF CreateAlloc, IInv, PublishedExists
<1>3. /\ Owners(g)' = {<<"ptr", t>>}
      /\ \A h \in Tags \ {g} : Owners(h)' = Owners(h)
  <2>1. /\ Slots(g)' = Slots(g) /\ Holders(g)' = Holders(g) \cup {t} /\ Doomers(g)' = Doomers(g)
        /\ t \notin Holders(g)
    BY <1>2 DEF CreateAlloc, Slots, Holders, Doomers, IInv, TypeOK, CountedPcs
  <2>2. ASSUME NEW h \in Tags \ {g}
        PROVE  Slots(h)' = Slots(h) /\ Holders(h)' = Holders(h) /\ Doomers(h)' = Doomers(h)
    BY DEF CreateAlloc, Slots, Holders, Doomers, IInv, TypeOK, TicklerFits, CountedPcs
  <2> QED BY <1>2, <2>1, <2>2, HolderJoins, OwnersSame, ZenonT(60)
<1>4. FiniteCount'
  <2>1. count' = [count EXCEPT ![g] = 1] /\ count \in [Tags -> Nat]
    BY DEF CreateAlloc, IInv, TypeOK
  <2>2. IsFiniteSet(Owners(g)') /\ Cardinality(Owners(g)') = 1
    BY <1>3, FS_Singleton
  <2>3. \A h \in Tags \ {g} : IsFiniteSet(Owners(h)') /\ count'[h] = Cardinality(Owners(h)')
    BY <1>3, <2>1 DEF IInv, FiniteCount
  <2> QED BY <2>1, <2>2, <2>3 DEF FiniteCount
<1>5. OwnedIsLive' /\ NoLeak'
  <2>1. mem' = [mem EXCEPT ![g] = "live"] /\ Owners(g)' # {}
    BY <1>3 DEF CreateAlloc
  <2>2. OwnedIsLive'
    BY <1>3, <2>1 DEF IInv, TypeOK, OwnedIsLive
  <2>3. ASSUME NEW h \in Tags \ {g}, mem'[h] = "live", Owners(h)' = {}
        PROVE  \E u \in Threads : pc'[u] = "cleanup" /\ ptr'[u] = h
    <3>1. PICK u \in Threads : pc[u] = "cleanup" /\ ptr[u] = h
      BY <1>3, <2>1, <2>3 DEF IInv, TypeOK, NoLeak
    <3>2. pc'[u] = "cleanup" /\ ptr'[u] = h
      BY <3>1 DEF CreateAlloc, IInv, TypeOK, TicklerFits
    <3> QED BY <3>2
  <2> QED BY <2>1, <2>2, <2>3 DEF NoLeak
<1>6. BoundOnce' /\ PublishedExists' /\ HandleStored'
  BY <1>2 DEF CreateAlloc, IInv, TypeOK, BoundOnce, PublishedExists, HandleStored, TicklerFits
<1>7. CreationIsPrivate'
  BY <1>2 DEF CreateAlloc, IInv, TypeOK, CreationIsPrivate, CreatorPcs, Bound, TicklerFits
<1>8. CleanerIsLast'
  BY <1>2, <1>3, PointerIsLive DEF CreateAlloc, IInv, TypeOK, CleanerIsLast, TicklerFits, PointersFit
<1>9. ShutdownIsAlone' /\ ShutdownKeeps'
  BY <1>2 DEF CreateAlloc, IInv, TypeOK, ShutdownIsAlone, ShutdownKeeps, TicklerFits, Bound, ShutdownPcs, Threads
<1>10. Step
  <2>1. OnlyAbout(g)
    BY <1>3 DEF CreateAlloc, IInv, TypeOK, OnlyAbout
  <2> QED BY <1>3, <2>1, OwnerName, BornStep DEF CreateAlloc, IInv, TypeOK
<1> QED BY <1>1, <1>4, <1>5, <1>6, <1>7, <1>8, <1>9, <1>10 DEF IInv, TypeInv

(* rc_inc() on a tag found in the table: lookup_tag(), the tickler and the *)
(* shutdown.                                                               *)
LEMMA RcIncKeeps ==
  ASSUME IInv, TypeInv', NEW t \in Threads, NEW g \in Tags, Bound(g),
         NEW next \in {"use", "tickle", "sd_kill"}, RcInc(t, g, next),
         pc[t] = IF next = "sd_kill" THEN "sd_scan" ELSE "idle",
         t = Tickler <=> next = "tickle", terminating <=> next = "sd_kill" \/ (terminating /\ next = "tickle"),
         UNCHANGED <<mem, table, tagId, published, doomed, terminating, libUp>>
  PROVE  IInv' /\ Step
<1> USE DEF IInv, TypeInv, TypeOK
<1>1. /\ count' = [count EXCEPT ![g] = @ + 1]
      /\ ptr' = [ptr EXCEPT ![t] = g]
      /\ pc' = [pc EXCEPT ![t] = next]
      /\ Owners(g) # {}
  BY OwnedFacts DEF RcInc
<1>2. /\ Owners(g)' = Owners(g) \cup {<<"ptr", t>>} /\ <<"ptr", t>> \notin Owners(g)
      /\ \A h \in Tags \ {g} : Owners(h)' = Owners(h)
  <2>1. /\ Slots(g)' = Slots(g) /\ Holders(g)' = Holders(g) \cup {t} /\ Doomers(g)' = Doomers(g)
        /\ t \notin Holders(g)
    BY <1>1 DEF Slots, Holders, Doomers, CountedPcs
  <2>2. ASSUME NEW h \in Tags \ {g}
        PROVE  Slots(h)' = Slots(h) /\ Holders(h)' = Holders(h) /\ Doomers(h)' = Doomers(h)
    BY <1>1 DEF Slots, Holders, Doomers, CountedPcs
  <2> QED BY <2>1, <2>2, HolderJoins, OwnersSame
<1>3. FiniteCount'
  <2>0. IsFiniteSet(Owners(g)) /\ count[g] = Cardinality(Owners(g))
    BY DEF FiniteCount
  <2>1. IsFiniteSet(Owners(g)') /\ count'[g] = Cardinality(Owners(g)')
    BY <1>1, <1>2, <2>0, CardAdd
  <2>2. \A h \in Tags \ {g} : IsFiniteSet(Owners(h)') /\ count'[h] = Cardinality(Owners(h)')
    BY <1>1, <1>2 DEF FiniteCount
  <2> QED BY <2>1, <2>2 DEF FiniteCount
<1>4. OwnedIsLive'
  BY <1>1, <1>2 DEF OwnedIsLive
<1>5. NoLeak'
  <2> SUFFICES ASSUME NEW h \in Tags \ {g}, mem[h] = "live", Owners(h) = {}
               PROVE  \E u \in Threads : pc'[u] = "cleanup" /\ ptr'[u] = h
    BY <1>2 DEF NoLeak
  <2>1. PICK u \in Threads : pc[u] = "cleanup" /\ ptr[u] = h
    BY DEF NoLeak
  <2> QED BY <1>1, <2>1
<1>6. BoundOnce' /\ PublishedExists' /\ HandleStored'
  <2>1. HandleStored'
    BY <1>1 DEF HandleStored
  <2> QED BY <2>1 DEF BoundOnce, PublishedExists
<1>7. CreationIsPrivate'
  BY <1>1 DEF CreationIsPrivate, CreatorPcs, Bound
<1>8. CleanerIsLast'
  <2>1. \A u \in Threads : pc'[u] = "cleanup" => u # t /\ pc[u] = "cleanup" /\ ptr'[u] = ptr[u]
    BY <1>1
  <2>2. \A u \in Threads : pc[u] = "cleanup" => ptr[u] # g
    BY <1>1 DEF CleanerIsLast
  <2> QED BY <1>2, <2>1, <2>2 DEF CleanerIsLast
<1>9. ShutdownIsAlone'
  BY <1>1, TaskAssumption DEF ShutdownIsAlone, ShutdownPcs, Threads
<1>10. ShutdownKeeps'
  BY <1>1 DEF ShutdownKeeps, Bound
<1>11. Step
  <2>1. OnlyAbout(g)
    BY <1>2 DEF OnlyAbout
  <2> QED BY <1>1, <1>2, <2>1, OwnerName, AcquireStep DEF OwnedIsLive
<1> QED BY <1>3, <1>4, <1>5, <1>6, <1>7, <1>8, <1>9, <1>10, <1>11

(* rc_dec() of a reference a thread holds: the end of every API call, of   *)
(* the tickler's turn, of a failed creation and of the shutdown's visit.   *)
LEMMA RcDecKeeps ==
  ASSUME IInv, TypeInv', NEW t \in Threads, pc[t] \in {"add", "use", "tickle", "drop", "sd_drop"},
         NEW g \in Tags, g = ptr[t], RcDec(t, g, IF pc[t] = "sd_drop" THEN "sd_scan" ELSE "idle"),
         UNCHANGED <<mem, table, tagId, published, doomed, terminating, libUp>>
  PROVE  IInv' /\ Step
<1> DEFINE next == IF pc[t] = "sd_drop" THEN "sd_scan" ELSE "idle"
<1> USE DEF IInv, TypeInv, TypeOK
<1>0. g \in Tags /\ g # NoTag
  BY TagAssumption
<1>1. /\ count' = [count EXCEPT ![g] = IF @ > 0 THEN @ - 1 ELSE @]
      /\ count[g] = 1 => pc' = [pc EXCEPT ![t] = "cleanup"] /\ ptr' = ptr
      /\ count[g] # 1 => pc' = [pc EXCEPT ![t] = next] /\ ptr' = [ptr EXCEPT ![t] = NoTag]
  BY DEF RcDec
<1>2. /\ Owners(g)' = Owners(g) \ {<<"ptr", t>>} /\ <<"ptr", t>> \in Owners(g)
      /\ \A h \in Tags \ {g} : Owners(h)' = Owners(h)
  <2>1. /\ pc'[t] \notin CountedPcs /\ t \in Holders(g)
        /\ \A u \in Threads \ {t} : pc'[u] = pc[u] /\ ptr'[u] = ptr[u]
    BY <1>1 DEF Holders, CountedPcs
  <2>2. /\ Slots(g)' = Slots(g) /\ Holders(g)' = Holders(g) \ {t} /\ Doomers(g)' = Doomers(g)
    BY <2>1 DEF Slots, Holders, Doomers
  <2>3. ASSUME NEW h \in Tags \ {g}
        PROVE  Slots(h)' = Slots(h) /\ Holders(h)' = Holders(h) /\ Doomers(h)' = Doomers(h)
    BY <2>1 DEF Slots, Holders, Doomers
  <2> QED BY <2>1, <2>2, <2>3, HolderLeaves, OwnersSame
<1>3. /\ count[g] > 0 /\ mem[g] = "live" /\ count' = [count EXCEPT ![g] = @ - 1]
      /\ count[g] = 1 => Owners(g)' = {}
  <2>1. count[g] > 0 /\ mem[g] = "live"
    BY <1>0, <1>2, OwnedFacts DEF OwnedIsLive
  <2>2. count[g] = 1 => Owners(g)' = {}
    BY <1>0, <1>2, OwnedFacts
  <2> QED BY <1>0, <1>1, <2>1, <2>2
<1>4. FiniteCount'
  <2>1. IsFiniteSet(Owners(g)') /\ Cardinality(Owners(g)') = Cardinality(Owners(g)) - 1
    BY <1>0, <1>2, CardRemove DEF FiniteCount
  <2>2. IsFiniteSet(Owners(g)') /\ count'[g] = Cardinality(Owners(g)')
    BY <1>0, <1>3, <2>1 DEF FiniteCount
  <2>3. \A h \in Tags \ {g} : IsFiniteSet(Owners(h)') /\ count'[h] = Cardinality(Owners(h)')
    BY <1>2, <1>3 DEF FiniteCount
  <2> QED BY <2>2, <2>3 DEF FiniteCount
<1>5. OwnedIsLive'
  BY <1>0, <1>2 DEF OwnedIsLive
<1>6. NoLeak'
  <2> SUFFICES ASSUME NEW h \in Tags, mem[h] = "live", Owners(h)' = {}
               PROVE  \E u \in Threads : pc'[u] = "cleanup" /\ ptr'[u] = h
    BY DEF NoLeak
  <2>1. CASE h = g
    <3>1. count[g] = 1
      BY <1>0, <1>3, <1>4, <2>1, FS_EmptySet DEF FiniteCount
    <3> QED BY <1>1, <2>1, <3>1
  <2>2. CASE h # g
    <3>1. PICK u \in Threads : pc[u] = "cleanup" /\ ptr[u] = h
      BY <1>2, <2>2 DEF NoLeak
    <3> QED BY <1>1, <3>1
  <2> QED BY <2>1, <2>2
<1>7. BoundOnce' /\ PublishedExists' /\ HandleStored'
  <2>1. HandleStored'
    BY <1>1 DEF HandleStored
  <2> QED BY <2>1 DEF BoundOnce, PublishedExists
<1>8. CreationIsPrivate'
  BY <1>1 DEF CreationIsPrivate, CreatorPcs, Bound
<1>9. CleanerIsLast'
  <2> SUFFICES ASSUME NEW u \in Threads, NEW h \in Tags, pc'[u] = "cleanup", ptr'[u] = h
               PROVE  /\ mem[h] = "live" /\ Owners(h)' = {}
                      /\ \A v \in Threads : pc'[v] = "cleanup" /\ ptr'[v] = h => v = u
    BY DEF CleanerIsLast
  <2>1. \A v \in Threads : pc[v] = "cleanup" => ptr[v] # g
    BY <1>0, <1>2 DEF CleanerIsLast
  <2>2. CASE u = t
    BY <1>1, <1>3, <2>1, <2>2
  <2>3. CASE u # t
    BY <1>1, <1>2, <2>1, <2>3 DEF CleanerIsLast
  <2> QED BY <2>2, <2>3
<1>10. ShutdownIsAlone'
  BY <1>1, TaskAssumption DEF ShutdownIsAlone, ShutdownPcs, Threads, TicklerFits
<1>11. ShutdownKeeps'
  BY <1>1 DEF ShutdownKeeps, Bound
<1>12. Step
  <2>1. OnlyAbout(g)
    BY <1>2 DEF OnlyAbout
  <2> QED BY <1>0, <1>2, <1>3, <2>1, ReleaseStep
<1> QED BY <1>4, <1>5, <1>6, <1>7, <1>8, <1>9, <1>10, <1>11, <1>12

(* plc_tag_destroy(), from the application or from the shutdown: the       *)
(* table's reference passes to the destroying thread.                      *)
LEMMA TakeOutKeeps ==
  ASSUME IInv, TypeInv', NEW t \in Clients, NEW id \in Ids, NEW g \in Tags, table[id] = g,
         NEW next, pc' = [pc EXCEPT ![t] = next],
         \/ pc[t] = "idle" /\ next = "destroy" /\ ~terminating /\ g \in published
         \/ pc[t] = "sd_kill" /\ next = "sd_destroy" /\ ptr[t] = g,
         table' = Unbind(id), doomed' = [doomed EXCEPT ![t] = g],
         UNCHANGED <<mem, count, tagId, published, ptr, terminating, libUp>>
  PROVE  IInv' /\ Step
<1> USE DEF IInv, TypeInv, TypeOK
<1>0. t \in Threads /\ t # Tickler /\ g # NoTag
  BY TaskAssumption, TagAssumption DEF Threads
<1>1. /\ Owners(g)' = (Owners(g) \ {<<"table", id>>}) \cup {<<"doomed", t>>}
      /\ <<"table", id>> \in Owners(g) /\ <<"doomed", t>> \notin Owners(g)
      /\ \A h \in Tags \ {g} : Owners(h)' = Owners(h)
  <2>1. /\ Slots(g)' = Slots(g) \ {id} /\ id \in Slots(g)
        /\ Doomers(g)' = Doomers(g) \cup {t} /\ t \notin Doomers(g)
    BY <1>0 DEF Slots, Doomers, Unbind, PointersFit
  <2>2. Holders(g)' = Holders(g)
    BY <1>0 DEF Holders, CountedPcs, PointersFit
  <2>3. ASSUME NEW h \in Tags \ {g}
        PROVE  Slots(h)' = Slots(h) /\ Holders(h)' = Holders(h) /\ Doomers(h)' = Doomers(h)
    <3>1. h # NoTag /\ doomed[t] = NoTag
      BY TagAssumption, <1>0 DEF PointersFit
    <3>2. Slots(h)' = Slots(h) /\ Doomers(h)' = Doomers(h)
      BY <3>1, <1>0 DEF Slots, Doomers, Unbind
    <3>3. Holders(h)' = Holders(h)
      BY <3>1, <1>0 DEF Holders, CountedPcs, PointersFit
    <3> QED BY <3>2, <3>3
  <2> QED BY <2>1, <2>2, <2>3, SlotToDoomer, OwnersSame
<1>2. FiniteCount'
  <2>1. IsFiniteSet(Owners(g)) /\ count[g] = Cardinality(Owners(g))
    BY DEF FiniteCount
  <2>2. IsFiniteSet(Owners(g)') /\ count'[g] = Cardinality(Owners(g)')
    BY <1>1, <2>1, CardExchange
  <2>3. \A h \in Tags \ {g} : IsFiniteSet(Owners(h)') /\ count'[h] = Cardinality(Owners(h)')
    BY <1>1 DEF FiniteCount
  <2> QED BY <2>2, <2>3 DEF FiniteCount
<1>3. OwnedIsLive'
  BY <1>1 DEF OwnedIsLive
<1>4. NoLeak'
  <2> SUFFICES ASSUME NEW h \in Tags \ {g}, mem[h] = "live", Owners(h) = {}
               PROVE  \E u \in Threads : pc'[u] = "cleanup" /\ ptr'[u] = h
    BY <1>1 DEF NoLeak
  <2> QED BY <1>0 DEF NoLeak
<1>5. BoundOnce' /\ PublishedExists'
  BY DEF BoundOnce, PublishedExists, Unbind
<1>6. HandleStored'
  BY <1>0 DEF HandleStored, Unbind
<1>7. CreationIsPrivate'
  <2>1. ASSUME NEW u \in Threads, pc'[u] \in {"add"} \cup CreatorPcs
        PROVE  u # t /\ pc[u] = pc'[u] /\ ptr[u] # g
    <3>1. u # t /\ pc[u] = pc'[u]
      BY <1>0, <2>1 DEF CreatorPcs
    <3>2. CASE g \in published
      BY <2>1, <3>1, <3>2 DEF CreationIsPrivate
    <3>3. CASE pc[t] = "sd_kill"
      BY <1>0, <2>1, <3>1, <3>3 DEF ShutdownIsAlone, ShutdownPcs, CreatorPcs, TicklerFits, Threads
    <3> QED BY <3>1, <3>2, <3>3
  <2>2. \A h \in Tags \ {g} : Bound(h) <=> Bound(h)'
    BY <1>0, TagAssumption DEF Bound, Unbind
  <2>3. ASSUME NEW u \in Threads, pc'[u] \in {"add"} \cup CreatorPcs
        PROVE  /\ ptr[u] \in Tags \ {g}
               /\ pc[u] = "wait" => table'[tagId[ptr[u]]] = ptr[u]
    BY <2>1, <2>3, <1>0 DEF CreationIsPrivate, CreatorPcs, PointersFit, Unbind
  <2> QED BY <2>1, <2>2, <2>3 DEF CreationIsPrivate, CreatorPcs, Bound
<1>8. CleanerIsLast'
  <2>1. \A u \in Threads : pc'[u] = "cleanup" => u # t /\ pc[u] = "cleanup" /\ ptr[u] # g
    BY <1>0, <1>1 DEF CleanerIsLast
  <2> QED BY <1>1, <2>1 DEF CleanerIsLast
<1>9. ShutdownIsAlone'
  BY <1>0 DEF ShutdownIsAlone, ShutdownPcs
<1>10. ShutdownKeeps'
  <2>1. ASSUME NEW u \in Threads \ {t} PROVE pc[u] # "sd_kill"
    BY <1>0, <2>1 DEF ShutdownIsAlone, ShutdownPcs, TicklerFits, Threads
  <2> QED BY <1>0, <2>1 DEF ShutdownKeeps, Bound
<1>11. Step
  <2>1. OnlyAbout(g)
    BY <1>1 DEF OnlyAbout
  <2> QED BY <1>0, <1>1, <2>1, OwnerName, TransferStep
<1> QED BY <1>2, <1>3, <1>4, <1>5, <1>6, <1>7, <1>8, <1>9, <1>10, <1>11

(* add_tag_lookup() found a free handle: the creator's reference passes to *)
(* the table.                                                              *)
LEMMA RegisterKeeps ==
  ASSUME IInv, TypeInv', NEW t \in Clients, NEW id \in Ids, NEW g \in Tags,
         pc[t] = "add", ptr[t] = g, table[id] = NoTag,
         table' = [table EXCEPT ![id] = g], pc' = [pc EXCEPT ![t] = "setid"],
         UNCHANGED <<mem, count, tagId, published, ptr, doomed, terminating, libUp>>
  PROVE  IInv' /\ Step
<1> USE DEF IInv, TypeInv, TypeOK
<1>0. t \in Threads /\ t # Tickler /\ g # NoTag /\ ~Bound(g) /\ ~terminating
  BY TaskAssumption, TagAssumption DEF Threads, CreationIsPrivate, ShutdownIsAlone, ShutdownPcs
<1>1. /\ Owners(g)' = (Owners(g) \ {<<"ptr", t>>}) \cup {<<"table", id>>}
      /\ <<"ptr", t>> \in Owners(g) /\ <<"table", id>> \notin Owners(g)
      /\ \A h \in Tags \ {g} : Owners(h)' = Owners(h)
  <2>1. /\ Slots(g)' = Slots(g) \cup {id} /\ id \notin Slots(g)
        /\ Holders(g)' = Holders(g) \ {t} /\ t \in Holders(g)
        /\ Doomers(g)' = Doomers(g)
    BY <1>0 DEF Slots, Holders, Doomers, CountedPcs
  <2>2. ASSUME NEW h \in Tags \ {g}
        PROVE  Slots(h)' = Slots(h) /\ Holders(h)' = Holders(h) /\ Doomers(h)' = Doomers(h)
    BY <1>0, TagAssumption DEF Slots, Holders, Doomers
  <2> QED BY <2>1, <2>2, HolderRegisters, OwnersSame
<1>2. FiniteCount'
  <2>1. IsFiniteSet(Owners(g)) /\ count[g] = Cardinality(Owners(g))
    BY DEF FiniteCount
  <2>2. IsFiniteSet(Owners(g)') /\ count'[g] = Cardinality(Owners(g)')
    BY <1>1, <2>1, CardExchange
  <2>3. \A h \in Tags \ {g} : IsFiniteSet(Owners(h)') /\ count'[h] = Cardinality(Owners(h)')
    BY <1>1 DEF FiniteCount
  <2> QED BY <2>2, <2>3 DEF FiniteCount
<1>3. OwnedIsLive'
  BY <1>1 DEF OwnedIsLive
<1>4. NoLeak'
  <2> SUFFICES ASSUME NEW h \in Tags \ {g}, mem[h] = "live", Owners(h) = {}
               PROVE  \E u \in Threads : pc'[u] = "cleanup" /\ ptr'[u] = h
    BY <1>1 DEF NoLeak
  <2> QED BY <1>0 DEF NoLeak
<1>5. BoundOnce' /\ PublishedExists'
  BY <1>0 DEF BoundOnce, PublishedExists, Bound
<1>6. HandleStored'
  <2> SUFFICES ASSUME NEW j \in Ids, table'[j] # NoTag
               PROVE  \/ tagId[table'[j]] = j
                      \/ \E u \in Threads : pc'[u] = "setid" /\ ptr[u] = table'[j]
    BY DEF HandleStored
  <2>1. CASE j = id
    BY <1>0, <2>1
  <2>2. CASE j # id
    BY <1>0, <2>2 DEF HandleStored
  <2> QED BY <2>1, <2>2
<1>7. CreationIsPrivate'
  <2>1. \A u \in Threads \ {t} : pc[u] \in {"add"} \cup CreatorPcs => ptr[u] # g
    BY <1>0 DEF CreationIsPrivate
  <2>2. Bound(g)' /\ \A h \in Tags \ {g} : Bound(h) <=> Bound(h)'
    BY <1>0, TagAssumption DEF Bound
  <2>3. \A u \in Threads : pc[u] = "wait" => ptr[u] \in Tags /\ tagId[ptr[u]] # id
    BY <1>0, TagAssumption DEF CreationIsPrivate, PointersFit, CreatorPcs
  <2> QED BY <1>0, <2>1, <2>2, <2>3 DEF CreationIsPrivate, CreatorPcs, PointersFit, Bound
<1>8. CleanerIsLast'
  <2>1. \A u \in Threads : pc'[u] = "cleanup" => u # t /\ pc[u] = "cleanup" /\ ptr[u] # g
    BY <1>0, <1>1 DEF CleanerIsLast
  <2> QED BY <1>1, <2>1 DEF CleanerIsLast
<1>9. ShutdownIsAlone' /\ ShutdownKeeps'
  BY <1>0 DEF ShutdownIsAlone, ShutdownPcs, ShutdownKeeps, Bound, Threads, TicklerFits
<1>10. Step
  <2>1. OnlyAbout(g)
    BY <1>1 DEF OnlyAbout
  <2> QED BY <1>0, <1>1, <2>1, OwnerName, TransferStep
<1> QED BY <1>2, <1>3, <1>4, <1>5, <1>6, <1>7, <1>8, <1>9, <1>10

(* plc_tag_create_ex() failed late: the creator takes its tag out of the   *)
(* table and with it the table's reference.                                *)
LEMMA CreateErrorKeeps ==
  ASSUME IInv, TypeInv', NEW t \in Clients, NEW g \in Tags, ptr[t] = g, CreateError(t)
  PROVE  IInv' /\ Step
<1> USE DEF IInv, TypeInv, TypeOK
<1> DEFINE id == tagId[g]
<1>0. /\ t \in Threads /\ t # Tickler /\ g # NoTag /\ pc[t] = "wait"
      /\ id \in Ids /\ table[id] = g /\ ~terminating
  BY TaskAssumption, TagAssumption
  DEF CreateError, Threads, CreationIsPrivate, CreatorPcs, ShutdownIsAlone, ShutdownPcs
<1>1. /\ table' = [table EXCEPT ![id] = NoTag] /\ pc' = [pc EXCEPT ![t] = "drop"]
      /\ UNCHANGED <<mem, count, tagId, published, ptr, doomed, terminating, libUp>>
  BY <1>0 DEF CreateError, Unbind
<1> HIDE DEF id
<1>2. /\ Owners(g)' = (Owners(g) \ {<<"table", id>>}) \cup {<<"ptr", t>>}
      /\ <<"table", id>> \in Owners(g) /\ <<"ptr", t>> \notin Owners(g)
      /\ \A h \in Tags \ {g} : Owners(h)' = Owners(h)
  <2>1. /\ Slots(g)' = Slots(g) \ {id} /\ id \in Slots(g)
        /\ Holders(g)' = Holders(g) \cup {t} /\ t \notin Holders(g)
        /\ Doomers(g)' = Doomers(g)
    BY <1>0, <1>1 DEF Slots, Holders, Doomers, CountedPcs
  <2>2. ASSUME NEW h \in Tags \ {g}
        PROVE  Slots(h)' = Slots(h) /\ Holders(h)' = Holders(h) /\ Doomers(h)' = Doomers(h)
    BY <1>0, <1>1, TagAssumption DEF Slots, Holders, Doomers
  <2> QED BY <2>1, <2>2, SlotToHolder, OwnersSame
<1>3. FiniteCount'
  <2>1. IsFiniteSet(Owners(g)) /\ count[g] = Cardinality(Owners(g))
    BY DEF FiniteCount
  <2>2. IsFiniteSet(Owners(g)') /\ count'[g] = Cardinality(Owners(g)')
    BY <1>1, <1>2, <2>1, CardExchange
  <2>3. \A h \in Tags \ {g} : IsFiniteSet(Owners(h)') /\ count'[h] = Cardinality(Owners(h)')
    BY <1>1, <1>2 DEF FiniteCount
  <2> QED BY <2>2, <2>3 DEF FiniteCount
<1>4. OwnedIsLive'
  BY <1>1, <1>2 DEF OwnedIsLive
<1>5. NoLeak'
  <2> SUFFICES ASSUME NEW h \in Tags \ {g}, mem[h] = "live", Owners(h) = {}
               PROVE  \E u \in Threads : pc'[u] = "cleanup" /\ ptr'[u] = h
    BY <1>1, <1>2 DEF NoLeak
  <2> QED BY <1>0, <1>1 DEF NoLeak
<1>6. BoundOnce' /\ PublishedExists' /\ HandleStored'
  BY <1>0, <1>1 DEF BoundOnce, PublishedExists, HandleStored
<1>7. CreationIsPrivate'
  <2>1. \A u \in Threads \ {t} : pc[u] \in {"add"} \cup CreatorPcs => ptr[u] \in Tags \ {g}
    BY <1>0 DEF CreationIsPrivate, CreatorPcs, PointersFit
  <2>2. \A h \in Tags \ {g} : Bound(h) <=> Bound(h)'
    BY <1>0, <1>1, TagAssumption DEF Bound
  <2>3. \A u \in Threads \ {t} : pc[u] = "wait" => tagId[ptr[u]] # id
    BY <1>0, <2>1 DEF CreationIsPrivate, CreatorPcs
  <2> QED BY <1>0, <1>1, <2>1, <2>2, <2>3 DEF CreationIsPrivate, CreatorPcs, Bound
<1>8. CleanerIsLast'
  <2>1. \A u \in Threads : pc'[u] = "cleanup" => u # t /\ pc[u] = "cleanup" /\ ptr[u] # g
    BY <1>0, <1>1, <1>2 DEF CleanerIsLast
  <2> QED BY <1>1, <1>2, <2>1 DEF CleanerIsLast
<1>9. ShutdownIsAlone' /\ ShutdownKeeps'
  <2>1. \A u \in Threads : pc[u] # "sd_kill"
    BY <1>0 DEF ShutdownIsAlone, ShutdownPcs, TicklerFits, Threads
  <2> QED BY <1>0, <1>1, <2>1 DEF ShutdownIsAlone, ShutdownPcs, ShutdownKeeps, Bound
<1>10. Step
  <2>1. OnlyAbout(g)
    BY <1>1, <1>2 DEF OnlyAbout
  <2> QED BY <1>0, <1>1, <1>2, <2>1, OwnerName, TransferStep
<1> QED BY <1>1, <1>3, <1>4, <1>5, <1>6, <1>7, <1>8, <1>9, <1>10

(* The rc_dec() at the end of plc_tag_destroy(). *)
LEMMA DestroyReleaseKeeps ==
  ASSUME IInv, TypeInv', NEW t \in Clients, NEW g \in Tags, doomed[t] = g, DestroyRelease(t)
  PROVE  IInv' /\ Step
<1> USE DEF IInv, TypeInv, TypeOK
<1>0. /\ t \in Threads /\ t # Tickler /\ g # NoTag
      /\ pc[t] \in {"destroy", "sd_destroy"}
      /\ UNCHANGED <<mem, table, tagId, published, terminating, libUp>>
      /\ doomed' = [doomed EXCEPT ![t] = NoTag]
      /\ pc[t] = "destroy" => ptr[t] = NoTag
      /\ pc[t] = "sd_destroy" => ptr[t] = g
  BY TaskAssumption, TagAssumption DEF DestroyRelease, Threads, PointersFit, ShutdownKeeps
<1>1. /\ <<"doomed", t>> \in Owners(g)
      /\ pc[t] = "sd_destroy" => <<"ptr", t>> \in Owners(g)
  <2>1. t \in Doomers(g) /\ (pc[t] = "sd_destroy" => t \in Holders(g))
    BY <1>0 DEF Doomers, Holders, CountedPcs
  <2> QED BY <2>1 DEF Owners
<1>2. /\ count[g] > 0 /\ mem[g] = "live"
      /\ count[g] = 1 => Owners(g) = {<<"doomed", t>>}
      /\ count[g] = 1 => pc[t] = "destroy"
  BY <1>0, <1>1, OwnedFacts DEF OwnedIsLive
<1>3. /\ count' = [count EXCEPT ![g] = @ - 1]
      /\ count[g] = 1 => /\ pc[t] = "destroy" /\ pc' = [pc EXCEPT ![t] = "cleanup"]
                         /\ ptr' = [ptr EXCEPT ![t] = g]
      /\ count[g] # 1 /\ pc[t] = "destroy" => /\ pc' = [pc EXCEPT ![t] = "idle"]
                                             /\ ptr' = [ptr EXCEPT ![t] = NoTag]
      /\ count[g] # 1 /\ pc[t] = "sd_destroy" => pc' = [pc EXCEPT ![t] = "sd_drop"] /\ ptr' = ptr
  <2>1. count' = [count EXCEPT ![g] = @ - 1]
    BY <1>0, <1>2 DEF DestroyRelease, RcDec
  <2>2. CASE count[g] = 1
    BY <1>0, <1>2, <2>1, <2>2 DEF DestroyRelease, RcDec
  <2>3. CASE count[g] # 1 /\ pc[t] = "destroy"
    BY <1>0, <2>1, <2>3 DEF DestroyRelease, RcDec
  <2>4. CASE count[g] # 1 /\ pc[t] = "sd_destroy"
    BY <1>0, <2>1, <2>4 DEF DestroyRelease, RcDec
  <2> QED BY <1>0, <2>1, <2>2, <2>3, <2>4
<1>4. /\ Owners(g)' = Owners(g) \ {<<"doomed", t>>}
      /\ \A h \in Tags \ {g} : Owners(h)' = Owners(h)
  <2>1. /\ \A u \in Threads \ {t} : pc'[u] = pc[u] /\ ptr'[u] = ptr[u]
        /\ \/ pc'[t] \in {"cleanup", "idle"} /\ pc[t] = "destroy"
           \/ pc'[t] = "sd_drop" /\ pc[t] = "sd_destroy" /\ ptr'[t] = ptr[t]
    <3>1. CASE count[g] = 1
      BY <1>0, <1>3, <3>1
    <3>2. CASE count[g] # 1 /\ pc[t] = "destroy"
      BY <1>0, <1>3, <3>2
    <3>3. CASE count[g] # 1 /\ pc[t] = "sd_destroy"
      BY <1>0, <1>3, <3>3
    <3> QED BY <1>0, <3>1, <3>2, <3>3
  <2>2. \A h \in Tags : Holders(h)' = Holders(h)
    BY <2>1 DEF Holders, CountedPcs
  <2>3. \A h \in Tags : Slots(h)' = Slots(h)
    BY <1>0 DEF Slots
  <2>4. Doomers(g)' = Doomers(g) \ {t} /\ t \in Doomers(g)
    BY <1>0 DEF Doomers
  <2>5. \A h \in Tags \ {g} : Doomers(h)' = Doomers(h)
    BY <1>0, TagAssumption DEF Doomers
  <2> QED BY <2>2, <2>3, <2>4, <2>5, DoomerLeaves, OwnersSame
<1>5. FiniteCount'
  <2>1. IsFiniteSet(Owners(g)) /\ count[g] = Cardinality(Owners(g))
    BY DEF FiniteCount
  <2>2. IsFiniteSet(Owners(g)') /\ count'[g] = Cardinality(Owners(g)')
    BY <1>1, <1>3, <1>4, <2>1, CardRemove
  <2>3. \A h \in Tags \ {g} : IsFiniteSet(Owners(h)') /\ count'[h] = Cardinality(Owners(h)')
    BY <1>3, <1>4 DEF FiniteCount
  <2> QED BY <2>2, <2>3 DEF FiniteCount
<1>6. OwnedIsLive'
  BY <1>0, <1>4 DEF OwnedIsLive
<1>7. NoLeak'
  <2> SUFFICES ASSUME NEW h \in Tags, mem[h] = "live", Owners(h)' = {}
               PROVE  \E u \in Threads : pc'[u] = "cleanup" /\ ptr'[u] = h
    BY <1>0 DEF NoLeak
  <2>1. CASE h = g
    <3>1. count[g] = 1
      BY <1>3, <1>5, <2>1, FS_EmptySet DEF FiniteCount
    <3> QED BY <1>0, <1>3, <2>1, <3>1
  <2>2. CASE h # g
    <3>1. PICK u \in Threads : pc[u] = "cleanup" /\ ptr[u] = h
      BY <1>4, <2>2 DEF NoLeak
    <3>2. u # t
      BY <1>0, <3>1
    <3> QED BY <1>0, <1>3, <3>1, <3>2
  <2> QED BY <2>1, <2>2
<1>8. BoundOnce' /\ PublishedExists' /\ HandleStored'
  <2>1. HandleStored'
    BY <1>0, <1>3 DEF HandleStored
  <2> QED BY <1>0, <2>1 DEF BoundOnce, PublishedExists
<1>9. CreationIsPrivate'
  BY <1>0, <1>3 DEF CreationIsPrivate, CreatorPcs, Bound
<1>10. CleanerIsLast'
  <2> SUFFICES ASSUME NEW u \in Threads, NEW h \in Tags, pc'[u] = "cleanup", ptr'[u] = h
               PROVE  /\ mem[h] = "live" /\ Owners(h)' = {}
                      /\ \A v \in Threads : pc'[v] = "cleanup" /\ ptr'[v] = h => v = u
    BY <1>0 DEF CleanerIsLast
  <2>1. \A v \in Threads : pc[v] = "cleanup" => ptr[v] # g
    BY <1>0, <1>1 DEF CleanerIsLast
  <2>2. CASE u = t
    BY <1>0, <1>2, <1>3, <1>4, <2>1, <2>2
  <2>3. CASE u # t
    BY <1>0, <1>3, <1>4, <2>1, <2>3 DEF CleanerIsLast
  <2> QED BY <2>2, <2>3
<1>11. ShutdownIsAlone'
  BY <1>0, <1>3, TaskAssumption DEF ShutdownIsAlone, ShutdownPcs, Threads
<1>12. ShutdownKeeps'
  BY <1>0, <1>3 DEF ShutdownKeeps, Bound
<1>13. Step
  <2>1. OnlyAbout(g)
    BY <1>0, <1>4 DEF OnlyAbout
  <2> QED BY <1>0, <1>1, <1>2, <1>4, <2>1, ReleaseStep
<1> QED BY <1>5, <1>6, <1>7, <1>8, <1>9, <1>10, <1>11, <1>12, <1>13

-----------------------------------------------------------------------------
(* Steps that leave every tag's owners alone. *)

LEMMA QuietOwners ==
  ASSUME IInv, table' = table, doomed' = doomed, count' = count,
         \A u \in Threads, h \in Tags :
           ptr'[u] = h /\ pc'[u] \in CountedPcs <=> ptr[u] = h /\ pc[u] \in CountedPcs
  PROVE  (\A h \in Tags : Owners(h)' = Owners(h)) /\ FiniteCount'
<1>1. ASSUME NEW h \in Tags PROVE Owners(h)' = Owners(h)
  <2>1. Slots(h)' = Slots(h) /\ Holders(h)' = Holders(h) /\ Doomers(h)' = Doomers(h)
    BY DEF Slots, Holders, Doomers
  <2> QED BY <2>1, OwnersSame
<1>2. FiniteCount'
  BY <1>1 DEF IInv, FiniteCount
<1> QED BY <1>1, <1>2

LEMMA SetTagIdKeeps ==
  ASSUME IInv, TypeInv', NEW t \in Clients, NEW g \in Tags, ptr[t] = g, SetTagId(t)
  PROVE  IInv' /\ Step
<1> USE DEF IInv, TypeInv, TypeOK
<1>0. PICK id \in Ids : table[id] = g /\ tagId' = [tagId EXCEPT ![g] = id]
  BY DEF SetTagId
<1>1. /\ t \in Threads /\ t # Tickler /\ g # NoTag /\ pc[t] = "setid"
      /\ pc' = [pc EXCEPT ![t] = "wait"]
      /\ UNCHANGED <<mem, count, table, published, ptr, doomed, terminating, libUp>>
  BY TaskAssumption, TagAssumption DEF SetTagId, Threads
<1>2. (\A h \in Tags : Owners(h)' = Owners(h)) /\ FiniteCount'
  BY <1>1, QuietOwners DEF CountedPcs
<1>3. OwnedIsLive' /\ NoLeak'
  BY <1>1, <1>2 DEF OwnedIsLive, NoLeak
<1>4. BoundOnce' /\ PublishedExists'
  BY <1>1 DEF BoundOnce, PublishedExists
<1>5. HandleStored'
  BY <1>0, <1>1 DEF HandleStored, BoundOnce
<1>6. CreationIsPrivate'
  <2>1. \A u \in Threads \ {t} : pc[u] \in {"add"} \cup CreatorPcs => ptr[u] \in Tags \ {g}
    BY <1>1 DEF CreationIsPrivate, CreatorPcs, PointersFit
  <2> QED BY <1>0, <1>1, <2>1 DEF CreationIsPrivate, CreatorPcs, Bound
<1>7. CleanerIsLast'
  BY <1>1, <1>2 DEF CleanerIsLast
<1>8. ShutdownIsAlone' /\ ShutdownKeeps'
  BY <1>1 DEF ShutdownIsAlone, ShutdownPcs, ShutdownKeeps, Bound
<1>9. Step
  BY <1>1, <1>2, QuietStep
<1> QED BY <1>2, <1>3, <1>4, <1>5, <1>6, <1>7, <1>8, <1>9

LEMMA CreateReturnKeeps ==
  ASSUME IInv, TypeInv', NEW t \in Clients, NEW g \in Tags, ptr[t] = g, CreateReturn(t)
  PROVE  IInv' /\ Step
<1> USE DEF IInv, TypeInv, TypeOK
<1>1. /\ t \in Threads /\ t # Tickler /\ g # NoTag /\ pc[t] = "wait"
      /\ pc' = [pc EXCEPT ![t] = "idle"] /\ ptr' = [ptr EXCEPT ![t] = NoTag]
      /\ published' = published \cup {g}
      /\ UNCHANGED <<mem, count, table, tagId, doomed, terminating, libUp>>
  BY TaskAssumption, TagAssumption DEF CreateReturn, Threads
<1>2. (\A h \in Tags : Owners(h)' = Owners(h)) /\ FiniteCount'
  BY <1>1, QuietOwners DEF CountedPcs
<1>3. OwnedIsLive' /\ NoLeak'
  <2>1. \A u \in Threads : pc[u] = "cleanup" => pc'[u] = "cleanup" /\ ptr'[u] = ptr[u]
    BY <1>1
  <2> QED BY <1>1, <1>2, <2>1 DEF OwnedIsLive, NoLeak
<1>4. BoundOnce' /\ PublishedExists'
  <2>1. mem[g] = "live"
    BY <1>1, PointerIsLive
  <2> QED BY <1>1, <2>1 DEF BoundOnce, PublishedExists
<1>5. HandleStored'
  BY <1>1 DEF HandleStored
<1>6. CreationIsPrivate'
  <2>1. \A u \in Threads \ {t} : pc[u] \in {"add"} \cup CreatorPcs => ptr[u] \in Tags \ {g}
    BY <1>1 DEF CreationIsPrivate, CreatorPcs, PointersFit
  <2> QED BY <1>1, <2>1 DEF CreationIsPrivate, CreatorPcs, Bound
<1>7. CleanerIsLast'
  BY <1>1, <1>2 DEF CleanerIsLast
<1>8. ShutdownIsAlone' /\ ShutdownKeeps'
  BY <1>1 DEF ShutdownIsAlone, ShutdownPcs, ShutdownKeeps, Bound
<1>9. Step
  BY <1>1, <1>2, QuietStep
<1> QED BY <1>2, <1>3, <1>4, <1>5, <1>6, <1>7, <1>8, <1>9

(* The cleanup function frees a tag that nobody can reach. *)
LEMMA CleanupKeeps ==
  ASSUME IInv, TypeInv', NEW t \in Threads, NEW g \in Tags, ptr[t] = g, Cleanup(t)
  PROVE  IInv' /\ Step
<1> USE DEF IInv, TypeInv, TypeOK
<1> DEFINE next == IF t \in Clients /\ terminating THEN "sd_scan" ELSE "idle"
<1>1. /\ g # NoTag /\ pc[t] = "cleanup" /\ mem' = [mem EXCEPT ![g] = "freed"]
      /\ pc' = [pc EXCEPT ![t] = next] /\ ptr' = [ptr EXCEPT ![t] = NoTag]
      /\ UNCHANGED <<count, table, tagId, published, doomed, terminating, libUp>>
  BY TagAssumption DEF Cleanup
<1>2. (\A h \in Tags : Owners(h)' = Owners(h)) /\ FiniteCount'
  <2>1. next \notin CountedPcs /\ "cleanup" \notin CountedPcs
    BY DEF CountedPcs
  <2> HIDE DEF next
  <2> QED BY <1>1, <2>1, QuietOwners
<1>3. /\ Owners(g) = {} /\ mem[g] = "live"
      /\ \A u \in Threads \ {t} : pc[u] = "cleanup" => ptr[u] # g
  BY <1>1 DEF CleanerIsLast
<1>4. OwnedIsLive'
  BY <1>1, <1>2, <1>3 DEF OwnedIsLive
<1>5. NoLeak'
  <2> SUFFICES ASSUME NEW h \in Tags \ {g}, mem[h] = "live", Owners(h) = {}
               PROVE  \E u \in Threads : pc'[u] = "cleanup" /\ ptr'[u] = h
    BY <1>1, <1>2 DEF NoLeak
  <2>1. PICK u \in Threads : pc[u] = "cleanup" /\ ptr[u] = h
    BY DEF NoLeak
  <2> QED BY <1>1, <2>1
<1>6. BoundOnce' /\ PublishedExists'
  BY <1>1 DEF BoundOnce, PublishedExists
<1>7. HandleStored'
  BY <1>1 DEF HandleStored
<1>8. CreationIsPrivate'
  BY <1>1 DEF CreationIsPrivate, CreatorPcs, Bound
<1>9. CleanerIsLast'
  <2>1. \A u \in Threads : pc'[u] = "cleanup" => u # t /\ pc[u] = "cleanup" /\ ptr[u] # g
    BY <1>1, <1>3
  <2> QED BY <1>1, <1>2, <2>1 DEF CleanerIsLast
<1>10. ShutdownIsAlone'
  BY <1>1, TaskAssumption DEF ShutdownIsAlone, ShutdownPcs, Threads
<1>11. ShutdownKeeps'
  BY <1>1 DEF ShutdownKeeps, Bound
<1>12. Step
  <2>1. OnlyAbout(g)
    BY <1>1, <1>2 DEF OnlyAbout
  <2> QED BY <1>1, <1>2, <1>3, <2>1, ReclaimStep
<1> QED BY <1>2, <1>4, <1>5, <1>6, <1>7, <1>8, <1>9, <1>10, <1>11, <1>12

(* Steps that only move a thread from one place without a tag to another,  *)
(* or between two places where it holds the same one.                      *)
LEMMA MoveKeeps ==
  ASSUME IInv, TypeInv', NEW t \in Threads, NEW next,
         pc' = [pc EXCEPT ![t] = next], ShutdownIsAlone',
         \/ pc[t] = "idle" /\ next \in {"off", "sd_scan"}
         \/ pc[t] = "sd_kill" /\ next = "sd_drop"
         \/ pc[t] = "sd_scan" /\ next = "sd_join" /\ \A g \in Tags : mem[g] # "live"
         \/ pc[t] = "sd_join" /\ next = "idle",
         UNCHANGED <<mem, count, table, tagId, published, ptr, doomed>>
  PROVE  IInv' /\ Step
<1> USE DEF IInv, TypeInv, TypeOK
<1>1. (\A h \in Tags : Owners(h)' = Owners(h)) /\ FiniteCount'
  BY TagAssumption, QuietOwners DEF CountedPcs, PointersFit
<1>2. OwnedIsLive' /\ NoLeak'
  BY <1>1 DEF OwnedIsLive, NoLeak
<1>3. BoundOnce' /\ PublishedExists'
  BY DEF BoundOnce, PublishedExists
<1>4. HandleStored'
  BY DEF HandleStored
<1>5. CreationIsPrivate'
  BY DEF CreationIsPrivate, CreatorPcs, Bound
<1>6. CleanerIsLast'
  BY <1>1 DEF CleanerIsLast
<1>7. ShutdownKeeps'
  BY DEF ShutdownKeeps, Bound
<1>8. Step
  BY <1>1, QuietStep
<1> QED BY <1>1, <1>2, <1>3, <1>4, <1>5, <1>6, <1>7, <1>8

LEMMA NothingKeeps ==
  ASSUME IInv, TypeInv', UNCHANGED <<mem, count, table, tagId, published, pc, ptr, doomed, terminating>>
  PROVE  IInv' /\ Step
<1> USE DEF IInv, TypeInv, TypeOK
<1>1. (\A h \in Tags : Owners(h)' = Owners(h)) /\ FiniteCount'
  BY QuietOwners
<1>2. OwnedIsLive' /\ NoLeak' /\ CleanerIsLast'
  BY <1>1 DEF OwnedIsLive, NoLeak, CleanerIsLast
<1>3. BoundOnce' /\ PublishedExists' /\ HandleStored' /\ CreationIsPrivate'
  BY DEF BoundOnce, PublishedExists, HandleStored, CreationIsPrivate, Bound
<1>4. ShutdownIsAlone' /\ ShutdownKeeps'
  BY DEF ShutdownIsAlone, ShutdownKeeps, Bound
<1>5. Step
  BY <1>1, QuietStep
<1> QED BY <1>1, <1>2, <1>3, <1>4, <1>5

-----------------------------------------------------------------------------
(* Every step keeps the invariant. *)

LEMMA IInvInit == Init => IInv
<1> SUFFICES ASSUME Init PROVE IInv
  OBVIOUS
<1>1. TypeInv
  BY TypeInvInit
<1>2. \A g \in Tags : Owners(g) = {}
  <2> SUFFICES ASSUME NEW g \in Tags PROVE Owners(g) = {}
    OBVIOUS
  <2>1. Slots(g) = {} /\ Holders(g) = {} /\ Doomers(g) = {}
    BY TagAssumption DEF Init, Slots, Holders, Doomers
  <2> QED BY <2>1 DEF Owners
<1>3. FiniteCount /\ OwnedIsLive
  BY <1>2, FS_EmptySet DEF FiniteCount, OwnedIsLive, Init
<1>4. BoundOnce /\ PublishedExists /\ HandleStored /\ NoLeak
  BY DEF Init, BoundOnce, PublishedExists, HandleStored, NoLeak
<1>5. CreationIsPrivate /\ CleanerIsLast
  BY DEF Init, CreationIsPrivate, CreatorPcs, CleanerIsLast
<1>6. ShutdownIsAlone /\ ShutdownKeeps
  BY TaskAssumption DEF Init, ShutdownIsAlone, ShutdownKeeps, ShutdownPcs, Threads
<1> QED BY <1>1, <1>3, <1>4, <1>5, <1>6 DEF IInv, TypeInv

LEMMA CallKeeps ==
  ASSUME IInv, TypeInv', NEW t \in Clients, ClientCall(t)
  PROVE  IInv' /\ Step
<1>0. t \in Threads /\ t # Tickler
  BY TaskAssumption DEF Threads
<1>1. ASSUME NEW g \in Tags, CreateAlloc(t, g) PROVE IInv' /\ Step
  BY <1>1, CreateAllocKeeps
<1>2. ASSUME NEW id \in Ids, LookupTag(t, id) PROVE IInv' /\ Step
  <2>1. /\ table[id] \in Tags /\ Bound(table[id]) /\ pc[t] = "idle" /\ ~terminating
        /\ RcInc(t, table[id], "use")
        /\ UNCHANGED <<mem, table, tagId, published, doomed, terminating, libUp>>
    BY <1>2 DEF LookupTag, Bound, IInv, TypeOK
  <2> QED BY <1>0, <2>1, RcIncKeeps
<1>3. ASSUME NEW id \in Ids, DestroyRemove(t, id) PROVE IInv' /\ Step
  <2>1. table[id] \in Tags
    BY <1>3 DEF DestroyRemove, IInv, TypeOK
  <2> QED BY <1>3, <2>1, TakeOutKeeps DEF DestroyRemove
<1> QED BY <1>1, <1>2, <1>3 DEF ClientCall

LEMMA ReleaseKeeps ==
  ASSUME IInv, TypeInv', NEW t \in Threads, Release(t)
  PROVE  IInv' /\ Step
<1>1. /\ ptr[t] \in Tags /\ pc[t] \in {"use", "tickle", "drop"}
      /\ RcDec(t, ptr[t], IF pc[t] = "sd_drop" THEN "sd_scan" ELSE "idle")
  BY DEF Release, IInv, TypeOK, PointersFit
<1> QED BY <1>1, RcDecKeeps DEF Release

LEMMA AddTagLookupKeeps ==
  ASSUME IInv, TypeInv', NEW t \in Clients, AddTagLookup(t)
  PROVE  IInv' /\ Step
<1> DEFINE free == {k \in 1..MaxAttempts : table[TagIdInc(nextId, k)] = NoTag}
<1>1. /\ t \in Threads /\ pc[t] = "add" /\ ptr[t] \in Tags
      /\ UNCHANGED <<mem, tagId, published, doomed, todo, terminating, libUp>>
  BY DEF AddTagLookup, IInv, TypeOK, PointersFit, Threads
<1>2. CASE \E k \in free :
             /\ table' = [table EXCEPT ![TagIdInc(nextId, k)] = ptr[t]]
             /\ pc' = [pc EXCEPT ![t] = "setid"]
             /\ UNCHANGED <<count, ptr>>
  <2>1. PICK k \in free : /\ table' = [table EXCEPT ![TagIdInc(nextId, k)] = ptr[t]]
                          /\ pc' = [pc EXCEPT ![t] = "setid"]
                          /\ UNCHANGED <<count, ptr>>
    BY <1>2
  <2>2. TagIdInc(nextId, k) \in Ids
    BY TagIdIncType, IdAssumption DEF IInv, TypeOK
  <2> QED BY <1>1, <2>1, <2>2, RegisterKeeps
<1>3. CASE RcDec(t, ptr[t], "idle") /\ UNCHANGED table
  BY <1>1, <1>3, RcDecKeeps
<1> QED BY <1>2, <1>3 DEF AddTagLookup

LEMMA ClientStepKeeps ==
  ASSUME EarlyHandles = FALSE, IInv, TypeInv', NEW t \in Clients, ClientStep(t)
  PROVE  IInv' /\ Step
<1>0. /\ t \in Threads
      /\ pc[t] \in {"add", "setid", "wait", "cleanup"} => ptr[t] \in Tags
      /\ pc[t] \in {"destroy", "sd_destroy"} => doomed[t] \in Tags
  BY DEF Threads, IInv, TypeOK, PointersFit
<1>1. CASE CreateFail(t)
  BY <1>0, <1>1, RcDecKeeps DEF CreateFail
<1>2. CASE AddTagLookup(t)
  BY <1>2, AddTagLookupKeeps
<1>3. CASE SetTagId(t)
  BY <1>0, <1>3, SetTagIdKeeps DEF SetTagId
<1>4. CASE CreateReturn(t)
  BY <1>0, <1>4, CreateReturnKeeps DEF CreateReturn
<1>5. CASE CreateError(t)
  BY <1>0, <1>5, CreateErrorKeeps DEF CreateError
<1>6. CASE CreatedCallback(t)
  BY <1>6 DEF CreatedCallback
<1>7. CASE Release(t)
  BY <1>0, <1>7, ReleaseKeeps
<1>8. CASE DestroyRelease(t)
  BY <1>0, <1>8, DestroyReleaseKeeps DEF DestroyRelease
<1>9. CASE Cleanup(t)
  BY <1>0, <1>9, CleanupKeeps DEF Cleanup
<1> QED BY <1>1, <1>2, <1>3, <1>4, <1>5, <1>6, <1>7, <1>8, <1>9 DEF ClientStep, CreateWait

LEMMA ShutdownKeepsIInv ==
  ASSUME IInv, TypeInv', NEW t \in Clients, ShutdownStart(t) \/ ShutdownStep(t)
  PROVE  IInv' /\ Step
<1>0. t \in Threads /\ t # Tickler
  BY TaskAssumption DEF Threads
<1> USE DEF IInv, TypeOK
<1>1. CASE ShutdownStart(t)
  <2>1. ShutdownIsAlone'
    BY <1>0, <1>1, TaskAssumption DEF ShutdownStart, ShutdownIsAlone, ShutdownPcs
  <2> QED BY <1>0, <1>1, <2>1, MoveKeeps DEF ShutdownStart
<1>2. ASSUME NEW id \in Ids, ShutdownScan(t, id) PROVE IInv' /\ Step
  <2>1. CASE table[id] # NoTag
    <3>1. /\ table[id] \in Tags /\ Bound(table[id]) /\ pc[t] = "sd_scan" /\ terminating
          /\ RcInc(t, table[id], "sd_kill")
          /\ UNCHANGED <<mem, table, tagId, published, doomed, terminating, libUp>>
      BY <1>0, <1>2, <2>1 DEF ShutdownScan, Bound, ShutdownIsAlone, ShutdownPcs
    <3> QED BY <1>0, <3>1, RcIncKeeps
  <2>2. CASE table[id] = NoTag
    BY <1>2, <2>2, NothingKeeps DEF ShutdownScan
  <2> QED BY <2>1, <2>2
<1>3. CASE ShutdownDestroy(t)
  <2> DEFINE g == ptr[t]
             id == tagId[g]
  <2>1. pc[t] = "sd_kill" /\ g \in Tags /\ Bound(g)
    BY <1>0, <1>3 DEF ShutdownDestroy, PointersFit, ShutdownKeeps
  <2>2. \A u \in Threads : pc[u] # "setid"
    BY <1>0, <2>1 DEF ShutdownIsAlone, ShutdownPcs, TicklerFits, Threads
  <2>3. id \in Ids /\ table[id] = g
    BY <2>1, <2>2, TagAssumption DEF HandleStored, Bound
  <2>4. CASE id \in 1..(TagIdMask - 1)
    <3>1. /\ doomed' = [doomed EXCEPT ![t] = g] /\ table' = Unbind(id)
          /\ pc' = [pc EXCEPT ![t] = "sd_destroy"]
          /\ UNCHANGED <<mem, count, tagId, published, ptr, terminating, libUp>>
      BY <1>3, <2>1, <2>3, <2>4, TagAssumption DEF ShutdownDestroy
    <3> HIDE DEF id
    <3> QED BY <2>1, <2>3, <3>1, TakeOutKeeps
  <2>5. CASE id \notin 1..(TagIdMask - 1)
    <3>1. /\ pc' = [pc EXCEPT ![t] = "sd_drop"]
          /\ UNCHANGED <<mem, count, table, tagId, published, ptr, doomed, terminating, libUp>>
      BY <1>3, <2>5 DEF ShutdownDestroy
    <3>2. ShutdownIsAlone'
      BY <1>0, <2>1, <3>1 DEF ShutdownIsAlone, ShutdownPcs
    <3> QED BY <1>0, <2>1, <3>1, <3>2, MoveKeeps
  <2> QED BY <2>4, <2>5
<1>4. CASE ShutdownDrop(t)
  <2>1. ptr[t] \in Tags
    BY <1>0, <1>4 DEF ShutdownDrop, PointersFit
  <2> QED BY <1>0, <1>4, <2>1, RcDecKeeps DEF ShutdownDrop
<1>5. CASE ShutdownSessions(t)
  <2>1. ShutdownIsAlone'
    BY <1>0, <1>5 DEF ShutdownSessions, ShutdownIsAlone, ShutdownPcs
  <2> QED BY <1>0, <1>5, <2>1, MoveKeeps DEF ShutdownSessions
<1>6. CASE ShutdownJoin(t)
  <2>1. \A g \in Tags : ~Bound(g)
    BY <1>0, <1>6, OwnedFacts DEF ShutdownJoin, ShutdownKeeps, OwnedIsLive
  <2>2. table' = table
    BY <1>6, <2>1 DEF ShutdownJoin, Bound
  <2>3. ShutdownIsAlone'
    BY <1>0, <1>6 DEF ShutdownJoin, ShutdownIsAlone, ShutdownPcs
  <2> QED BY <1>0, <1>6, <2>2, <2>3, MoveKeeps DEF ShutdownJoin
<1> QED BY <1>1, <1>2, <1>3, <1>4, <1>5, <1>6 DEF ShutdownStep

LEMMA TicklerKeeps ==
  ASSUME IInv, TypeInv', TicklerStep
  PROVE  IInv' /\ Step
<1>0. Tickler \in Threads /\ Tickler \notin Clients
  BY TaskAssumption DEF Threads
<1>1. ASSUME NEW g \in Tags, TicklerScan(g) PROVE IInv' /\ Step
  BY <1>0, <1>1, RcIncKeeps DEF TicklerScan
<1>2. CASE TicklerStop
  <2>1. ShutdownIsAlone'
    BY <1>0, <1>2 DEF TicklerStop, ShutdownIsAlone, IInv, TypeOK
  <2> QED BY <1>0, <1>2, <2>1, MoveKeeps DEF TicklerStop
<1>3. CASE Release(Tickler)
  BY <1>0, <1>3, ReleaseKeeps
<1>4. CASE Cleanup(Tickler)
  <2>1. ptr[Tickler] \in Tags
    BY <1>0, <1>4 DEF Cleanup, IInv, TypeOK, PointersFit
  <2> QED BY <1>0, <1>4, <2>1, CleanupKeeps
<1> QED BY <1>1, <1>2, <1>3, <1>4 DEF TicklerStep

LEMMA IInvStep ==
  ASSUME EarlyHandles = FALSE
  PROVE  IInv /\ [Next]_vars => IInv' /\ Step
<1> SUFFICES ASSUME IInv, [Next]_vars PROVE IInv' /\ Step
  OBVIOUS
<1>1. TypeInv'
  BY TypeInvStep DEF IInv, TypeInv
<1>2. CASE UNCHANGED vars
  BY <1>1, <1>2, NothingKeeps DEF vars
<1>3. ASSUME NEW t \in Clients, ClientCall(t) PROVE IInv' /\ Step
  BY <1>1, <1>3, CallKeeps
<1>4. ASSUME NEW t \in Clients, ClientStep(t) PROVE IInv' /\ Step
  BY <1>1, <1>4, ClientStepKeeps
<1>5. ASSUME NEW t \in Clients, ShutdownStart(t) \/ ShutdownStep(t) PROVE IInv' /\ Step
  BY <1>1, <1>5, ShutdownKeepsIInv
<1>6. CASE TicklerStep
  BY <1>1, <1>6, TicklerKeeps
<1> QED BY <1>2, <1>3, <1>4, <1>5, <1>6 DEF Next

-----------------------------------------------------------------------------
(* What the invariant says about one state. *)

LEMMA IInvSafe ==
  ASSUME IInv
  PROVE  CountIsOwners /\ NoUseAfterFree /\ CleanupIsAlone /\ NoLeak
<1>1. CountIsOwners
  BY DEF IInv, FiniteCount, CountIsOwners
<1>2. NoUseAfterFree
  BY PointerIsLive DEF NoUseAfterFree
<1>3. CleanupIsAlone
  <2> SUFFICES ASSUME NEW t \in Threads, pc[t] = "cleanup"
               PROVE  /\ ~Bound(ptr[t])
                      /\ \A u \in Threads \ {t} : ptr[u] # ptr[t] /\ doomed[u] # ptr[t]
    BY DEF CleanupIsAlone
  <2>1. ptr[t] \in Tags /\ Owners(ptr[t]) = {}
    BY DEF IInv, TypeOK, PointersFit, CleanerIsLast
  <2>2. ~Bound(ptr[t]) /\ \A u \in Threads : doomed[u] # ptr[t]
    BY <2>1, OwnedFacts
  <2>3. ASSUME NEW u \in Threads \ {t}, ptr[u] = ptr[t] PROVE FALSE
    <3>1. pc[u] \in AllPcs /\ pc[u] \notin CountedPcs /\ pc[u] \notin CreatorPcs /\ pc[u] # "cleanup"
      BY <2>1, <2>2, <2>3, OwnedFacts, PointerIsLive DEF IInv, TypeOK, CleanerIsLast
    <3>2. ptr[u] = NoTag
      BY <3>1 DEF IInv, PointersFit, AllPcs, CountedPcs, CreatorPcs, ShutdownPcs
    <3> QED BY <2>1, <2>3, <3>2, TagAssumption
  <2> QED BY <2>2, <2>3
<1> QED BY <1>1, <1>2, <1>3 DEF IInv

(* The invariant holds in every state while the application is given no    *)
(* handle before plc_tag_create_ex() returns it.                           *)
THEOREM Invariance ==
  ASSUME EarlyHandles = FALSE
  PROVE  Spec => []IInv
<1>1. Init => IInv
  BY IInvInit
<1>2. IInv /\ [Next]_vars => IInv'
  BY IInvStep
<1> QED BY <1>1, <1>2, PTL DEF Spec

(* rc.c's counters are exact in every state, for any number of threads,    *)
(* tags and handles.                                                       *)
THEOREM CountsExact ==
  ASSUME EarlyHandles = FALSE
  PROVE  Spec => []CountIsOwners
<1>1. IInv => CountIsOwners
  BY IInvSafe
<1>2. Spec => []IInv
  BY Invariance
<1> QED BY <1>1, <1>2, PTL

(* No thread touches a tag that has been freed. *)
THEOREM MemorySafe ==
  ASSUME EarlyHandles = FALSE
  PROVE  Spec => []NoUseAfterFree
<1>1. IInv => NoUseAfterFree
  BY IInvSafe
<1>2. Spec => []IInv
  BY Invariance, ZenonT(60)
<1> QED BY <1>1, <1>2, PTL

(* The thread that cleans a tag up is the last that can reach it. *)
THEOREM CleanupExclusive ==
  ASSUME EarlyHandles = FALSE
  PROVE  Spec => []CleanupIsAlone
<1>1. IInv => CleanupIsAlone
  BY IInvSafe
<1>2. Spec => []IInv
  BY Invariance
<1> QED BY <1>1, <1>2, PTL

(* A live tag has an owner, or a thread that is about to free it. *)
THEOREM LeakFree ==
  ASSUME EarlyHandles = FALSE
  PROVE  Spec => []NoLeak
<1>1. IInv => NoLeak
  BY IInvSafe
<1>2. Spec => []IInv
  BY Invariance
<1> QED BY <1>1, <1>2, PTL

(* The tag table implements shared ownership (TagOwnership): every step of *)
(* the code that changes a count, a handle or a pointer is one in which an *)
(* owner joins, hands over or leaves, or the tag is reclaimed.             *)
THEOREM Implements ==
  ASSUME EarlyHandles = FALSE
  PROVE  Spec => ImplementsOwnership
<1>1. Init => Ownership!Init
  <2>1. ASSUME Init, NEW g \in Tags PROVE Owners(g) = {} /\ Life(g) = "none"
    BY <2>1, TagAssumption DEF Init, Owners, Slots, Holders, Doomers, Life
  <2> QED BY <2>1 DEF Ownership!Init
<1>2. IInv /\ [Next]_vars => [Ownership!Next]_View
  BY IInvStep DEF Step
<1>3. Spec => []IInv
  BY Invariance
<1> QED BY <1>1, <1>2, <1>3, PTL DEF Spec, ImplementsOwnership, Ownership!Spec, Ownership!vars, View

-----------------------------------------------------------------------------
(* The requests of a session, beside the table in one specification *)

(* Whatever is lost, late, refused or aborted, a request is only ever      *)
(* given the reply to itself, in a session of either kind (session.c:1513  *)
(* to 1834 and the same in omron/conn.c).                                  *)
THEOREM PartAnswersMatch == PartSpec => []AnswerMatches
<1>1. PartInit => Session!IInv
  BY PartAssumption, Session!InitInvariant DEF PartInit, Session!EitherInit
<1>2. Session!IInv /\ [PartNext]_partVars => Session!IInv'
  <2>1. [PartNext]_partVars => [Session!EitherNext]_(Session!eitherVars)
    BY DEF PartNext, Only, partVars, sessionVars, Session!eitherVars, Session!vars, Session!link, Session!tags
  <2> QED BY <2>1, PartAssumption, Session!EitherKeeps
<1>3. Session!IInv => AnswerMatches
  BY DEF Session!IInv, AnswerMatches
<1> QED BY <1>1, <1>2, <1>3, PTL DEF PartSpec

=============================================================================
