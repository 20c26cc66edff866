------------------------------ MODULE TagTable ------------------------------
(***************************************************************************)
(* The life of tag objects: the reference counts of utils/rc.c, the handle *)
(* table of lib/lib.c, and the threads that take, keep and drop            *)
(* references: API callers, the tag tickler thread and plc_tag_shutdown(). *)
(*                                                                         *)
(* A critical block under tag_lookup_mutex is one action.  rc_inc and      *)
(* rc_dec are one step each (their spin lock covers only the counter); the *)
(* cleanup that follows a count of zero is a step of its own.              *)
(***************************************************************************)
EXTENDS Integers, FiniteSets

CONSTANTS
  Clients,      \* application threads
  Tickler,      \* the tag tickler thread
  Tags,         \* tag objects; each is allocated at most once
  NoTag,        \* the NULL tag pointer
  TagIdMask,    \* TAG_ID_MASK, the largest handle
  MaxAttempts,  \* MAX_TAG_MAP_ATTEMPTS
  StartId,      \* the initial next_tag_id
  EarlyHandles  \* TRUE: the CREATED callback may hand out the handle before
                \* plc_tag_create_ex() returns it

ASSUME TaskAssumption  == Tickler \notin Clients
ASSUME TagAssumption   == NoTag \notin Tags
ASSUME IdAssumption    == /\ TagIdMask \in Nat \ {0}
                          /\ MaxAttempts \in Nat \ {0}
                          /\ StartId \in 1..TagIdMask
ASSUME EarlyAssumption == EarlyHandles \in BOOLEAN

VARIABLES
  mem,          \* each tag's memory: "none", "live" or "freed"
  count,        \* refcount_t.count of each tag
  table,        \* the handle table: which tag a handle maps to
  tagId,        \* tag->tag_id, zero until the creator stores it
  nextId,       \* next_tag_id
  published,    \* tags whose handle the application has been given
  pc,           \* what each thread is doing
  ptr,          \* the tag pointer a thread works with
  doomed,       \* the pointer plc_tag_destroy() took out of the table
  todo,         \* table slots plc_tag_shutdown() has not visited yet
  terminating,  \* library_terminating
  libUp         \* library_initialized: the modules are up, the tickler runs

vars == <<mem, count, table, tagId, nextId, published, pc, ptr, doomed,
          todo, terminating, libUp>>

Threads == Clients \cup {Tickler}
Ids     == 1..TagIdMask
Bound(g) == \E id \in Ids : table[id] = g
Unbind(id) == [table EXCEPT ![id] = NoTag]

(* Where a thread's pointer "ptr" carries a reference of its own.  The     *)
(* creator carries one only until the table owns it, and again once it has *)
(* taken the tag out of the table because its creation failed.             *)
CountedPcs == {"add", "drop", "use", "tickle", "sd_kill", "sd_destroy", "sd_drop"}
CreatorPcs == {"setid", "wait"}
ShutdownPcs == {"sd_scan", "sd_kill", "sd_destroy", "sd_drop", "sd_join"}
AllPcs == {"idle", "off", "cleanup", "destroy"} \cup CountedPcs \cup CreatorPcs
             \cup ShutdownPcs

Init ==
  /\ mem = [g \in Tags |-> "none"]
  /\ count = [g \in Tags |-> 0]
  /\ table = [id \in Ids |-> NoTag]
  /\ tagId = [g \in Tags |-> 0]
  /\ nextId = StartId
  /\ published = {}
  /\ pc = [t \in Threads |-> IF t = Tickler THEN "off" ELSE "idle"]
  /\ ptr = [t \in Threads |-> NoTag]
  /\ doomed = [t \in Threads |-> NoTag]
  /\ todo = {}
  /\ terminating = FALSE
  /\ libUp = FALSE

-----------------------------------------------------------------------------
(* rc_dec(g) by thread t, which goes on at pc "next".  Reaching zero makes *)
(* the thread run the cleanup function; a count that is already zero is    *)
(* only logged.                                                            *)
RcDec(t, g, next) ==
  /\ count' = [count EXCEPT ![g] = IF @ > 0 THEN @ - 1 ELSE @]
  /\ pc' = [pc EXCEPT ![t] = IF count[g] = 1 THEN "cleanup" ELSE next]
  /\ ptr' = [ptr EXCEPT ![t] = IF count[g] = 1 THEN g
                               ELSE IF next \in {"idle", "sd_scan"} THEN NoTag ELSE @]

(* rc_inc(g) by thread t, which goes on at pc "next" with the reference,   *)
(* or stays where it is when the count is zero and rc_inc returns NULL.    *)
RcInc(t, g, next) ==
  IF count[g] > 0
    THEN /\ count' = [count EXCEPT ![g] = @ + 1]
         /\ ptr' = [ptr EXCEPT ![t] = g]
         /\ pc' = [pc EXCEPT ![t] = next]
    ELSE UNCHANGED <<count, ptr, pc>>

(* The cleanup function and mem_free() of refcount_cleanup().  The only    *)
(* application thread inside the library while it terminates is the one in *)
(* plc_tag_shutdown(), which goes on with its scan.                        *)
Cleanup(t) ==
  /\ pc[t] = "cleanup"
  /\ mem' = [mem EXCEPT ![ptr[t]] = "freed"]
  /\ pc' = [pc EXCEPT ![t] = IF t \in Clients /\ terminating THEN "sd_scan" ELSE "idle"]
  /\ ptr' = [ptr EXCEPT ![t] = NoTag]
  /\ UNCHANGED <<count, table, tagId, nextId, published, doomed, todo, terminating, libUp>>

-----------------------------------------------------------------------------
(* plc_tag_create_ex() *)

(* Mutant of CreateAlloc: library_terminating is not checked. *)
CreateAllocLate(t, g) ==
  /\ pc[t] = "idle" /\ mem[g] = "none"
  /\ mem' = [mem EXCEPT ![g] = "live"]
  /\ count' = [count EXCEPT ![g] = 1]
  /\ ptr' = [ptr EXCEPT ![t] = g]
  /\ pc' = [pc EXCEPT ![t] = "add", ![Tickler] = IF libUp THEN @ ELSE "idle"]
  /\ libUp' = TRUE
  /\ UNCHANGED <<table, tagId, nextId, published, doomed, todo, terminating>>

(* The checks, the module start and the protocol's tag constructor, whose  *)
(* rc_alloc() gives the caller the first reference.                        *)
CreateAlloc(t, g) ==
  /\ pc[t] = "idle" /\ mem[g] = "none"
  /\ ~terminating
  /\ mem' = [mem EXCEPT ![g] = "live"]
  /\ count' = [count EXCEPT ![g] = 1]
  /\ ptr' = [ptr EXCEPT ![t] = g]
  /\ pc' = [pc EXCEPT ![t] = "add", ![Tickler] = IF libUp THEN @ ELSE "idle"]
  /\ libUp' = TRUE
  /\ UNCHANGED <<table, tagId, nextId, published, doomed, todo, terminating>>

(* Mutant of CreateFail: an early return forgets the rc_dec(). *)
CreateFailLeaks(t) ==
  /\ pc[t] = "add"
  /\ pc' = [pc EXCEPT ![t] = "idle"]
  /\ ptr' = [ptr EXCEPT ![t] = NoTag]
  /\ UNCHANGED <<mem, count, table, tagId, nextId, published, doomed, todo, terminating, libUp>>

(* The constructor or an attribute check failed: the only reference goes.  *)
CreateFail(t) ==
  /\ pc[t] = "add"
  /\ RcDec(t, ptr[t], "idle")
  /\ UNCHANGED <<mem, table, tagId, nextId, published, doomed, todo, terminating, libUp>>

(* tag_id_inc() applied k times to a valid handle. *)
TagIdInc(id, k) == ((id - 1 + k) % TagIdMask) + 1

(* add_tag_lookup(): the first free one of the next MaxAttempts handles.   *)
AddTagLookup(t) ==
  LET free == {k \in 1..MaxAttempts : table[TagIdInc(nextId, k)] = NoTag}
  IN /\ pc[t] = "add"
     /\ \/ \E k \in free :
             /\ \A j \in free : k <= j
             /\ table' = [table EXCEPT ![TagIdInc(nextId, k)] = ptr[t]]
             /\ nextId' = TagIdInc(nextId, k)
             /\ pc' = [pc EXCEPT ![t] = "setid"]
             /\ UNCHANGED <<count, ptr>>
        \/ /\ free = {}
           /\ nextId' = TagIdInc(nextId, MaxAttempts)
           /\ RcDec(t, ptr[t], "idle")
           /\ UNCHANGED table
     /\ UNCHANGED <<mem, tagId, published, doomed, todo, terminating, libUp>>

(* tag->tag_id = id, outside the lookup mutex. *)
SetTagId(t) ==
  /\ pc[t] = "setid"
  /\ \E id \in Ids : /\ table[id] = ptr[t]
                     /\ tagId' = [tagId EXCEPT ![ptr[t]] = id]
  /\ pc' = [pc EXCEPT ![t] = "wait"]
  /\ UNCHANGED <<mem, count, table, nextId, published, ptr, doomed, todo, terminating, libUp>>

(* The creation finished and the handle is returned.  The caller keeps no  *)
(* reference: the table owns the one from rc_alloc().                      *)
CreateReturn(t) ==
  /\ pc[t] = "wait"
  /\ published' = published \cup {ptr[t]}
  /\ pc' = [pc EXCEPT ![t] = "idle"]
  /\ ptr' = [ptr EXCEPT ![t] = NoTag]
  /\ UNCHANGED <<mem, count, table, tagId, nextId, doomed, todo, terminating, libUp>>

(* Mutant of CreateError: the tag leaves the table, its reference stays. *)
CreateErrorLeaks(t) ==
  /\ pc[t] = "wait"
  /\ table' = IF table[tagId[ptr[t]]] = NoTag THEN table ELSE Unbind(tagId[ptr[t]])
  /\ pc' = [pc EXCEPT ![t] = "idle"]
  /\ ptr' = [ptr EXCEPT ![t] = NoTag]
  /\ UNCHANGED <<mem, count, tagId, nextId, published, doomed, todo, terminating, libUp>>

(* The tag's status is an error or the wait for it timed out: the tag is   *)
(* removed from the table, and the reference is dropped whether or not the *)
(* removal found it.                                                       *)
CreateError(t) ==
  /\ pc[t] = "wait"
  /\ table' = IF table[tagId[ptr[t]]] = NoTag THEN table ELSE Unbind(tagId[ptr[t]])
  /\ pc' = [pc EXCEPT ![t] = "drop"]
  /\ UNCHANGED <<mem, count, tagId, nextId, published, ptr, doomed, todo, terminating, libUp>>

(* The CREATED callback tells the application the handle while the creator *)
(* still waits.                                                            *)
CreatedCallback(t) ==
  /\ EarlyHandles
  /\ pc[t] = "wait" /\ ptr[t] \notin published
  /\ published' = published \cup {ptr[t]}
  /\ UNCHANGED <<mem, count, table, tagId, nextId, pc, ptr, doomed, todo, terminating, libUp>>

(* The wait at the end of plc_tag_create_ex() *)
CreateWait(t) ==
  pc[t] = "wait" /\ (CreateReturn(t) \/ CreateError(t) \/ CreatedCallback(t))

-----------------------------------------------------------------------------
(* Mutant of LookupTag: the pointer is returned without rc_inc(). *)
LookupTagNoRef(t, id) ==
  /\ pc[t] = "idle" /\ t \in Clients /\ ~terminating
  /\ table[id] # NoTag /\ tagId[table[id]] = id
  /\ ptr' = [ptr EXCEPT ![t] = table[id]]
  /\ pc' = [pc EXCEPT ![t] = "use"]
  /\ UNCHANGED <<mem, count, table, tagId, nextId, published, doomed, todo, terminating, libUp>>

(* lookup_tag(): every API call that works on a tag starts with it.        *)
LookupTag(t, id) ==
  /\ pc[t] = "idle" /\ t \in Clients /\ ~terminating
  /\ table[id] # NoTag /\ tagId[table[id]] = id
  /\ RcInc(t, table[id], "use")
  /\ UNCHANGED <<mem, table, tagId, nextId, published, doomed, todo, terminating, libUp>>

(* The rc_dec() that ends such a call, the tickler's turn or a failed create. *)
Release(t) ==
  /\ pc[t] \in {"use", "tickle", "drop"}
  /\ RcDec(t, ptr[t], "idle")
  /\ UNCHANGED <<mem, table, tagId, nextId, published, doomed, todo, terminating, libUp>>

(* Mutant of DestroyRemove: the tag is looked up but stays in the table. *)
DestroyRemoveGet(t, id) ==
  /\ pc[t] = "idle" /\ t \in Clients /\ ~terminating
  /\ id < TagIdMask
  /\ table[id] \in published
  /\ doomed' = [doomed EXCEPT ![t] = table[id]]
  /\ pc' = [pc EXCEPT ![t] = "destroy"]
  /\ UNCHANGED <<mem, count, table, tagId, nextId, published, ptr, todo, terminating, libUp>>

(* plc_tag_destroy(): refuses handles outside 1..TagIdMask-1, then takes   *)
(* the table's reference.                                                  *)
DestroyRemove(t, id) ==
  /\ pc[t] = "idle" /\ t \in Clients /\ ~terminating
  /\ id < TagIdMask
  /\ table[id] \in published
  /\ doomed' = [doomed EXCEPT ![t] = table[id]]
  /\ table' = Unbind(id)
  /\ pc' = [pc EXCEPT ![t] = "destroy"]
  /\ UNCHANGED <<mem, count, tagId, nextId, published, ptr, todo, terminating, libUp>>

(* The abort, the DESTROYED event and the final rc_dec(). *)
DestroyRelease(t) ==
  /\ pc[t] \in {"destroy", "sd_destroy"}
  /\ RcDec(t, doomed[t], IF pc[t] = "destroy" THEN "idle" ELSE "sd_drop")
  /\ doomed' = [doomed EXCEPT ![t] = NoTag]
  /\ UNCHANGED <<mem, table, tagId, nextId, published, todo, terminating, libUp>>

-----------------------------------------------------------------------------
(* Mutant of TicklerScan: the tickler works with a borrowed pointer. *)
TicklerScanBorrows(g) ==
  /\ pc[Tickler] = "idle"
  /\ Bound(g)
  /\ ptr' = [ptr EXCEPT ![Tickler] = g]
  /\ pc' = [pc EXCEPT ![Tickler] = "tickle"]
  /\ UNCHANGED <<mem, count, table, tagId, nextId, published, doomed, todo, terminating, libUp>>

(* tag_tickler_func(): reaches the tags slot by slot, in an order the      *)
(* caller cannot choose, and keeps a reference while it works.             *)
TicklerScan(g) ==
  /\ pc[Tickler] = "idle"
  /\ Bound(g)
  /\ RcInc(Tickler, g, "tickle")
  /\ UNCHANGED <<mem, table, tagId, nextId, published, doomed, todo, terminating, libUp>>

(* The loop condition sees library_terminating. *)
TicklerStop ==
  /\ pc[Tickler] = "idle" /\ terminating
  /\ pc' = [pc EXCEPT ![Tickler] = "off"]
  /\ UNCHANGED <<mem, count, table, tagId, nextId, published, ptr, doomed, todo, terminating, libUp>>

-----------------------------------------------------------------------------
(* plc_tag_shutdown().  The API documents that no other thread may be in   *)
(* the library when it is called.                                          *)
ShutdownStart(t) ==
  /\ t \in Clients /\ libUp /\ ~terminating
  /\ \A c \in Clients : pc[c] = "idle"
  /\ terminating' = TRUE
  /\ todo' = {id \in Ids : table[id] # NoTag}
  /\ pc' = [pc EXCEPT ![t] = "sd_scan"]
  /\ UNCHANGED <<mem, count, table, tagId, nextId, published, ptr, doomed, libUp>>

ShutdownScan(t, id) ==
  /\ pc[t] = "sd_scan" /\ id \in todo
  /\ todo' = todo \ {id}
  /\ IF table[id] # NoTag THEN RcInc(t, table[id], "sd_kill")
                          ELSE UNCHANGED <<count, ptr, pc>>
  /\ UNCHANGED <<mem, table, tagId, nextId, published, doomed, terminating, libUp>>

(* plc_tag_destroy(tag->tag_id) with the shutdown's own reference held. *)
ShutdownDestroy(t) ==
  LET id == tagId[ptr[t]]
  IN /\ pc[t] = "sd_kill"
     /\ IF id \in 1..(TagIdMask - 1) /\ table[id] # NoTag
          THEN /\ doomed' = [doomed EXCEPT ![t] = table[id]]
               /\ table' = Unbind(id)
               /\ pc' = [pc EXCEPT ![t] = "sd_destroy"]
          ELSE /\ pc' = [pc EXCEPT ![t] = "sd_drop"]
               /\ UNCHANGED <<doomed, table>>
     /\ UNCHANGED <<mem, count, tagId, nextId, published, ptr, todo, terminating, libUp>>

(* Mutant of ShutdownDrop: the reference taken for the scan is kept. *)
ShutdownDropKeeps(t) ==
  /\ pc[t] = "sd_drop"
  /\ pc' = [pc EXCEPT ![t] = "sd_scan"]
  /\ ptr' = [ptr EXCEPT ![t] = NoTag]
  /\ UNCHANGED <<mem, count, table, tagId, nextId, published, doomed, todo, terminating, libUp>>

(* The rc_dec() of the reference taken for the scan. *)
ShutdownDrop(t) ==
  /\ pc[t] = "sd_drop"
  /\ RcDec(t, ptr[t], "sd_scan")
  /\ UNCHANGED <<mem, table, tagId, nextId, published, doomed, todo, terminating, libUp>>

(* destroy_modules(): the protocol's teardown waits until its sessions are *)
(* gone, and a session is gone when the last tag that uses it is.          *)
ShutdownSessions(t) ==
  /\ pc[t] = "sd_scan" /\ todo = {}
  /\ \A g \in Tags : mem[g] # "live"
  /\ pc' = [pc EXCEPT ![t] = "sd_join"]
  /\ UNCHANGED <<mem, count, table, tagId, nextId, published, ptr, doomed, todo,
                 terminating, libUp>>

(* lib_teardown(): joins the tickler thread and destroys the table.        *)
ShutdownJoin(t) ==
  /\ pc[t] = "sd_join" /\ pc[Tickler] = "off"
  /\ table' = [id \in Ids |-> NoTag]
  /\ terminating' = FALSE
  /\ libUp' = FALSE
  /\ pc' = [pc EXCEPT ![t] = "idle"]
  /\ UNCHANGED <<mem, count, tagId, nextId, published, ptr, doomed, todo>>

-----------------------------------------------------------------------------
ClientCall(t) ==
  \/ \E g \in Tags : CreateAlloc(t, g)
  \/ \E id \in Ids : LookupTag(t, id) \/ DestroyRemove(t, id)

ClientStep(t) ==
  \/ CreateFail(t) \/ AddTagLookup(t) \/ SetTagId(t)
  \/ CreateWait(t)
  \/ Release(t) \/ DestroyRelease(t) \/ Cleanup(t)

ShutdownStep(t) ==
  \/ \E id \in Ids : ShutdownScan(t, id)
  \/ ShutdownDestroy(t) \/ ShutdownDrop(t)
  \/ ShutdownSessions(t) \/ ShutdownJoin(t)

TicklerStep ==
  \/ \E g \in Tags : TicklerScan(g)
  \/ TicklerStop \/ Release(Tickler) \/ Cleanup(Tickler)

Next ==
  \/ \E t \in Clients : ClientCall(t) \/ ClientStep(t) \/ ShutdownStart(t) \/ ShutdownStep(t)
  \/ TicklerStep

Spec == Init /\ [][Next]_vars

(* The threads run: a call that has started goes on to its end, and the    *)
(* tickler, whose scan of the table is a bounded loop, reaches the loop    *)
(* condition that ends it.                                                 *)
Fairness ==
  /\ \A t \in Clients : WF_vars(ClientStep(t) \/ ShutdownStep(t))
  /\ WF_vars(Release(Tickler) \/ Cleanup(Tickler))
  /\ SF_vars(TicklerStop)

FairSpec == Spec /\ Fairness

-----------------------------------------------------------------------------
(* Every reference there is to a tag: the table's, and each thread's.      *)
Slots(g)   == {id \in Ids : table[id] = g}
Holders(g) == {t \in Threads : ptr[t] = g /\ pc[t] \in CountedPcs}
Doomers(g) == {t \in Threads : doomed[t] = g}
Owners(g)  == ({"table"} \X Slots(g)) \cup ({"ptr"} \X Holders(g))
                \cup ({"doomed"} \X Doomers(g))

(* The abstract view: who owns each tag. *)
OwnerNames == ({"table"} \X Ids) \cup ({"ptr", "doomed"} \X Threads)
Life(g) == IF mem[g] = "live" /\ Owners(g) = {} THEN "dying" ELSE mem[g]

Ownership == INSTANCE TagOwnership
  WITH Owner <- OwnerNames, life <- [g \in Tags |-> Life(g)],
       owners <- [g \in Tags |-> Owners(g)]

(* The tag table implements shared ownership: no reference is taken to a   *)
(* tag without an owner, and each tag is reclaimed once, after its last    *)
(* owner.                                                                  *)
ImplementsOwnership == Ownership!Spec

(* Types, and which thread may be where. *)
TypeOK ==
  /\ mem \in [Tags -> {"none", "live", "freed"}]
  /\ count \in [Tags -> Nat]
  /\ table \in [Ids -> Tags \cup {NoTag}]
  /\ tagId \in [Tags -> Ids \cup {0}]
  /\ nextId \in Ids
  /\ published \subseteq Tags
  /\ pc \in [Threads -> AllPcs]
  /\ ptr \in [Threads -> Tags \cup {NoTag}]
  /\ doomed \in [Threads -> Tags \cup {NoTag}]
  /\ todo \subseteq Ids
  /\ terminating \in BOOLEAN
  /\ libUp \in BOOLEAN

(* The count of rc.c is exactly the number of references that exist: no    *)
(* path through create, lookup, destroy, the tickler and shutdown leaks    *)
(* one or drops one twice.                                                 *)
CountIsOwners == \A g \in Tags : count[g] = Cardinality(Owners(g))

(* No thread works with a tag that has been freed, whether or not the      *)
(* pointer it uses carries a reference (the creator's does not).           *)
NoUseAfterFree ==
  \A t \in Threads :
    /\ ptr[t] # NoTag => mem[ptr[t]] = "live"
    /\ doomed[t] # NoTag => mem[doomed[t]] = "live"

(* While one thread runs the cleanup of a tag, no other thread still has   *)
(* that tag, and no handle leads to it.                                    *)
CleanupIsAlone ==
  \A t \in Threads : pc[t] = "cleanup" =>
    /\ ~Bound(ptr[t])
    /\ \A u \in Threads \ {t} : ptr[u] # ptr[t] /\ doomed[u] # ptr[t]

(* A memory leak: a tag that is live has an owner or is being cleaned up.  *)
NoLeak ==
  \A g \in Tags : mem[g] = "live" =>
    Owners(g) # {} \/ \E t \in Threads : pc[t] = "cleanup" /\ ptr[t] = g

(* plc_tag_shutdown() returns. *)
ShutdownReturns == terminating ~> ~terminating

-----------------------------------------------------------------------------
(* The inductive invariant behind the safety properties, part by part.     *)

BoundOnce == \A i, j \in Ids : table[i] # NoTag /\ table[i] = table[j] => i = j

FiniteCount == \A g \in Tags : IsFiniteSet(Owners(g)) /\ count[g] = Cardinality(Owners(g))

OwnedIsLive == \A g \in Tags : Owners(g) # {} => mem[g] = "live"

(* A thread has a pointer exactly where it needs one. *)
PointersFit ==
  \A t \in Threads :
    /\ ptr[t] = NoTag <=> pc[t] \in {"idle", "off", "destroy", "sd_scan", "sd_join"}
    /\ doomed[t] = NoTag <=> pc[t] \notin {"destroy", "sd_destroy"}

(* A tag under creation belongs to its creator: nobody has been told its   *)
(* handle, and the creator's pointer is good because the table owns it.    *)
CreationIsPrivate ==
  \A t \in Threads :
    /\ pc[t] \in {"add"} \cup CreatorPcs =>
         /\ ptr[t] \notin published
         /\ \A u \in Threads : pc[u] \in {"add"} \cup CreatorPcs /\ ptr[u] = ptr[t] => u = t
    /\ pc[t] = "add" => ~Bound(ptr[t])
    /\ pc[t] = "setid" => Bound(ptr[t])
    /\ pc[t] = "wait" => tagId[ptr[t]] \in Ids /\ table[tagId[ptr[t]]] = ptr[t]

PublishedExists == \A g \in published : mem[g] # "none"

CleanerIsLast ==
  \A t \in Threads, g \in Tags : pc[t] = "cleanup" /\ ptr[t] = g =>
    /\ mem[g] = "live" /\ Owners(g) = {}
    /\ \A u \in Threads : pc[u] = "cleanup" /\ ptr[u] = g => u = t

(* The handle table and tag->tag_id agree, once the creator stored it.     *)
HandleStored ==
  \A id \in Ids : table[id] # NoTag =>
    tagId[table[id]] = id \/ \E t \in Threads : pc[t] = "setid" /\ ptr[t] = table[id]

(* The shutdown destroys the tag it took a reference to, and no tag is     *)
(* left when it joins the tickler.                                         *)
ShutdownKeeps ==
  \A t \in Threads :
    /\ pc[t] = "sd_kill" => Bound(ptr[t])
    /\ pc[t] = "sd_destroy" => doomed[t] = ptr[t]
    /\ pc[t] = "sd_join" => \A g \in Tags : mem[g] # "live"

(* The tickler exists while the library is up. *)
TicklerFits ==
  /\ pc[Tickler] \in {"off", "idle", "tickle", "cleanup"}
  /\ ~libUp => pc[Tickler] = "off"

(* While the library terminates only the shutting-down thread is in it.    *)
ShutdownIsAlone ==
  /\ \A c \in Clients : pc[c] \notin {"off", "tickle"}
  /\ ~terminating => \A c \in Clients : pc[c] \notin ShutdownPcs
  /\ terminating => /\ \A c \in Clients : pc[c] \in {"idle", "cleanup"} \cup ShutdownPcs
                    /\ \A c, d \in Clients : pc[c] # "idle" /\ pc[d] # "idle" => c = d

(* The conjunction that every step preserves (while handles stay with the  *)
(* creator until it returns).                                              *)
IInv ==
  /\ TypeOK /\ BoundOnce /\ FiniteCount /\ OwnedIsLive /\ PointersFit /\ TicklerFits
  /\ CreationIsPrivate /\ PublishedExists /\ CleanerIsLast /\ ShutdownIsAlone
  /\ HandleStored /\ ShutdownKeeps /\ NoLeak
=============================================================================
