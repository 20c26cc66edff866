---------------------------- MODULE SessionList ----------------------------
(***************************************************************************)
(* The list of Allen-Bradley sessions: tags find a session of their PLC or *)
(* create one, start it, leave it, and the last one to leave destroys it;  *)
(* the end of the library waits until the list is empty.                   *)
(*                                                                         *)
(* A tag stands for the thread that creates and later destroys it.  Each   *)
(* tag lives once and creates at most one session, which has its name.     *)
(* lock is the global session_mutex.  It is held from Begin until a        *)
(* session is found or created, and it is recursive: a thread that drops   *)
(* the last reference while it searches destroys the session inside.       *)
(***************************************************************************)
EXTENDS Integers, Sequences, SequencesExt, FiniteSets

CONSTANTS
  Tags,       \* tags, and the sessions they create
  Null,       \* no session, or no owner
  Key,        \* the gateway, path and connection group of a tag
  Private,    \* tags with share_session=0
  Failures    \* TRUE: creating or starting a session may fail

ASSUME TagAssumption ==
  IsFiniteSet(Tags) /\ Null \notin Tags /\ Private \subseteq Tags /\ DOMAIN Key = Tags
ASSUME FailureAssumption == Failures \in BOOLEAN

VARIABLES
  lock,         \* the thread that holds session_mutex, or Null
  list,         \* sessions
  mem,          \* a session's memory: "none", "alive" or "freed"
  count,        \* its reference count
  handler,      \* its handler thread: "none", "running" or "exited"
  terminating,  \* sessions with terminating set
  failed,       \* sessions with failed set
  pc,           \* where a tag's thread is
  at,           \* the index of its search in the list, counted from 1
  sess,         \* tag->session
  cand,         \* another session it holds, or the one it destroys
  teardown,     \* progress of plc_tag_shutdown()
  passed        \* ghost: a search has destroyed a session on its way

sessions == <<mem, count, handler, terminating, failed>>
places == <<at, sess, cand>>
vars == <<lock, list, sessions, pc, places, teardown, passed>>

InSearch == {"scan", "match", "create"}
Pcs == InSearch \cup {"start", "init", "giveup", "using", "remove", "join", "gone"}

Init ==
  /\ lock = Null /\ list = <<>>
  /\ mem = [s \in Tags |-> "none"]
  /\ count = [s \in Tags |-> 0]
  /\ handler = [s \in Tags |-> "none"]
  /\ terminating = {} /\ failed = {}
  /\ pc = [t \in Tags |-> "start"]
  /\ at = [t \in Tags |-> 1]
  /\ sess = [t \in Tags |-> Null]
  /\ cand = [t \in Tags |-> Null]
  /\ teardown = "idle" /\ passed = FALSE

-----------------------------------------------------------------------------
(* session_find_or_create() *)

(* Mutant of Begin: the search does not take the mutex. *)
BeginUnlocked(t) ==
  /\ pc[t] = "start" /\ teardown = "idle"
  /\ pc' = [pc EXCEPT ![t] = IF t \in Private THEN "create" ELSE "scan"]
  /\ UNCHANGED <<lock, list, sessions, places, teardown, passed>>

(* The thread takes the mutex.  No tag may be created once the library is  *)
(* being shut down: libplctag.h:230 forbids it.                            *)
Begin(t) ==
  /\ pc[t] = "start" /\ teardown = "idle" /\ lock = Null
  /\ lock' = t
  /\ pc' = [pc EXCEPT ![t] = IF t \in Private THEN "create" ELSE "scan"]
  /\ UNCHANGED <<list, sessions, places, teardown, passed>>

(* rc_inc() of the next session in the list; it succeeds unless the count  *)
(* is zero because somebody is about to remove the session.                *)
Scan(t) ==
  /\ pc[t] = "scan" /\ at[t] <= Len(list)
  /\ LET s == list[at[t]] IN
       \/ /\ count[s] > 0
          /\ count' = [count EXCEPT ![s] = @ + 1]
          /\ cand' = [cand EXCEPT ![t] = s]
          /\ pc' = [pc EXCEPT ![t] = "match"]
          /\ UNCHANGED at
       \/ /\ count[s] = 0
          /\ at' = [at EXCEPT ![t] = @ + 1]
          /\ UNCHANGED <<count, cand, pc>>
  /\ UNCHANGED <<lock, list, mem, handler, terminating, failed, sess, teardown, passed>>

ScanEnd(t) ==
  /\ pc[t] = "scan" /\ at[t] > Len(list)
  /\ pc' = [pc EXCEPT ![t] = "create"]
  /\ UNCHANGED <<lock, list, sessions, places, teardown, passed>>

(* session_match_valid(); failed is read without the session's mutex. *)
Matches(s, t) == Key[s] = Key[t] /\ s \notin failed

(* The reference goes to the tag, the mutex is released. *)
Reuse(t) ==
  /\ pc[t] = "match" /\ Matches(cand[t], t)
  /\ sess' = [sess EXCEPT ![t] = cand[t]]
  /\ cand' = [cand EXCEPT ![t] = Null]
  /\ pc' = [pc EXCEPT ![t] = "using"]
  /\ lock' = Null
  /\ UNCHANGED <<list, sessions, at, teardown, passed>>

(* rc_dec() by thread t: the last reference makes it destroy the session,  *)
(* otherwise it goes on at next.                                           *)
Drop(t, s, next) ==
  /\ count' = [count EXCEPT ![s] = @ - 1]
  /\ cand' = [cand EXCEPT ![t] = IF count[s] = 1 THEN s ELSE Null]
  /\ pc' = [pc EXCEPT ![t] = IF count[s] = 1 THEN "remove" ELSE next]

(* Another PLC's session, or a failed one.  Everybody else may have left   *)
(* it meanwhile: then the search destroys it, still holding the mutex.     *)
Skip(t) ==
  /\ pc[t] = "match" /\ ~Matches(cand[t], t)
  /\ Drop(t, cand[t], "scan")
  /\ at' = [at EXCEPT ![t] = @ + 1]
  /\ passed' = (passed \/ count[cand[t]] = 1)
  /\ UNCHANGED <<lock, list, mem, handler, terminating, failed, sess, teardown>>

(* session_create_unsafe(): the new session is listed with one reference,  *)
(* which is its tag's, and the mutex is released.                          *)
Create(t) ==
  /\ pc[t] = "create"
  /\ mem' = [mem EXCEPT ![t] = "alive"]
  /\ count' = [count EXCEPT ![t] = 1]
  /\ list' = Append(list, t)
  /\ sess' = [sess EXCEPT ![t] = t]
  /\ pc' = [pc EXCEPT ![t] = "init"]
  /\ lock' = Null
  /\ UNCHANGED <<handler, terminating, failed, at, cand, teardown, passed>>

(* Mutant of CreateFail: the error path leaves the block with the mutex. *)
CreateFailLocked(t) ==
  /\ pc[t] = "create" /\ Failures
  /\ pc' = [pc EXCEPT ![t] = "gone"]
  /\ UNCHANGED <<lock, list, sessions, places, teardown, passed>>

(* No memory, a bad path or an unknown PLC: a session that was allocated   *)
(* is freed again before it is listed.                                     *)
CreateFail(t) ==
  /\ pc[t] = "create" /\ Failures
  /\ pc' = [pc EXCEPT ![t] = "gone"]
  /\ lock' = Null
  /\ UNCHANGED <<list, sessions, places, teardown, passed>>

-----------------------------------------------------------------------------
(* session_init(), outside the mutex: other tags can find the session. *)

Start(t) ==
  /\ pc[t] = "init"
  /\ handler' = [handler EXCEPT ![t] = "running"]
  /\ pc' = [pc EXCEPT ![t] = "using"]
  /\ UNCHANGED <<lock, list, mem, count, terminating, failed, places, teardown, passed>>

(* Mutant of StartFail: the session is not marked as failed. *)
StartFailQuiet(t) ==
  /\ pc[t] = "init" /\ Failures
  /\ pc' = [pc EXCEPT ![t] = "giveup"]
  /\ UNCHANGED <<lock, list, sessions, places, teardown, passed>>

StartFail(t) ==
  /\ pc[t] = "init" /\ Failures
  /\ failed' = failed \cup {t}
  /\ pc' = [pc EXCEPT ![t] = "giveup"]
  /\ UNCHANGED <<lock, list, mem, count, handler, terminating, places, teardown, passed>>

(* Mutant of GiveUp: the creator forgets the session without rc_dec(). *)
GiveUpKeeps(t) ==
  /\ pc[t] = "giveup"
  /\ sess' = [sess EXCEPT ![t] = Null]
  /\ pc' = [pc EXCEPT ![t] = "gone"]
  /\ UNCHANGED <<lock, list, sessions, at, cand, teardown, passed>>

(* The creator of a session that did not start releases it; a tag that has *)
(* found it meanwhile keeps it.                                            *)
GiveUp(t) ==
  /\ pc[t] = "giveup"
  /\ Drop(t, t, "gone")
  /\ sess' = [sess EXCEPT ![t] = Null]
  /\ UNCHANGED <<lock, list, mem, handler, terminating, failed, at, teardown, passed>>

-----------------------------------------------------------------------------
(* The end of a tag and of a session *)

(* ab_tag_destroy() *)
Leave(t) ==
  /\ pc[t] = "using"
  /\ Drop(t, sess[t], "gone")
  /\ sess' = [sess EXCEPT ![t] = Null]
  /\ UNCHANGED <<lock, list, mem, handler, terminating, failed, at, teardown, passed>>

(* remove_session_unsafe(): the entries behind s move one place forward. *)
Without(l, s) ==
  IF s \notin ToSet(l) THEN l
  ELSE LET i == CHOOSE j \in DOMAIN l : l[j] = s
       IN  [j \in 1..Len(l) - 1 |-> IF j < i THEN l[j] ELSE l[j + 1]]

(* session_destroy(): off the list, then terminating. *)
RemoveSession(t) ==
  /\ pc[t] = "remove" /\ lock \in {Null, t}
  /\ list' = Without(list, cand[t])
  /\ terminating' = terminating \cup {cand[t]}
  /\ pc' = [pc EXCEPT ![t] = "join"]
  /\ UNCHANGED <<lock, mem, count, handler, failed, places, teardown, passed>>

(* Mutant of Free: the handler thread is not joined. *)
FreeUnjoined(t) ==
  /\ pc[t] = "join"
  /\ mem' = [mem EXCEPT ![cand[t]] = "freed"]
  /\ cand' = [cand EXCEPT ![t] = Null]
  /\ pc' = [pc EXCEPT ![t] = IF lock = t THEN "scan" ELSE "gone"]
  /\ UNCHANGED <<lock, list, count, handler, terminating, failed, at, sess, teardown, passed>>

(* The handler thread, if it was started, is joined; then nobody else      *)
(* knows the session, and it is closed and freed.  A search goes on.       *)
Free(t) ==
  /\ pc[t] = "join" /\ handler[cand[t]] # "running"
  /\ handler' = [handler EXCEPT ![cand[t]] = "none"]
  /\ mem' = [mem EXCEPT ![cand[t]] = "freed"]
  /\ cand' = [cand EXCEPT ![t] = Null]
  /\ pc' = [pc EXCEPT ![t] = IF lock = t THEN "scan" ELSE "gone"]
  /\ UNCHANGED <<lock, list, count, terminating, failed, at, sess, teardown, passed>>

(* session_handler() leaves its loop when the session or the library ends. *)
HandlerExit(s) ==
  /\ handler[s] = "running"
  /\ s \in terminating \/ teardown # "idle"
  /\ handler' = [handler EXCEPT ![s] = "exited"]
  /\ UNCHANGED <<lock, list, mem, count, terminating, failed, pc, places, teardown, passed>>

-----------------------------------------------------------------------------
(* plc_tag_shutdown() sets library_terminating and destroys the tags; then *)
(* session_teardown() marks the listed sessions and waits for them.        *)

Shutdown ==
  /\ teardown = "idle"
  /\ teardown' = "stopping"
  /\ UNCHANGED <<lock, list, sessions, pc, places, passed>>

MarkAll ==
  /\ teardown = "stopping" /\ lock = Null
  /\ terminating' = terminating \cup ToSet(list)
  /\ teardown' = "marked"
  /\ UNCHANGED <<lock, list, mem, count, handler, failed, pc, places, passed>>

TeardownEnd ==
  /\ teardown = "marked" /\ lock = Null /\ list = <<>>
  /\ teardown' = "done"
  /\ UNCHANGED <<lock, list, sessions, pc, places, passed>>

Inside(t) ==
  \/ Scan(t) \/ ScanEnd(t) \/ Reuse(t) \/ Skip(t) \/ Create(t) \/ CreateFail(t)
  \/ Start(t) \/ StartFail(t) \/ GiveUp(t) \/ RemoveSession(t) \/ Free(t)

Next ==
  \/ \E t \in Tags : Begin(t) \/ Inside(t) \/ Leave(t) \/ HandlerExit(t)
  \/ Shutdown \/ MarkAll \/ TeardownEnd

Spec == Init /\ [][Next]_vars

(* A thread inside the library goes on, a handler looks at its flags at    *)
(* every turn, session_teardown() polls, and plc_tag_shutdown() destroys   *)
(* every tag.  Nobody else is obliged to call anything.                    *)
FairSpec ==
  /\ Spec
  /\ \A t \in Tags : /\ WF_vars(Inside(t)) /\ WF_vars(HandlerExit(t))
                     /\ WF_vars(teardown # "idle" /\ Leave(t))
  /\ WF_vars(MarkAll) /\ WF_vars(TeardownEnd)

-----------------------------------------------------------------------------
(* Properties *)

(* The tags that hold a reference to s: their own session, the session     *)
(* they compare, and the one they still start.                             *)
Holders(s) == {t \in Tags : sess[t] = s \/ (pc[t] = "match" /\ cand[t] = s)}

Listed(s) == s \in ToSet(list)

(* Every variable has its type: counts never go below zero. *)
TypeOK ==
  /\ lock \in Tags \cup {Null} /\ list \in Seq(Tags)
  /\ mem \in [Tags -> {"none", "alive", "freed"}]
  /\ count \in [Tags -> 0..Cardinality(Tags)]
  /\ handler \in [Tags -> {"none", "running", "exited"}]
  /\ terminating \subseteq Tags /\ failed \subseteq Tags
  /\ pc \in [Tags -> Pcs]
  /\ at \in [Tags -> 1..Cardinality(Tags) + 1]
  /\ sess \in [Tags -> Tags \cup {Null}] /\ cand \in [Tags -> Tags \cup {Null}]
  /\ teardown \in {"idle", "stopping", "marked", "done"} /\ passed \in BOOLEAN

(* The count of a session is the number of its holders, whatever searches, *)
(* failures and departures overlap.                                        *)
CountIsHolders == \A s \in Tags : count[s] = Cardinality(Holders(s))

(* The memory of a session outlives its place in the list, its holders     *)
(* and its handler thread.                                                 *)
MemorySafe ==
  \A s \in Tags : Listed(s) \/ Holders(s) # {} \/ handler[s] # "none" => mem[s] = "alive"

(* Tags that share a PLC share one session: two sound sessions of a PLC,   *)
(* made by sharing tags, exist together only after a search has destroyed  *)
(* a session on its way, which moves the list under its index.             *)
Sound(s) == Listed(s) /\ count[s] > 0 /\ s \notin failed \cup Private
OneSession ==
  ~passed => \A s1, s2 \in Tags : Sound(s1) /\ Sound(s2) /\ Key[s1] = Key[s2] => s1 = s2

(* A tag never stays with a session that nobody serves and that does not   *)
(* count as failed, although it may take one before its thread exists.     *)
UsersServed ==
  \A t, s \in Tags :
    sess[t] = s ~> \/ handler[s] = "running" \/ s \in failed
                   \/ sess[t] # s \/ teardown # "idle"

(* session_teardown() returns: the list becomes empty. *)
TeardownReturns == teardown = "stopping" ~> teardown = "done"

=============================================================================
