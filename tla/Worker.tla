------------------------------- MODULE Worker -------------------------------
(***************************************************************************)
(* The mutex, thread and condition variable of platform.c at work: the     *)
(* thread of an Allen-Bradley or Omron session, the application threads    *)
(* that queue work for it, and the thread that creates and destroys it.    *)
(*                                                                         *)
(* The two platform.c files differ where a thread cannot be created and in *)
(* how a condition is signalled; "os" chooses one of them.  What a wait    *)
(* returns is not modelled: the session's thread ignores it.               *)
(***************************************************************************)
EXTENDS Naturals, FiniteSets

CONSTANTS
  Users,      \* application threads that queue requests
  Systems,    \* subset of {"posix", "windows"}
  MaxCalls,   \* bound: requests queued
  MaxFaults   \* bound: failed creations

WorkerAssumption == /\ Users # {} /\ Users \cap {"owner", "handler"} = {}
                    /\ Systems \subseteq {"posix", "windows"}
                    /\ MaxCalls \in Nat /\ MaxFaults \in Nat

VARIABLES
  os,           \* the platform
  has,          \* the objects that session->mutex, cond and thread point to
  mutex,        \* who holds the recursive mutex
  flag,         \* cond_t.flag
  queue,        \* session->requests, counted
  terminating,  \* session->terminating
  pc,           \* where each thread is
  calls,        \* requests queued so far
  faults

vars == <<os, has, mutex, flag, queue, terminating, pc, calls, faults>>

Owner    == "owner"
Handler  == "handler"
Threads  == Users \cup {Owner, Handler}
Nobody   == "nobody"

Goto(t, where) == pc' = [pc EXCEPT ![t] = where]
At(t, where)   == pc[t] = where

Init ==
  /\ os \in Systems
  /\ has = {} /\ mutex = Nobody /\ flag = FALSE
  /\ queue = 0 /\ terminating = FALSE
  /\ pc = [t \in Threads |-> CASE t = Owner -> "mutex_create" [] t = Handler -> "none" [] OTHER -> "idle"]
  /\ calls = 0 /\ faults = 0

-----------------------------------------------------------------------------
(* Mutexes: mutex_lock() waits, and critical_block() skips its body where  *)
(* there is no mutex to lock.                                              *)

MutexLock(t)   == mutex \in {Nobody, t} /\ mutex' = t
MutexUnlock(t) == mutex = t /\ mutex' = Nobody

(* One step of session_init(): the object is created, or the session is    *)
(* given up.                                                               *)
Create(step, object, next) ==
  /\ At(Owner, step)
  /\ \/ has' = has \cup {object} /\ Goto(Owner, next) /\ UNCHANGED faults
     \/ /\ faults < MaxFaults /\ faults' = faults + 1
        /\ Goto(Owner, "stop") /\ UNCHANGED has
  /\ UNCHANGED <<os, mutex, flag, queue, terminating, calls>>

MutexCreate == Create("mutex_create", "mutex", "cond_create")
CondCreate  == Create("cond_create", "cond", "thread_create")

-----------------------------------------------------------------------------
(* Threads *)

(* Mutant of ThreadLeft: neither platform clears the pointer. *)
ThreadLeftBoth == {"thread"}

(* What a failed thread_create() leaves: on POSIX the caller's pointer     *)
(* still points to the structure.                                          *)
ThreadLeft == IF os = "posix" THEN {"thread"} ELSE {}

ThreadCreate ==
  /\ At(Owner, "thread_create")
  /\ \/ /\ has' = has \cup {"thread"}
        /\ pc' = [pc EXCEPT ![Owner] = "up", ![Handler] = "loop"]
        /\ UNCHANGED faults
     \/ /\ faults < MaxFaults /\ faults' = faults + 1
        /\ has' = has \cup ThreadLeft
        /\ Goto(Owner, "stop")
  /\ UNCHANGED <<os, mutex, flag, queue, terminating, calls>>

(* thread_join() returns when the thread has ended.  Joining one that was  *)
(* never started is undefined: it may crash, or return an error.           *)
ThreadJoin ==
  /\ At(Owner, "join")
  /\ \/ "thread" \notin has /\ Goto(Owner, "release")
     \/ "thread" \in has /\ At(Handler, "ended") /\ Goto(Owner, "thread_destroy")
     \/ /\ "thread" \in has /\ At(Handler, "none")
        /\ \E after \in {"thread_destroy", "crashed"} : Goto(Owner, after)
  /\ UNCHANGED <<os, has, mutex, flag, queue, terminating, calls, faults>>

(* thread_destroy() under the session's mutex *)
ThreadDestroy ==
  /\ At(Owner, "thread_destroy") /\ mutex = Nobody
  /\ has' = has \ {"thread"}
  /\ Goto(Owner, "release")
  /\ UNCHANGED <<os, mutex, flag, queue, terminating, calls, faults>>

-----------------------------------------------------------------------------
(* Condition variables: every function holds the condition's own mutex,    *)
(* which a sleeping thread gives up.                                       *)

Sleeping(t) == At(t, "asleep")

(* cond_signal(): on POSIX the sleeper is woken under the mutex ... *)
PosixSignal(t, next) ==
  /\ os = "posix"
  /\ pc' = [pc EXCEPT ![t] = next, ![Handler] = IF @ = "asleep" THEN "awake" ELSE @]

(* ... on Windows after it. *)
WindowsSignal(t) == os = "windows" /\ Goto(t, IF t = Owner THEN "wake" ELSE "wake_user")

CondSignal(t, next) ==
  /\ flag' = TRUE
  /\ PosixSignal(t, next) \/ WindowsSignal(t)
  /\ UNCHANGED <<os, has, mutex, queue, terminating, calls, faults>>

WakeCondition(t, here, next) ==
  /\ At(t, here)
  /\ pc' = [pc EXCEPT ![t] = next, ![Handler] = IF @ = "asleep" THEN "awake" ELSE @]
  /\ UNCHANGED <<os, has, mutex, flag, queue, terminating, calls, faults>>

(* Mutant of CondWait: the flag is not looked at before the thread sleeps. *)
CondWaitSleeps ==
  /\ pc[Handler] \in {"wait", "awake", "expired"}
  /\ IF pc[Handler] # "wait" /\ flag THEN flag' = FALSE /\ Goto(Handler, "loop")
     ELSE /\ UNCHANGED flag
          /\ \/ pc[Handler] # "expired" /\ Goto(Handler, "asleep")
             \/ pc[Handler] # "wait" /\ Goto(Handler, "loop")
  /\ UNCHANGED <<os, has, mutex, queue, terminating, calls, faults>>

(* cond_wait(): a set flag is cleared and ends the wait, even one that has *)
(* just run out of time.  A thread that finds no flag sleeps, again if it  *)
(* was woken for nothing, or has no time left.                             *)
CondWait ==
  /\ pc[Handler] \in {"wait", "awake", "expired"}
  /\ IF flag THEN flag' = FALSE /\ Goto(Handler, "loop")
     ELSE /\ UNCHANGED flag
          /\ \/ pc[Handler] # "expired" /\ Goto(Handler, "asleep")
             \/ pc[Handler] # "wait" /\ Goto(Handler, "loop")
  /\ UNCHANGED <<os, has, mutex, queue, terminating, calls, faults>>

(* The sleeper's time is over, or it wakes for no reason. *)
SleepEnds ==
  /\ Sleeping(Handler)
  /\ \E how \in {"expired", "awake"} : Goto(Handler, how)
  /\ UNCHANGED <<os, has, mutex, flag, queue, terminating, calls, faults>>

-----------------------------------------------------------------------------
(* The session's thread: it takes the work under the mutex, and waits when *)
(* there was none.  A turn that did something signals the condition        *)
(* itself, so that the wait at its end returns at once.                    *)

HandlerLoop ==
  /\ At(Handler, "loop")
  /\ IF terminating THEN Goto(Handler, "ended") ELSE Goto(Handler, "take")
  /\ UNCHANGED <<os, has, mutex, flag, queue, terminating, calls, faults>>

HandlerTake ==
  /\ At(Handler, "take") /\ mutex = Nobody
  /\ queue' = 0
  /\ IF queue > 0 THEN Goto(Handler, "loop") ELSE Goto(Handler, "wait")
  /\ UNCHANGED <<os, has, mutex, flag, terminating, calls, faults>>

(* session_add_request(): the queue grows under the mutex, the signal      *)
(* comes after it.                                                         *)
Call(u) ==
  /\ At(u, "idle") /\ At(Owner, "up") /\ calls < MaxCalls
  /\ calls' = calls + 1
  /\ Goto(u, "lock")
  /\ UNCHANGED <<os, has, mutex, flag, queue, terminating, faults>>

Enter(u) ==
  /\ At(u, "lock") /\ MutexLock(u)
  /\ Goto(u, "add")
  /\ UNCHANGED <<os, has, flag, queue, terminating, calls, faults>>

Add(u) ==
  /\ At(u, "add") /\ MutexUnlock(u)
  /\ queue' = queue + 1
  /\ Goto(u, "signal")
  /\ UNCHANGED <<os, has, flag, terminating, calls, faults>>

Signal(u) == At(u, "signal") /\ CondSignal(u, "idle")

(* session_destroy(), when the last reference is gone *)
Release ==
  /\ At(Owner, "up") /\ \A u \in Users : At(u, "idle")
  /\ Goto(Owner, "stop")
  /\ UNCHANGED <<os, has, mutex, flag, queue, terminating, calls, faults>>

Stop ==
  /\ At(Owner, "stop")
  /\ terminating' = TRUE
  /\ Goto(Owner, IF "cond" \in has THEN "owner_signal" ELSE "join")
  /\ UNCHANGED <<os, has, mutex, flag, queue, calls, faults>>

OwnerSignal == At(Owner, "owner_signal") /\ CondSignal(Owner, "join")

(* The requests nobody has taken are released, under the mutex. *)
ReleaseRequests ==
  /\ At(Owner, "release") /\ mutex = Nobody
  /\ queue' = 0
  /\ Goto(Owner, "cond_destroy")
  /\ UNCHANGED <<os, has, mutex, flag, terminating, calls, faults>>

(* cond_destroy() and mutex_destroy() *)
Destroy(step, object, next) ==
  /\ At(Owner, step)
  /\ has' = has \ {object}
  /\ Goto(Owner, next)
  /\ UNCHANGED <<os, mutex, flag, queue, terminating, calls, faults>>

CondDestroy  == Destroy("cond_destroy", "cond", "mutex_destroy")
MutexDestroy == Destroy("mutex_destroy", "mutex", "done")

-----------------------------------------------------------------------------
OwnerStep ==
  \/ MutexCreate \/ CondCreate \/ ThreadCreate
  \/ Stop \/ OwnerSignal \/ WakeCondition(Owner, "wake", "join")
  \/ ThreadJoin \/ ThreadDestroy \/ ReleaseRequests \/ CondDestroy \/ MutexDestroy

HandlerStep == HandlerLoop \/ HandlerTake \/ CondWait

UserStep(u) == Enter(u) \/ Add(u) \/ Signal(u) \/ WakeCondition(u, "wake_user", "idle")

Next ==
  \/ OwnerStep \/ Release \/ HandlerStep \/ SleepEnds
  \/ \E u \in Users : Call(u) \/ UserStep(u)

Spec == Init /\ [][Next]_vars

(* The threads run; nobody is owed a timeout, a further request or the     *)
(* last reference's release.                                               *)
Fairness == WF_vars(OwnerStep) /\ WF_vars(HandlerStep) /\ \A u \in Users : WF_vars(UserStep(u))

FairSpec == Spec /\ Fairness

-----------------------------------------------------------------------------
(* Work that is queued is taken, and a session that is told to stop stops, *)
(* without help from the timeout of the wait: no signal is lost between    *)
(* the look at the queue and the sleep, on either platform.                *)
WorkTaken == /\ queue > 0 ~> queue = 0
             /\ At(Owner, "join") ~> pc[Owner] \in {"done", "crashed"}

(* When session_destroy() is over the thread has ended and every object of *)
(* session_init() is gone, whichever creation failed; and only on POSIX    *)
(* does a failed thread_create() have it join a thread that never ran.     *)
NothingLeft ==
  /\ At(Owner, "done") => has = {} /\ pc[Handler] \in {"none", "ended"}
  /\ "thread" \in has /\ At(Owner, "join") /\ At(Handler, "none") => os = "posix"

=============================================================================
