--------------------------- MODULE OmronConnList ----------------------------
(***************************************************************************)
(* The list of Omron connections (omron/conn.c): a copy of the functions   *)
(* that SessionList models.  The copy leaves out one step: conn_teardown() *)
(* does not mark the listed connections as terminating, and relies on      *)
(* library_terminating.                                                    *)
(***************************************************************************)
EXTENDS SessionList

(* conn_find_or_create() *)
ConnFindOrCreate(t) == Begin(t) \/ CreateFail(t) \/ GiveUp(t)

(* find_conn_by_host_unsafe() and conn_match_valid() *)
ConnScan(t) == Scan(t) \/ ScanEnd(t)
ConnMatch(t) == Reuse(t) \/ Skip(t)

(* conn_create_unsafe(), which lists the new connection, and conn_init() *)
ConnCreate(t) == Create(t)
ConnInit(t) == Start(t) \/ StartFail(t)

(* remove_conn() and the rest of conn_destroy() *)
ConnRemove(t) == RemoveSession(t)
ConnFree(t) == Free(t)

(* conn_teardown() *)
ConnTeardown ==
  \/ /\ teardown = "stopping" /\ lock = Null
     /\ teardown' = "marked"
     /\ UNCHANGED <<lock, list, sessions, pc, places, passed>>
  \/ TeardownEnd

ConnNext ==
  \/ \E t \in Tags : \/ ConnFindOrCreate(t) \/ ConnScan(t) \/ ConnMatch(t) \/ ConnCreate(t)
                     \/ ConnInit(t) \/ ConnRemove(t) \/ ConnFree(t)
                     \/ Leave(t) \/ HandlerExit(t)
  \/ Shutdown \/ ConnTeardown

=============================================================================
