----------------------------- MODULE MCTagTable -----------------------------
(* Three parts that have nothing to do with each other, in one run: the    *)
(* handle table ("table"); one session or Omron connection with two        *)
(* requests ("session"), where the answers of an Omron PLC fit in one      *)
(* packet unless the connection is the smallest; and the events of one tag *)
(* and one application thread ("events").  "part" chooses one; the others  *)
(* stay in one initial state.  The session comes with its theorems.        *)
EXTENDS TagTable

CONSTANTS Null, r1, r2, Caller, TicklerThread, e1

VARIABLES part,
  tag, cond, owner, evPc, on, call, pass, calls, balance, seen, promised,
  kind, state, auto, expired, oldOnly, guess, payload, queue, bundle, wire, submitted, held,
  aborted, got, refs, stop, faults

Session == INSTANCE AbSessionProofs WITH
  Requests <- {r1, r2}, Packable <- {r1, r2},
  Size <- [r \in {r1, r2} |-> 1], ReplySize <- [r \in {r1, r2} |-> IF r = r1 THEN 4 ELSE 2],
  FirstReads <- {}, MaxRequests <- 2, PackOverhead <- 1, UseConnected <- TRUE,
  FoConnSize <- 4, FoExConnSize <- 8, Grants <- {4, 6}, MaxFaults <- 2,
  SilentOpen <- TRUE, UnpackFails <- TRUE, PushBackRace <- TRUE

Events == INSTANCE TagEvents WITH pc <- evPc, Clients <- {Caller}, Tags <- {e1},
  Peer <- [t \in {e1} |-> e1], Calls <- [t \in {e1} |-> {"read", "write", "abort"}],
  AutoRead <- FALSE, MaxCalls <- 2, None <- Null

ASSUME PartAssumption ==
  /\ Session!RequestAssumption /\ Session!SizeAssumption /\ Session!ModeAssumption
  /\ Session!ReplyAssumption /\ Events!EventAssumption

sessionVars == <<kind, state, auto, expired, oldOnly, guess, payload, queue, bundle, wire,
                 submitted, held, aborted, got, refs, stop, faults>>
eventVars   == <<tag, cond, owner, evPc, on, call, pass, calls, balance, seen, promised>>
partVars    == <<part, vars, sessionVars, eventVars>>

PartInit ==
  /\ part \in {"table", "session", "events"}
  /\ Init /\ Session!EitherInit /\ Events!Init
  /\ part # "session" => kind = "ab" /\ ~oldOnly
  /\ part # "events" => evPc[Caller] = "idle"

Only(p) ==
  /\ part = p /\ UNCHANGED part
  /\ p # "table" => UNCHANGED vars
  /\ p # "session" => UNCHANGED sessionVars
  /\ p # "events" => UNCHANGED eventVars

PartNext ==
  \/ Only("table") /\ Next
  \/ Only("session") /\ Session!EitherNext
  \/ Only("events") /\ Events!Next

(* The fairness of OmronConn and of TagEvents *)
PartFairness ==
  /\ WF_partVars(Only("session") /\ Session!EitherHandler)
  /\ WF_partVars(Only("session") /\ Session!Join /\ UNCHANGED kind)
  /\ \A c \in {Caller, TicklerThread} : SF_partVars(Only("events") /\ Events!Step(c))
  /\ SF_partVars(Only("events") /\ Events!Fetch(e1))
  /\ SF_partVars(Only("events") /\ on[TicklerThread] = e1 /\ \E due \in BOOLEAN : Events!Tick(due))
  /\ WF_partVars(Only("events") /\ \E reply \in {"good", "bad"} : Events!Respond(e1, reply))

PartSpec == PartInit /\ [][PartNext]_partVars /\ PartFairness

(* AbSession.tla: no request gets the reply to another. *)
AnswerMatches  == Session!AnswerMatches
(* AbSession.tla: session_destroy() returns.            *)
DestroyReturns == Session!DestroyReturns
(* TagEvents.tla: what has begun for the callback ends. *)
EndIsTold      == part = "events" => Events!EndIsTold

=============================================================================
