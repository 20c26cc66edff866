------------------------------- MODULE MCTags -------------------------------
(* Two parts of a tag that have nothing to do with each other, in one run: *)
(* "kinds", the protocol's functions of one tag with its data; and the     *)
(* events: of one tag and two application threads ("events"); of two tags  *)
(* ("pair"), where the callback of the first calls functions of the second *)
(* and that of the second its own; and of one that is read automatically,  *)
(* with one application thread ("auto").                                   *)
(* "part" chooses one; the others stay in one initial state.  The events   *)
(* come with the theorems about them.                                      *)
EXTENDS MCTagKinds

CONSTANTS Callers, Caller, TicklerThread, None, e1, e2

VARIABLES part, evTag, cond, owner, pc, on, call, pass, calls, balance, seen, promised

AllCalls == {"read", "write", "abort", "destroy", "register", "unregister"}
One == INSTANCE TagEventsProofs WITH tag <- evTag, Clients <- Callers, AutoRead <- FALSE,
         Tags <- {e1}, Peer <- [t \in {e1} |-> e1], Calls <- [t \in {e1} |-> AllCalls],
         MaxCalls <- 2
Two == INSTANCE TagEventsProofs WITH tag <- evTag, Clients <- Callers, AutoRead <- FALSE,
         Tags <- {e1, e2}, Peer <- [t \in {e1, e2} |-> e2], Calls <- [t \in {e1, e2} |-> AllCalls],
         MaxCalls <- 1
Automatic == INSTANCE TagEventsProofs WITH tag <- evTag, Clients <- {Caller}, AutoRead <- TRUE,
         Tags <- {e1}, Peer <- [t \in {e1} |-> e1], Calls <- [t \in {e1} |-> AllCalls],
         MaxCalls <- 1

ASSUME EventAssumption ==
  One!EventAssumption /\ Two!EventAssumption /\ Automatic!EventAssumption

eventVars == <<evTag, cond, owner, pc, on, call, pass, calls, balance, seen, promised>>
tagsVars  == <<part, vars, eventVars>>

TagsInit ==
  /\ part \in {"kinds", "events", "pair", "auto"}
  /\ Init
  /\ part # "kinds" => tag.kind = "lgx"
  /\ CASE part = "pair" -> Two!Init
       [] part = "auto" -> Automatic!Init
       [] OTHER         -> One!Init
  /\ part = "kinds" => \A c \in Callers : pc[c] = "idle"

TagsNext ==
  \/ part = "kinds" /\ Next /\ UNCHANGED <<part, eventVars>>
  \/ part = "events" /\ One!Next /\ UNCHANGED <<part, vars>>
  \/ part = "pair" /\ Two!Next /\ UNCHANGED <<part, vars>>
  \/ part = "auto" /\ Automatic!Next /\ UNCHANGED <<part, vars>>

TagsSpec == TagsInit /\ [][TagsNext]_tagsVars

(* TagEvents.tla: no end is told without its start, and nothing before the *)
(* creation; no callbacks wait for each other, as long as the tags' owners *)
(* do not call each other's functions from callbacks both ways.            *)
ToldInOrder == /\ part = "events" => One!ToldInOrder
               /\ part = "pair" => Two!ToldInOrder
               /\ part = "auto" => Automatic!ToldInOrder
NoDeadlock  == /\ part = "events" => One!NoDeadlock
               /\ part = "pair" => Two!NoDeadlock
               /\ part = "auto" => Automatic!NoDeadlock

=============================================================================
