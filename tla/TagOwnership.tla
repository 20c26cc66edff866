---------------------------- MODULE TagOwnership ----------------------------
(* What reference counting promises about tags, without counters, handles  *)
(* or threads: a tag has a set of owners; only an owner can hand its share *)
(* on or let somebody join; the tag is reclaimed once, after the last      *)
(* owner left, and nobody becomes an owner of it again.                    *)
CONSTANTS Tags, Owner

VARIABLES life, owners

vars == <<life, owners>>

Init ==
  /\ life = [g \in Tags |-> "none"]
  /\ owners = [g \in Tags |-> {}]

(* A new tag belongs to its creator alone. *)
Born(g, o) ==
  /\ life[g] = "none"
  /\ life' = [life EXCEPT ![g] = "live"]
  /\ owners' = [owners EXCEPT ![g] = {o}]

(* Somebody joins the owners of a tag that still has one. *)
Acquire(g, o) ==
  /\ life[g] = "live" /\ owners[g] # {} /\ o \notin owners[g]
  /\ owners' = [owners EXCEPT ![g] = @ \cup {o}]
  /\ UNCHANGED life

(* An owner hands its share on. *)
Transfer(g, o, p) ==
  /\ o \in owners[g] /\ p \notin owners[g]
  /\ owners' = [owners EXCEPT ![g] = (@ \ {o}) \cup {p}]
  /\ UNCHANGED life

(* An owner leaves; after the last one nobody can join. *)
Release(g, o) ==
  /\ o \in owners[g]
  /\ owners' = [owners EXCEPT ![g] = @ \ {o}]
  /\ life' = [life EXCEPT ![g] = IF owners[g] = {o} THEN "dying" ELSE @]

Reclaim(g) ==
  /\ life[g] = "dying"
  /\ life' = [life EXCEPT ![g] = "freed"]
  /\ UNCHANGED owners

(* The tag that a step is about *)
Changed(g) == life'[g] # life[g] \/ owners'[g] # owners[g]

Next ==
  \E g \in Tags : Changed(g) /\
    \/ \E o \in Owner : Born(g, o)
    \/ \E o \in Owner \ owners[g] : Acquire(g, o) \/ \E p \in owners[g] : Transfer(g, p, o)
    \/ \E o \in owners[g] : Release(g, o)
    \/ Reclaim(g)

Spec == Init /\ [][Next]_vars
=============================================================================
