------------------------------- MODULE HashMap -------------------------------
(* What the tag library expects of its table of handles: a map from keys to *)
(* tags.  A new key is put in or refused for want of memory; every other   *)
(* operation succeeds.  HashTable.tla is shown to implement it.            *)
EXTENDS FiniteSets

CONSTANTS Keys, Data, Null

VARIABLES map, result

Found(k) == IF k \in DOMAIN map THEN map[k] ELSE Null

Init == map = [k \in {} |-> Null] /\ result = <<"create", "OK">>

Put(k, d) ==
  /\ k \notin DOMAIN map
  /\ \/ /\ map' = [x \in DOMAIN map \cup {k} |-> IF x = k THEN d ELSE map[x]]
        /\ result' = <<"put", "OK">>
     \/ UNCHANGED map /\ result' = <<"put", "NO_MEM">>

Get(k) == result' = <<"get", Found(k)>> /\ UNCHANGED map

Remove(k) ==
  /\ result' = <<"remove", Found(k)>>
  /\ map' = [x \in DOMAIN map \ {k} |-> map[x]]

Walk == result' = <<"walk", {map[k] : k \in DOMAIN map}>> /\ UNCHANGED map

Entries == result' = <<"entries", Cardinality(DOMAIN map)>> /\ UNCHANGED map

Next == \/ \E k \in Keys, d \in Data : Put(k, d)
        \/ \E k \in Keys : Get(k) \/ Remove(k)
        \/ Walk \/ Entries

Spec == Init /\ [][Next]_<<map, result>>

=============================================================================
