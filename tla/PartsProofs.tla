---------------------------- MODULE PartsProofs ----------------------------
(***************************************************************************)
(* Proofs about the four parts of MCParts, each by itself, for every value *)
(* of the constants: the table of handles implements a map, whatever the   *)
(* hash function, the sizes and the memory (HashTable); whatever its byte  *)
(* order, what is stored in the buffer of a tag is read back, and storing  *)
(* changes nothing but what is stored (TagData); whichever creation fails, *)
(* the end of a session leaves no thread and no object behind (Worker);    *)
(* whichever call fails, a PLC without a socket has no descriptor open     *)
(* (PlcSocket).                                                            *)
EXTENDS MCParts, FiniteSetTheorems, WellFoundedInduction, SequenceTheorems, TLAPS

-----------------------------------------------------------------------------
(* The table of handles *)

(* A key reaches places of the table only. *)
LEMMA SlotInRange ==
  ASSUME hash \in [Keys -> Nat], NEW k \in Keys, NEW i \in Iterations, NEW n \in Nat \ {0}
  PROVE  Slot(hash, k, i, n) \in Places(n)
<1>1. hash[k] \in Nat /\ i \in Nat
  BY HashTableAssumption DEF Iterations
<1>2. QED
  BY <1>1 DEF Slot, Places

(* The search ends at a place that is wanted and within reach, and finds   *)
(* nothing only where there is no such place.                              *)
LEMMA FirstIsWanted ==
  ASSUME hash \in [Keys -> Nat], NEW k \in Keys, NEW n \in Nat \ {0}, NEW wanted
  PROVE  \/ First(k, n, wanted) = NotFound /\ \A i \in Iterations : Slot(hash, k, i, n) \notin wanted
         \/ /\ First(k, n, wanted) \in wanted
            /\ First(k, n, wanted) \in Places(n)
            /\ \E i \in Iterations : First(k, n, wanted) = Slot(hash, k, i, n)
<1> DEFINE S == {i \in Iterations : Slot(hash, k, i, n) \in wanted}
           Good(i) == Slot(hash, k, i, n) \in wanted /\ \A j \in 0 .. i - 1 : Slot(hash, k, j, n) \notin wanted
<1>1. CASE S = {}
  BY <1>1 DEF First
<1>2. CASE S # {}
  <2>1. S \subseteq Nat
    BY HashTableAssumption DEF Iterations
  <2>2. PICK i \in S : \A j \in S : ~(<<j, i>> \in OpToRel(<, Nat))
    BY <1>2, <2>1, NatLessThanWellFounded, WFMin
  <2>3. \A j \in S : ~(j < i)
    BY <2>1, <2>2 DEF OpToRel
  <2>4. Good(i)
    <3>1. i \in Nat /\ i \in Iterations
      BY <2>1
    <3>2. \A j \in 0 .. i - 1 : j \in Iterations /\ j < i
      BY <3>1, HashTableAssumption DEF Iterations
    <3>3. QED
      BY <2>3, <3>2
  <2>5. Good(CHOOSE m \in Iterations : Good(m)) /\ (CHOOSE m \in Iterations : Good(m)) \in Iterations
    BY <2>4
  <2>6. First(k, n, wanted) = Slot(hash, k, CHOOSE m \in Iterations : Good(m), n)
    BY <1>2 DEF First
  <2>7. QED
    BY <2>5, <2>6, SlotInRange
<1>3. QED
  BY <1>1, <1>2

(* What find_empty() returns is an empty place within reach, and what      *)
(* find_key() returns is the one place with the key.                       *)
LEMMA EmptyIsFound ==
  ASSUME hash \in [Keys -> Nat], NEW k \in Keys, NEW t, NEW n \in Nat \ {0},
         FindEmpty(k, t, n) # NotFound
  PROVE  /\ FindEmpty(k, t, n) \in Places(n) /\ t[FindEmpty(k, t, n)].data = Null
         /\ \E i \in Iterations : FindEmpty(k, t, n) = Slot(hash, k, i, n)
<1> DEFINE wanted == {p \in Places(n) : t[p].data = Null}
<1>1. FindEmpty(k, t, n) = First(k, n, wanted)
  BY DEF FindEmpty
<1>2. /\ First(k, n, wanted) \in wanted
      /\ \E i \in Iterations : First(k, n, wanted) = Slot(hash, k, i, n)
  BY <1>1, FirstIsWanted
<1>3. QED
  BY <1>1, <1>2

LEMMA KeyIsFound ==
  ASSUME hash \in [Keys -> Nat], TableOK(hash, entries, total, used), NEW k \in Keys
  PROVE  \/ FindKey(k) = NotFound /\ k \notin UsedKeys(entries, total)
         \/ /\ FindKey(k) \in UsedPlaces(entries, total)
            /\ entries[FindKey(k)].key = k
<1> DEFINE wanted == {p \in Places(total) : entries[p].key = k}
<1>1. total \in Nat \ {0} /\ k # 0 /\ Null \notin Data
  BY HashTableAssumption DEF TableOK
<1>2. \A p \in wanted : p \in UsedPlaces(entries, total)
  BY <1>1 DEF TableOK, UsedPlaces, Entry, Empty
<1>3. CASE FindKey(k) = NotFound /\ \A i \in Iterations : Slot(hash, k, i, total) \notin wanted
  <2>1. \A p \in UsedPlaces(entries, total) : entries[p].key = k => FALSE
    BY <1>3 DEF TableOK, UsedPlaces
  <2>2. QED
    BY <1>3, <2>1 DEF UsedKeys
<1>4. CASE FindKey(k) \in wanted
  BY <1>2, <1>4
<1>5. FindKey(k) = First(k, total, wanted)
  BY DEF FindKey
<1>6. QED
  BY <1>1, <1>3, <1>4, <1>5, FirstIsWanted

(* An entry put in an empty place within reach of its new key *)
LEMMA TableInsert ==
  ASSUME NEW h, NEW t, NEW n, NEW count, TableOK(h, t, n, count),
         NEW k \in Keys, k \notin UsedKeys(t, n), NEW d \in Data,
         NEW p \in Places(n), t[p].data = Null, NEW i \in Iterations, p = Slot(h, k, i, n),
         NEW u \in [Places(n) -> Entry], u[p].key = k, u[p].data = d,
         \A q \in Places(n) : q # p => u[q] = t[q]
  PROVE  /\ TableOK(h, u, n, count + 1)
         /\ UsedPlaces(u, n) = UsedPlaces(t, n) \cup {p}
         /\ UsedKeys(u, n) = UsedKeys(t, n) \cup {k}
         /\ \A q \in UsedPlaces(t, n) : q # p /\ u[q] = t[q]
<1>1. t \in [Places(n) -> Entry] /\ Null \notin Data
  BY HashTableAssumption DEF TableOK
<1>3. d # Null /\ k # 0 /\ u[p].key = k /\ u[p].data = d
  BY <1>1, HashTableAssumption
<1>4. UsedPlaces(u, n) = UsedPlaces(t, n) \cup {p}
  BY <1>3 DEF UsedPlaces
<1>5. \A q \in UsedPlaces(t, n) : q # p /\ u[q] = t[q]
  BY <1>3 DEF UsedPlaces
<1>6. UsedKeys(u, n) = UsedKeys(t, n) \cup {k}
  <2>1. u[p].key = k
    BY <1>3
  <2>2. \A q \in UsedPlaces(u, n) : q = p \/ (q \in UsedPlaces(t, n) /\ u[q].key = t[q].key)
    BY <1>4, <1>5
  <2>3. \A x \in UsedKeys(u, n) : x \in UsedKeys(t, n) \cup {k}
    <3>1. TAKE x \in UsedKeys(u, n)
    <3>2. PICK q \in UsedPlaces(u, n) : x = u[q].key
      BY DEF UsedKeys
    <3>3. CASE q = p
      BY <2>1, <3>2, <3>3
    <3>4. CASE q \in UsedPlaces(t, n) /\ u[q].key = t[q].key
      BY <3>2, <3>4 DEF UsedKeys
    <3>5. QED
      BY <2>2, <3>3, <3>4
  <2>4. \A q \in UsedPlaces(t, n) : q \in UsedPlaces(u, n) /\ u[q].key = t[q].key
    BY <1>4, <1>5
  <2>5. p \in UsedPlaces(u, n)
    BY <1>4
  <2>6. \A x \in UsedKeys(t, n) \cup {k} : x \in UsedKeys(u, n)
    BY <2>1, <2>4, <2>5, ZenonT(60) DEF UsedKeys
  <2>7. QED
    BY <2>3, <2>6
<1>7. \A q \in UsedPlaces(u, n) : \E j \in Iterations : q = Slot(h, u[q].key, j, n)
  BY <1>3, <1>4, <1>5 DEF TableOK
<1>8. \A q, r \in UsedPlaces(u, n) : u[q].key = u[r].key => q = r
  <2>1. \A q \in UsedPlaces(t, n) : t[q].key # k
    BY DEF UsedKeys
  <2>2. QED
    BY <1>3, <1>4, <1>5, <2>1 DEF TableOK
<1>9. IsFiniteSet(UsedKeys(u, n)) /\ count + 1 = Cardinality(UsedKeys(u, n))
  <2>1. IsFiniteSet(UsedKeys(t, n)) /\ count = Cardinality(UsedKeys(t, n))
    BY DEF TableOK
  <2>2. QED
    BY <1>6, <2>1, FS_AddElement
<1>10. QED
  BY <1>4, <1>5, <1>6, <1>7, <1>8, <1>9 DEF TableOK

(* An entry taken out *)
LEMMA TableRemove ==
  ASSUME NEW h, NEW t, NEW n, NEW count, TableOK(h, t, n, count),
         NEW p \in UsedPlaces(t, n), NEW u \in [Places(n) -> Entry],
         u[p] = Empty, \A q \in Places(n) : q # p => u[q] = t[q]
  PROVE  /\ TableOK(h, u, n, count - 1)
         /\ UsedPlaces(u, n) = UsedPlaces(t, n) \ {p}
         /\ UsedKeys(u, n) = UsedKeys(t, n) \ {t[p].key}
         /\ \A q \in UsedPlaces(u, n) : u[q] = t[q]
<1>1. t \in [Places(n) -> Entry] /\ p \in Places(n)
  BY DEF TableOK, UsedPlaces
<1>4. UsedPlaces(u, n) = UsedPlaces(t, n) \ {p}
  BY <1>1 DEF UsedPlaces, Empty
<1>5. \A q \in UsedPlaces(u, n) : q # p /\ u[q] = t[q] /\ q \in UsedPlaces(t, n)
  BY <1>4 DEF UsedPlaces
<1>6. UsedKeys(u, n) = UsedKeys(t, n) \ {t[p].key}
  <2>1. \A q \in UsedPlaces(t, n) : q # p => t[q].key # t[p].key
    BY DEF TableOK
  <2>2. \A x \in UsedKeys(u, n) : x \in UsedKeys(t, n) \ {t[p].key}
    BY <1>4, <1>5, <2>1 DEF UsedKeys
  <2>3. \A x \in UsedKeys(t, n) \ {t[p].key} : x \in UsedKeys(u, n)
    BY <1>4, <1>5 DEF UsedKeys
  <2>4. QED
    BY <2>2, <2>3
<1>7. IsFiniteSet(UsedKeys(u, n)) /\ count - 1 = Cardinality(UsedKeys(u, n))
  <2>1. IsFiniteSet(UsedKeys(t, n)) /\ count = Cardinality(UsedKeys(t, n))
    BY DEF TableOK
  <2>2. t[p].key \in UsedKeys(t, n)
    BY DEF UsedKeys
  <2>3. QED
    BY <1>6, <2>1, <2>2, FS_RemoveElement
<1>8. QED
  BY <1>4, <1>5, <1>6, <1>7 DEF TableOK

(* A new table *)
LEMMA TableCleared ==
  ASSUME NEW h, NEW n \in Nat \ {0}
  PROVE  TableOK(h, Cleared(n), n, 0) /\ UsedPlaces(Cleared(n), n) = {} /\ UsedKeys(Cleared(n), n) = {}
<1>1. UsedPlaces(Cleared(n), n) = {}
  BY DEF UsedPlaces, Cleared, Empty
<1>2. UsedKeys(Cleared(n), n) = {}
  BY <1>1 DEF UsedKeys
<1>3. Cleared(n) \in [Places(n) -> Entry]
  BY DEF Cleared, Entry
<1>4. QED
  BY <1>1, <1>2, <1>3, FS_EmptySet DEF TableOK

-----------------------------------------------------------------------------
LEMMA TableInit == Init => IInv
<1> SUFFICES ASSUME Init PROVE IInv
  OBVIOUS
<1>1. Capacity \in Nat \ {0} /\ hash \in [Keys -> Nat]
  BY HashTableAssumption DEF Init
<1>2. TableOK(hash, Cleared(Capacity), Capacity, 0)
  BY <1>1, TableCleared
<1>3. QED
  BY <1>1, <1>2 DEF Init, IInv

(* The map that a table stands for, entry by entry *)
LEMMA MapValue ==
  ASSUME NEW h, NEW t, NEW n, NEW count, TableOK(h, t, n, count), NEW p \in UsedPlaces(t, n)
  PROVE  t[p].key \in UsedKeys(t, n) /\ MapOf(t, n)[t[p].key] = t[p].data
<1>1. t[p].key \in UsedKeys(t, n)
  BY DEF UsedKeys
<1>2. \A q \in UsedPlaces(t, n) : t[q].key = t[p].key => q = p
  BY DEF TableOK
<1>3. (CHOOSE q \in UsedPlaces(t, n) : t[q].key = t[p].key) = p
  BY <1>2
<1>4. QED
  BY <1>1, <1>3 DEF MapOf

(* Two tables with the same entries stand for the same map. *)
LEMMA SameMap ==
  ASSUME NEW h, NEW t, NEW n, NEW c, TableOK(h, t, n, c),
         NEW g, NEW u, NEW m, NEW e, TableOK(g, u, m, e),
         \A p \in UsedPlaces(t, n) : \E q \in UsedPlaces(u, m) : t[p] = u[q],
         \A q \in UsedPlaces(u, m) : \E p \in UsedPlaces(t, n) : u[q] = t[p]
  PROVE  UsedKeys(t, n) = UsedKeys(u, m) /\ MapOf(t, n) = MapOf(u, m)
<1>1. \A k \in UsedKeys(t, n) : k \in UsedKeys(u, m) /\ MapOf(t, n)[k] = MapOf(u, m)[k]
  <2>1. TAKE k \in UsedKeys(t, n)
  <2>2. PICK p \in UsedPlaces(t, n) : k = t[p].key
    BY DEF UsedKeys
  <2>3. PICK q \in UsedPlaces(u, m) : t[p] = u[q]
    OBVIOUS
  <2>4. MapOf(t, n)[t[p].key] = t[p].data
    BY MapValue
  <2>5. u[q].key \in UsedKeys(u, m) /\ MapOf(u, m)[u[q].key] = u[q].data
    BY MapValue
  <2>6. QED
    BY <2>2, <2>3, <2>4, <2>5
<1>2. \A k \in UsedKeys(u, m) : k \in UsedKeys(t, n)
  BY DEF UsedKeys
<1>3. UsedKeys(t, n) = UsedKeys(u, m)
  BY <1>1, <1>2
<1>4. QED
  BY <1>1, <1>3 DEF MapOf

(* hashtable_put() that finds a place adds the key to the table; one that  *)
(* finds none goes on to expand it.                                        *)
LEMMA InsertStep ==
  ASSUME IInv, NEW k \in Keys, NEW d \in Data, k \notin UsedKeys(entries, total),
         Insert(k, d), hash' = hash
  PROVE  IInv' /\ \/ UNCHANGED <<table, result>>
                  \/ /\ result' = <<"put", "OK">>
                     /\ \E p \in Places(total) :
                          /\ total' = total
                          /\ UsedPlaces(entries', total) = UsedPlaces(entries, total) \cup {p}
                          /\ UsedKeys(entries', total) = UsedKeys(entries, total) \cup {k}
                          /\ entries'[p] = [key |-> k, data |-> d]
                          /\ \A q \in UsedPlaces(entries, total) : q # p /\ entries'[q] = entries[q]
<1> DEFINE p == FindEmpty(k, entries, total)
<1>1. hash \in [Keys -> Nat] /\ TableOK(hash, entries, total, used) /\ total \in Nat \ {0}
  BY DEF IInv, TableOK
<1>2. CASE p = NotFound
  <2>1. pc' = "expand" /\ key' = k /\ data' = d /\ new'.total = total /\ UNCHANGED <<table, result>>
    BY <1>2 DEF Insert, NoTable
  <2>2. QED
    BY <1>1, <2>1 DEF IInv, table
<1>3. CASE p # NotFound
  <2>1. /\ entries' = [entries EXCEPT ![p] = [key |-> k, data |-> d]]
        /\ used' = used + 1 /\ total' = total /\ pc' = "idle" /\ result' = <<"put", "OK">>
    BY <1>3 DEF Insert
  <2>2. /\ p \in Places(total) /\ entries[p].data = Null
        /\ \E i \in Iterations : p = Slot(hash, k, i, total)
    BY <1>1, <1>3, EmptyIsFound
  <2> HIDE DEF p
  <2>i. PICK i \in Iterations : p = Slot(hash, k, i, total)
    BY <2>2
  <2>3. /\ TableOK(hash, entries', total, used + 1)
        /\ UsedPlaces(entries', total) = UsedPlaces(entries, total) \cup {p}
        /\ UsedKeys(entries', total) = UsedKeys(entries, total) \cup {k}
        /\ \A q \in UsedPlaces(entries, total) : q # p /\ entries'[q] = entries[q]
    <3>1. entries \in [Places(total) -> Entry] /\ [key |-> k, data |-> d] \in Entry
      BY <1>1 DEF TableOK, Entry
    <3>2. /\ entries' \in [Places(total) -> Entry]
          /\ entries'[p].key = k /\ entries'[p].data = d
          /\ \A q \in Places(total) : q # p => entries'[q] = entries[q]
      BY <2>1, <2>2, <3>1
    <3>3. QED
      BY <1>1, <2>2, <2>i, <3>2, TableInsert
  <2>4. IInv'
    BY <1>1, <2>1, <2>3 DEF IInv
  <2>5. entries'[p] = [key |-> k, data |-> d]
    BY <1>1, <2>1, <2>2 DEF TableOK
  <2>6. QED
    BY <2>1, <2>2, <2>3, <2>4, <2>5
<1>4. QED
  BY <1>2, <1>3

(* expand_table() copies one entry. *)
LEMMA CopyStep == IInv /\ Copy => IInv'
<1> SUFFICES ASSUME IInv, Copy PROVE IInv'
  OBVIOUS
<1> DEFINE e == entries[next]
           p == FindEmpty(e.key, new.entries, new.total)
<1>1. /\ hash \in [Keys -> Nat] /\ TableOK(hash, entries, total, used) /\ pc = "copy"
      /\ TableOK(hash, new.entries, new.total, new.used)
      /\ next \in 0 .. total /\ next < total /\ total \in Nat
      /\ {new.entries[q] : q \in UsedPlaces(new.entries, new.total)}
           = {entries[q] : q \in {r \in UsedPlaces(entries, total) : r < next}}
      /\ UNCHANGED <<hash, total, entries, used, key, data>>
      /\ key \in Keys /\ data \in Data /\ key \notin UsedKeys(entries, total)
      /\ new = [total |-> new.total, entries |-> new.entries, used |-> new.used]
  BY DEF IInv, Copy, TableOK, table, putting
<1>2. next \in Places(total) /\ next + 1 \in 0 .. total
  BY <1>1 DEF Places
<1>3. UsedPlaces(entries, total) \subseteq Places(total) /\ Places(total) \subseteq Int
  BY DEF UsedPlaces, Places
<1>4. CASE e.data = Null
  <2>1. next' = next + 1 /\ UNCHANGED <<new, pc>>
    BY <1>4 DEF Copy
  <2>2. next \notin UsedPlaces(entries, total)
    BY <1>4 DEF UsedPlaces
  <2>3. {r \in UsedPlaces(entries, total) : r < next} = {r \in UsedPlaces(entries, total) : r < next + 1}
    BY <1>1, <1>3, <2>2
  <2>4. UNCHANGED <<hash, total, entries, used, new>> /\ pc' = "copy"
    BY <1>1, <2>1
  <2>5. QED
    BY <1>1, <1>2, <2>1, <2>3, <2>4 DEF IInv
<1>5. CASE e.data # Null /\ p = NotFound
  <2>1. pc' = "expand" /\ UNCHANGED <<new, next>>
    BY <1>5 DEF Copy
  <2>2. QED
    BY <1>1, <2>1 DEF IInv, TableOK
<1>6. CASE e.data # Null /\ p # NotFound
  <2>1. /\ next' = next + 1 /\ pc' = "copy"
        /\ new' = [new EXCEPT !.entries = [@ EXCEPT ![p] = e], !.used = @ + 1]
    BY <1>1, <1>6 DEF Copy
  <2> HIDE DEF p, e
  <2>2. /\ next \in UsedPlaces(entries, total) /\ e = entries[next]
        /\ e \in Entry /\ e.key \in Keys /\ e.data \in Data
    BY <1>1, <1>2, <1>6 DEF UsedPlaces, TableOK, Entry, Empty, e
  <2>3. e.key \notin UsedKeys(new.entries, new.total)
    <3>1. \A q \in UsedPlaces(new.entries, new.total) :
            \E r \in UsedPlaces(entries, total) : r < next /\ new.entries[q] = entries[r]
      BY <1>1
    <3>2. \A r \in UsedPlaces(entries, total) : r < next => entries[r].key # e.key
      BY <1>1, <1>3, <2>2 DEF TableOK
    <3>3. QED
      BY <3>1, <3>2 DEF UsedKeys
  <2>4. new.total \in Nat \ {0}
    BY <1>1 DEF TableOK
  <2>5. p \in Places(new.total) /\ new.entries[p].data = Null
    BY <1>1, <1>6, <2>2, <2>4, EmptyIsFound DEF p, e
  <2>6. PICK i \in Iterations : p = Slot(hash, e.key, i, new.total)
    BY <1>1, <1>6, <2>2, <2>4, EmptyIsFound DEF p, e
  <2>7. /\ new'.total = new.total /\ new'.used = new.used + 1
        /\ new'.entries = [new.entries EXCEPT ![p] = e]
        /\ new' = [total |-> new'.total, entries |-> new'.entries, used |-> new'.used]
    BY <1>1, <2>1
  <2>8. /\ new'.entries \in [Places(new.total) -> Entry]
        /\ new'.entries[p] = e
        /\ \A q \in Places(new.total) : q # p => new'.entries[q] = new.entries[q]
    <3>1. new.entries \in [Places(new.total) -> Entry]
      BY <1>1 DEF TableOK
    <3>2. QED
      BY <2>2, <2>5, <2>7, <3>1
  <2>9. /\ TableOK(hash, new'.entries, new.total, new.used + 1)
        /\ UsedPlaces(new'.entries, new.total) = UsedPlaces(new.entries, new.total) \cup {p}
        /\ \A q \in UsedPlaces(new.entries, new.total) : new'.entries[q] = new.entries[q]
    BY <1>1, <2>2, <2>3, <2>5, <2>6, <2>8, TableInsert
  <2>10. {r \in UsedPlaces(entries, total) : r < next + 1}
           = {r \in UsedPlaces(entries, total) : r < next} \cup {next}
    BY <1>1, <1>3, <2>2
  <2>11. {new'.entries[q] : q \in UsedPlaces(new'.entries, new.total)}
           = {entries[q] : q \in {r \in UsedPlaces(entries, total) : r < next + 1}}
    <3>1. {new'.entries[q] : q \in UsedPlaces(new'.entries, new.total)}
            = {new.entries[q] : q \in UsedPlaces(new.entries, new.total)} \cup {e}
      BY <2>8, <2>9
    <3>2. {entries[q] : q \in {r \in UsedPlaces(entries, total) : r < next + 1}}
            = {entries[q] : q \in {r \in UsedPlaces(entries, total) : r < next}} \cup {e}
      BY <2>2, <2>10
    <3>3. QED
      BY <1>1, <3>1, <3>2
  <2>12. QED
    BY <1>1, <1>2, <2>1, <2>7, <2>9, <2>11 DEF IInv
<1>7. QED
  BY <1>4, <1>5, <1>6

(* The new table holds the same entries as the old one. *)
LEMMA CopiedStep ==
  ASSUME IInv, Copied
  PROVE  /\ IInv' /\ result' = result
         /\ MapOf(entries', total') = MapOf(entries, total)
<1>1. /\ hash \in [Keys -> Nat] /\ TableOK(hash, entries, total, used)
      /\ TableOK(hash, new.entries, new.total, new.used) /\ next = total
      /\ {new.entries[q] : q \in UsedPlaces(new.entries, new.total)}
           = {entries[q] : q \in {r \in UsedPlaces(entries, total) : r < next}}
      /\ key \in Keys /\ data \in Data /\ key \notin UsedKeys(entries, total)
      /\ hash' = hash /\ result' = result /\ key' = key /\ data' = data /\ pc' = "again"
      /\ total' = new.total /\ entries' = new.entries /\ used' = new.used
  BY DEF IInv, Copied, putting
<1>2. {r \in UsedPlaces(entries, total) : r < next} = UsedPlaces(entries, total)
  BY <1>1 DEF UsedPlaces, Places, TableOK
<1>3. /\ UsedKeys(new.entries, new.total) = UsedKeys(entries, total)
      /\ MapOf(new.entries, new.total) = MapOf(entries, total)
  <2>1. \A p \in UsedPlaces(entries, total) :
          \E q \in UsedPlaces(new.entries, new.total) : entries[p] = new.entries[q]
    BY <1>1, <1>2
  <2>2. \A q \in UsedPlaces(new.entries, new.total) :
          \E p \in UsedPlaces(entries, total) : new.entries[q] = entries[p]
    BY <1>1, <1>2
  <2>3. QED
    BY <1>1, <2>1, <2>2, SameMap
<1>4. QED
  BY <1>1, <1>3 DEF IInv

(* hashtable_remove() takes out the one entry of the key, if there is one. *)
LEMMA RemoveStep ==
  ASSUME IInv, NEW k \in Keys, Remove(k)
  PROVE  /\ IInv'
         /\ UsedKeys(entries', total') = UsedKeys(entries, total) \ {k}
         /\ \A x \in UsedKeys(entries', total') : MapOf(entries', total')[x] = MapOf(entries, total)[x]
<1> DEFINE p == FindKey(k)
<1>1. /\ hash \in [Keys -> Nat] /\ TableOK(hash, entries, total, used) /\ pc = "idle"
      /\ UNCHANGED <<hash, total, pc, key, data, new, next>>
  BY DEF IInv, Remove, Returns, putting
<1>2. CASE p = NotFound /\ k \notin UsedKeys(entries, total)
  <2>1. UNCHANGED <<entries, used>>
    BY <1>2 DEF Remove
  <2>2. QED
    BY <1>1, <1>2, <2>1 DEF IInv
<1>3. CASE p \in UsedPlaces(entries, total) /\ entries[p].key = k
  <2>1. p # NotFound
    BY <1>3 DEF UsedPlaces, Places, NotFound
  <2>2. entries' = [entries EXCEPT ![p] = Empty] /\ used' = used - 1
    BY <2>1 DEF Remove
  <2> HIDE DEF p
  <2>3. /\ entries' \in [Places(total) -> Entry] /\ entries'[p] = Empty
        /\ \A q \in Places(total) : q # p => entries'[q] = entries[q]
    <3>1. entries \in [Places(total) -> Entry] /\ Empty \in Entry /\ p \in Places(total)
      BY <1>1, <1>3 DEF TableOK, Entry, UsedPlaces
    <3>2. QED
      BY <2>2, <3>1
  <2>4. /\ TableOK(hash, entries', total, used - 1)
        /\ UsedPlaces(entries', total) = UsedPlaces(entries, total) \ {p}
        /\ UsedKeys(entries', total) = UsedKeys(entries, total) \ {k}
        /\ \A q \in UsedPlaces(entries', total) : entries'[q] = entries[q]
    BY <1>1, <1>3, <2>3, TableRemove
  <2>5. IInv'
    BY <1>1, <2>2, <2>4 DEF IInv
  <2>6. ASSUME NEW x \in UsedKeys(entries', total)
        PROVE  MapOf(entries', total)[x] = MapOf(entries, total)[x]
    <3>1. PICK q \in UsedPlaces(entries', total) : x = entries'[q].key
      BY <2>6 DEF UsedKeys
    <3>2. q \in UsedPlaces(entries, total) /\ entries'[q] = entries[q]
      BY <2>4
    <3>3. MapOf(entries', total)[entries'[q].key] = entries'[q].data
      BY <2>4, MapValue
    <3>4. MapOf(entries, total)[entries[q].key] = entries[q].data
      BY <1>1, <3>2, MapValue
    <3>5. QED
      BY <3>1, <3>2, <3>3, <3>4
  <2>7. QED
    BY <1>1, <2>4, <2>5, <2>6
<1>4. QED
  BY <1>1, <1>2, <1>3, KeyIsFound

LEMMA AllocateStep == IInv /\ Allocate => IInv'
<1> SUFFICES ASSUME IInv, Allocate PROVE IInv'
  OBVIOUS
<1> DEFINE n == Grown(new.total)
<1>1. /\ hash \in [Keys -> Nat] /\ TableOK(hash, entries, total, used)
      /\ key \in Keys /\ data \in Data /\ key \notin UsedKeys(entries, total)
      /\ UNCHANGED <<hash, total, entries, used>> /\ new.total \in Nat \ {0} /\ total \in Nat
  BY DEF IInv, Allocate, table, TableOK
<1>2. n \in Nat \ {0}
  BY <1>1, HashTableAssumption DEF Grown
<1>3. CASE n > Memory
  BY <1>1, <1>3 DEF Allocate, IInv
<1>4. CASE ~(n > Memory)
  <2>1. /\ pc' = "copy" /\ new' = [total |-> n, entries |-> Cleared(n), used |-> 0] /\ next' = 0
        /\ key' = key /\ data' = data
    BY <1>4 DEF Allocate, putting
  <2> HIDE DEF n
  <2>2. TableOK(hash, Cleared(n), n, 0) /\ UsedPlaces(Cleared(n), n) = {}
    BY <1>2, TableCleared
  <2>3. {r \in UsedPlaces(entries, total) : r < 0} = {}
    BY <1>1 DEF UsedPlaces, Places
  <2>4. QED
    BY <1>1, <2>1, <2>2, <2>3 DEF IInv
<1>5. QED
  BY <1>3, <1>4

LEMMA TableNext == IInv /\ [Next]_vars => IInv'
<1> SUFFICES ASSUME IInv, [Next]_vars PROVE IInv'
  OBVIOUS
<1>1. hash \in [Keys -> Nat] /\ TableOK(hash, entries, total, used)
  BY DEF IInv
<1>2. ASSUME NEW k \in Keys, NEW d \in Data, Put(k, d) PROVE IInv'
  <2>1. k \notin UsedKeys(entries, total)
    <3>1. FindKey(k) \notin UsedPlaces(entries, total)
      BY <1>2 DEF Put, NotFound, UsedPlaces, Places
    <3>2. QED
      BY <1>1, <3>1, KeyIsFound
  <2>2. QED
    BY <1>2, <2>1, InsertStep DEF Put
<1>3. CASE PutAgain
  <2>1. key \in Keys /\ data \in Data /\ key \notin UsedKeys(entries, total)
    BY <1>3 DEF IInv, PutAgain
  <2>2. QED
    BY <1>3, <2>1, InsertStep DEF PutAgain
<1>4. CASE Allocate
  BY <1>4, AllocateStep
<1>5. CASE Copy
  BY <1>5, CopyStep
<1>6. CASE Copied
  BY <1>6, CopiedStep
<1>7. ASSUME NEW k \in Keys, Get(k) PROVE IInv'
  BY <1>7 DEF Get, Returns, IInv, putting
<1>8. ASSUME NEW k \in Keys, Remove(k) PROVE IInv'
  BY <1>8, RemoveStep
<1>9. CASE Walk \/ Entries
  BY <1>9 DEF Walk, Entries, Returns, IInv, putting
<1>10. CASE UNCHANGED vars
  BY <1>10 DEF vars, table, putting, IInv
<1>11. QED
  BY <1>2, <1>3, <1>4, <1>5, <1>6, <1>7, <1>8, <1>9, <1>10 DEF Next

(* Every entry of the table of handles is where it can be found, no handle *)
(* is in it twice, none in an empty place, and the count is right, also of *)
(* the table that is being filled (hashtable.c:129-161, 213-238, 268-380). *)
THEOREM TableInvariant == Spec => []IInv
<1>1. QED
  BY TableInit, TableNext, PTL DEF Spec

-----------------------------------------------------------------------------
MapVars == <<MapOf(entries, total), result>>

LEMMA MapInit == Init => Map!Init
<1> SUFFICES ASSUME Init PROVE Map!Init
  OBVIOUS
<1>1. Capacity \in Nat \ {0}
  BY HashTableAssumption
<1>2. UsedKeys(entries, total) = {}
  BY <1>1, TableCleared DEF Init
<1>3. QED
  BY <1>2 DEF Init, Map!Init, MapOf

(* What a key is looked up as is what the map holds for it. *)
LEMMA FoundInMap ==
  ASSUME IInv, NEW k \in Keys
  PROVE  Map!Found(k) = DataAt(FindKey(k))
<1>1. hash \in [Keys -> Nat] /\ TableOK(hash, entries, total, used)
  BY DEF IInv
<1>2. DOMAIN MapOf(entries, total) = UsedKeys(entries, total)
  BY DEF MapOf
<1>3. CASE FindKey(k) = NotFound /\ k \notin UsedKeys(entries, total)
  BY <1>2, <1>3 DEF Map!Found, DataAt
<1>4. CASE FindKey(k) \in UsedPlaces(entries, total) /\ entries[FindKey(k)].key = k
  <2>1. FindKey(k) # NotFound
    BY <1>4 DEF UsedPlaces, Places, NotFound
  <2>2. k \in UsedKeys(entries, total) /\ MapOf(entries, total)[k] = entries[FindKey(k)].data
    BY <1>1, <1>4, MapValue
  <2>3. QED
    BY <1>2, <2>1, <2>2 DEF Map!Found, DataAt
<1>5. QED
  BY <1>1, <1>3, <1>4, KeyIsFound

(* hashtable_put() with its arguments is a put of the map or changes       *)
(* nothing.                                                                *)
LEMMA InsertInMap ==
  ASSUME IInv, NEW k \in Keys, NEW d \in Data, k \notin UsedKeys(entries, total),
         Insert(k, d), hash' = hash
  PROVE  Map!Put(k, d) \/ UNCHANGED MapVars
<1>1. IInv' /\ TableOK(hash, entries, total, used) /\ TableOK(hash, entries', total', used')
  BY InsertStep DEF IInv
<1>2. CASE UNCHANGED <<table, result>>
  BY <1>2 DEF table, MapVars
<1>3. CASE /\ result' = <<"put", "OK">>
           /\ \E p \in Places(total) :
                /\ total' = total
                /\ UsedPlaces(entries', total) = UsedPlaces(entries, total) \cup {p}
                /\ UsedKeys(entries', total) = UsedKeys(entries, total) \cup {k}
                /\ entries'[p] = [key |-> k, data |-> d]
                /\ \A q \in UsedPlaces(entries, total) : q # p /\ entries'[q] = entries[q]
  <2>1. PICK p \in Places(total) :
          /\ total' = total
          /\ UsedPlaces(entries', total) = UsedPlaces(entries, total) \cup {p}
          /\ UsedKeys(entries', total) = UsedKeys(entries, total) \cup {k}
          /\ entries'[p] = [key |-> k, data |-> d]
          /\ \A q \in UsedPlaces(entries, total) : q # p /\ entries'[q] = entries[q]
    BY <1>3
  <2>2. p \in UsedPlaces(entries', total) /\ entries'[p].key = k /\ entries'[p].data = d
    BY <2>1
  <2>3. MapOf(entries', total)[k] = d
    BY <1>1, <2>1, <2>2, MapValue
  <2>4. ASSUME NEW x \in UsedKeys(entries, total)
        PROVE  x # k /\ MapOf(entries', total)[x] = MapOf(entries, total)[x]
    <3>1. PICK q \in UsedPlaces(entries, total) : x = entries[q].key
      BY DEF UsedKeys
    <3>2. q \in UsedPlaces(entries', total) /\ entries'[q] = entries[q]
      BY <2>1
    <3>3. MapOf(entries', total)[entries'[q].key] = entries'[q].data
      BY <1>1, <2>1, <3>2, MapValue
    <3>4. MapOf(entries, total)[entries[q].key] = entries[q].data
      BY <1>1, MapValue
    <3>5. QED
      BY <3>1, <3>2, <3>3, <3>4
  <2>5. /\ DOMAIN MapOf(entries, total) = UsedKeys(entries, total)
        /\ MapOf(entries', total) = [x \in UsedKeys(entries', total) |-> MapOf(entries', total)[x]]
    BY DEF MapOf
  <2>6. MapOf(entries', total) = [x \in DOMAIN MapOf(entries, total) \cup {k} |->
                                    IF x = k THEN d ELSE MapOf(entries, total)[x]]
    BY <2>1, <2>3, <2>4, <2>5
  <2>7. QED
    BY <1>3, <2>1, <2>5, <2>6 DEF Map!Put
<1>4. QED
  BY <1>2, <1>3, InsertStep

LEMMA MapNext == IInv /\ [Next]_vars => [Map!Next]_MapVars
<1> SUFFICES ASSUME IInv, [Next]_vars PROVE Map!Next \/ UNCHANGED MapVars
  OBVIOUS
<1>1. /\ hash \in [Keys -> Nat] /\ TableOK(hash, entries, total, used)
      /\ DOMAIN MapOf(entries, total) = UsedKeys(entries, total)
  BY DEF IInv, MapOf
<1>2. ASSUME NEW k \in Keys, NEW d \in Data, Put(k, d) PROVE Map!Put(k, d) \/ UNCHANGED MapVars
  <2>1. FindKey(k) \notin UsedPlaces(entries, total)
    BY <1>2 DEF Put, NotFound, UsedPlaces, Places
  <2>2. k \notin UsedKeys(entries, total)
    BY <1>1, <2>1, KeyIsFound
  <2>3. QED
    BY <1>2, <2>2, InsertInMap DEF Put
<1>3. ASSUME PutAgain PROVE Map!Next \/ UNCHANGED MapVars
  <2>1. key \in Keys /\ data \in Data /\ key \notin UsedKeys(entries, total)
    BY <1>3 DEF IInv, PutAgain
  <2>2. Map!Put(key, data) \/ UNCHANGED MapVars
    BY <1>3, <2>1, InsertInMap DEF PutAgain
  <2>3. QED
    BY <2>1, <2>2 DEF Map!Next
<1>4. ASSUME Allocate PROVE Map!Next \/ UNCHANGED MapVars
  <2>1. UNCHANGED <<total, entries>> /\ key \in Keys /\ data \in Data /\ key \notin UsedKeys(entries, total)
    BY <1>4 DEF IInv, Allocate, table
  <2>2. result' = <<"put", "NO_MEM">> \/ result' = result
    BY <1>4 DEF Allocate
  <2>3. CASE result' = <<"put", "NO_MEM">>
    <3>1. Map!Put(key, data)
      BY <1>1, <2>1, <2>3 DEF Map!Put
    <3>2. QED
      BY <2>1, <3>1 DEF Map!Next
  <2>4. QED
    BY <2>1, <2>2, <2>3 DEF MapVars
<1>5. ASSUME Copy PROVE UNCHANGED MapVars
  BY <1>5 DEF Copy, table, MapVars
<1>6. ASSUME Copied PROVE UNCHANGED MapVars
  BY <1>6, CopiedStep DEF MapVars
<1>7. ASSUME NEW k \in Keys, Get(k) PROVE Map!Get(k)
  BY <1>7, FoundInMap DEF Get, Returns, Map!Get
<1>8. ASSUME NEW k \in Keys, Remove(k) PROVE Map!Remove(k)
  <2>1. result' = <<"remove", Map!Found(k)>>
    BY <1>8, FoundInMap DEF Remove, Returns
  <2>2. /\ UsedKeys(entries', total') = UsedKeys(entries, total) \ {k}
        /\ \A x \in UsedKeys(entries', total') : MapOf(entries', total')[x] = MapOf(entries, total)[x]
    BY <1>8, RemoveStep
  <2>3. MapOf(entries', total') = [x \in UsedKeys(entries', total') |-> MapOf(entries', total')[x]]
    BY DEF MapOf
  <2>4. MapOf(entries', total') = [x \in DOMAIN MapOf(entries, total) \ {k} |-> MapOf(entries, total)[x]]
    BY <1>1, <2>2, <2>3
  <2>5. QED
    BY <2>1, <2>4 DEF Map!Remove
<1>9. ASSUME Walk PROVE Map!Walk
  <2>1. /\ result' = <<"walk", {entries[p].data : p \in Places(total)} \ {Null}>>
        /\ UNCHANGED <<entries, total>>
    BY <1>9 DEF Walk, Returns
  <2>2. ASSUME NEW d \in {entries[p].data : p \in Places(total)} \ {Null}
        PROVE  d \in {MapOf(entries, total)[k] : k \in UsedKeys(entries, total)}
    <3>1. PICK p \in UsedPlaces(entries, total) : d = entries[p].data
      BY DEF UsedPlaces
    <3>2. QED
      BY <1>1, <3>1, MapValue
  <2>3. ASSUME NEW d \in {MapOf(entries, total)[k] : k \in UsedKeys(entries, total)}
        PROVE  d \in {entries[p].data : p \in Places(total)} \ {Null}
    <3>1. PICK k \in UsedKeys(entries, total) : d = MapOf(entries, total)[k]
      OBVIOUS
    <3>2. PICK p \in UsedPlaces(entries, total) : k = entries[p].key
      BY DEF UsedKeys
    <3>3. d = entries[p].data
      BY <1>1, <3>1, <3>2, MapValue
    <3>4. QED
      BY <3>2, <3>3 DEF UsedPlaces
  <2>4. QED
    BY <1>1, <2>1, <2>2, <2>3 DEF Map!Walk
<1>10. ASSUME Entries PROVE Map!Entries
  <2>1. Map!Cardinality(DOMAIN MapOf(entries, total)) = Cardinality(DOMAIN MapOf(entries, total))
    BY Zenon DEF Cardinality, Map!Cardinality
  <2>2. QED
    BY <1>1, <1>10, <2>1 DEF Entries, Returns, Map!Entries, TableOK
<1>11. CASE UNCHANGED vars
  BY <1>11 DEF vars, table, MapVars
<1>12. QED
  BY <1>2, <1>3, <1>4, <1>5, <1>6, <1>7, <1>8, <1>9, <1>10, <1>11 DEF Next, Map!Next

(* The table of handles behaves as a map: a key is found while it is in    *)
(* the table and not after, growing loses and doubles nothing, and a put   *)
(* that fails for want of memory changes nothing (hashtable.c:104-380).    *)
THEOREM TableIsMap == Spec => ImplementsMap
<1>1. IInv /\ [Next]_vars => [Map!Next]_<<MapOf(entries, total), result>>
  BY MapNext DEF MapVars
<1>2. QED
  BY MapInit, TableInvariant, <1>1, PTL DEF Spec, ImplementsMap, Map!Spec

-----------------------------------------------------------------------------
(* The thread of a session *)

Objects == {"mutex", "cond", "thread"}

Starting == {"mutex_create", "cond_create", "thread_create"}
Stopping == {"stop", "owner_signal", "wake", "join"}
Ending   == {"release", "cond_destroy", "mutex_destroy", "done"}

ThreadTypes ==
  /\ workerOs \in {"posix", "windows"}
  /\ has \subseteq Objects
  /\ DOMAIN workerPc = Thread!Threads

(* The session's thread does not run before it is created, and has no      *)
(* pointer to it but after the creation.                                   *)
NotYetThere ==
  workerPc[Thread!Owner] \in Starting => "thread" \notin has /\ workerPc[Thread!Handler] = "none"

(* A session that was started has its thread. *)
Up == workerPc[Thread!Owner] = "up" => "thread" \in has /\ workerPc[Thread!Handler] # "none"

(* A thread that runs has its pointer; a pointer without a thread is left  *)
(* by POSIX alone.                                                         *)
ThreadPointer ==
  workerPc[Thread!Owner] \in Stopping =>
    /\ "thread" \notin has => workerPc[Thread!Handler] = "none"
    /\ "thread" \in has /\ workerPc[Thread!Handler] = "none" => workerOs = "posix"

(* After the join the thread is over, and the objects go one by one. *)
OneByOne ==
  /\ workerPc[Thread!Owner] \in Ending \cup {"thread_destroy"} =>
       workerPc[Thread!Handler] \in {"none", "ended"}
  /\ workerPc[Thread!Owner] \in Ending => "thread" \notin has
  /\ workerPc[Thread!Owner] \in {"mutex_destroy", "done"} => "cond" \notin has
  /\ workerPc[Thread!Owner] = "done" => "mutex" \notin has

ThreadInv == ThreadTypes /\ NotYetThere /\ Up /\ ThreadPointer /\ OneByOne

-----------------------------------------------------------------------------
LEMMA ThreadInit ==
  ASSUME Thread!WorkerAssumption, Thread!Init
  PROVE  ThreadInv
BY DEF Thread!WorkerAssumption, Thread!Init, ThreadInv, ThreadTypes, NotYetThere, Up,
       ThreadPointer, OneByOne, Objects, Starting, Stopping, Ending, Thread!Threads,
       Thread!Owner, Thread!Handler

(* The steps of the owner that create or destroy something. *)
LEMMA OwnerKeeps ==
  ASSUME ThreadInv, Thread!OwnerStep
  PROVE  ThreadInv'
<1> USE DEF ThreadInv, ThreadTypes, NotYetThere, Up, ThreadPointer, OneByOne, Objects, Starting,
            Stopping, Ending, Thread!At, Thread!Goto
<1>0. Thread!Owner # Thread!Handler /\ {Thread!Owner, Thread!Handler} \subseteq Thread!Threads
  BY DEF Thread!Owner, Thread!Handler, Thread!Threads
<1>1. CASE Thread!MutexCreate BY <1>0, <1>1 DEF Thread!MutexCreate, Thread!Create
<1>2. CASE Thread!CondCreate BY <1>0, <1>2 DEF Thread!CondCreate, Thread!Create
<1>3. CASE Thread!ThreadCreate BY <1>0, <1>3 DEF Thread!ThreadCreate, Thread!ThreadLeft
<1>4. CASE Thread!Stop BY <1>0, <1>4 DEF Thread!Stop
<1>5. CASE Thread!OwnerSignal
  BY <1>0, <1>5 DEF Thread!OwnerSignal, Thread!CondSignal, Thread!PosixSignal, Thread!WindowsSignal
<1>6. CASE Thread!WakeCondition(Thread!Owner, "wake", "join") BY <1>0, <1>6 DEF Thread!WakeCondition
<1>7. CASE Thread!ThreadJoin BY <1>0, <1>7 DEF Thread!ThreadJoin
<1>8. CASE Thread!ThreadDestroy BY <1>0, <1>8 DEF Thread!ThreadDestroy
<1>9. CASE Thread!ReleaseRequests BY <1>0, <1>9 DEF Thread!ReleaseRequests
<1>10. CASE Thread!CondDestroy BY <1>0, <1>10 DEF Thread!CondDestroy, Thread!Destroy
<1>11. CASE Thread!MutexDestroy BY <1>0, <1>11 DEF Thread!MutexDestroy, Thread!Destroy
<1> QED
  BY <1>1, <1>2, <1>3, <1>4, <1>5, <1>6, <1>7, <1>8, <1>9, <1>10, <1>11 DEF Thread!OwnerStep

(* What every other step is: it leaves the objects alone, and the          *)
(* session's thread neither begins nor goes on after its end.              *)
Harmless ==
  /\ UNCHANGED <<workerOs, has>>
  /\ DOMAIN workerPc' = DOMAIN workerPc
  /\ \/ workerPc'[Thread!Owner] = workerPc[Thread!Owner]
     \/ workerPc[Thread!Owner] = "up" /\ workerPc'[Thread!Owner] = "stop"
  /\ \/ workerPc'[Thread!Handler] = workerPc[Thread!Handler]
     \/ workerPc[Thread!Handler] \notin {"none", "ended"} /\ workerPc'[Thread!Handler] # "none"

LEMMA HarmlessKeeps ==
  ASSUME ThreadInv, Harmless
  PROVE  ThreadInv'
BY DEF Harmless, ThreadInv, ThreadTypes, NotYetThere, Up, ThreadPointer, OneByOne, Starting,
       Stopping, Ending

LEMMA HandlerHarmless ==
  ASSUME ThreadInv, Thread!HandlerStep \/ Thread!SleepEnds \/ Thread!Release
  PROVE  Harmless
<1> USE DEF ThreadInv, ThreadTypes, Harmless, Thread!At, Thread!Goto, Thread!Sleeping
<1>0. Thread!Owner # Thread!Handler /\ {Thread!Owner, Thread!Handler} \subseteq Thread!Threads
  BY DEF Thread!Owner, Thread!Handler, Thread!Threads
<1>1. CASE Thread!HandlerLoop BY <1>0, <1>1 DEF Thread!HandlerLoop
<1>2. CASE Thread!HandlerTake BY <1>0, <1>2 DEF Thread!HandlerTake
<1>3. CASE Thread!CondWait BY <1>0, <1>3 DEF Thread!CondWait
<1>4. CASE Thread!SleepEnds BY <1>0, <1>4 DEF Thread!SleepEnds
<1>5. CASE Thread!Release BY <1>0, <1>5 DEF Thread!Release
<1> QED BY <1>1, <1>2, <1>3, <1>4, <1>5 DEF Thread!HandlerStep

LEMMA UserHarmless ==
  ASSUME Thread!WorkerAssumption, ThreadInv, NEW u \in Users, Thread!Call(u) \/ Thread!UserStep(u)
  PROVE  Harmless
<1> USE DEF ThreadInv, ThreadTypes, Harmless, Thread!At, Thread!Goto
<1>0. /\ u # Thread!Owner /\ u # Thread!Handler /\ Thread!Owner # Thread!Handler
      /\ {u, Thread!Owner, Thread!Handler} \subseteq Thread!Threads
  BY DEF Thread!WorkerAssumption, Thread!Owner, Thread!Handler, Thread!Threads
<1>1. CASE Thread!Call(u) BY <1>0, <1>1 DEF Thread!Call
<1>2. CASE Thread!Enter(u) BY <1>0, <1>2 DEF Thread!Enter
<1>3. CASE Thread!Add(u) BY <1>0, <1>3 DEF Thread!Add
<1>4. CASE Thread!Signal(u)
  BY <1>0, <1>4 DEF Thread!Signal, Thread!CondSignal, Thread!PosixSignal, Thread!WindowsSignal
<1>5. CASE Thread!WakeCondition(u, "wake_user", "idle") BY <1>0, <1>5 DEF Thread!WakeCondition
<1> QED BY <1>1, <1>2, <1>3, <1>4, <1>5 DEF Thread!UserStep

LEMMA StutterHarmless ==
  ASSUME UNCHANGED Thread!vars
  PROVE  Harmless
BY DEF Thread!vars, Harmless

LEMMA ThreadNext ==
  ASSUME Thread!WorkerAssumption, ThreadInv, [Thread!Next]_Thread!vars
  PROVE  ThreadInv'
<1>1. CASE Thread!OwnerStep BY <1>1, OwnerKeeps
<1>2. CASE Thread!Release \/ Thread!HandlerStep \/ Thread!SleepEnds
  BY <1>2, HandlerHarmless, HarmlessKeeps
<1>3. ASSUME NEW u \in Users, Thread!Call(u) \/ Thread!UserStep(u)
      PROVE  ThreadInv'
  BY <1>3, UserHarmless, HarmlessKeeps
<1>4. CASE UNCHANGED Thread!vars BY <1>4, StutterHarmless, HarmlessKeeps
<1> QED BY <1>1, <1>2, <1>3, <1>4 DEF Thread!Next

LEMMA ThreadImplies ==
  ASSUME ThreadInv
  PROVE  NothingLeft
BY DEF ThreadInv, ThreadTypes, ThreadPointer, OneByOne, NothingLeft, Thread!NothingLeft,
       Thread!At, Objects, Stopping, Ending

-----------------------------------------------------------------------------
(* When session_destroy() is over, the session's thread has ended and every *)
(* object of session_init() is gone, whichever creation failed; a join of  *)
(* a thread that never ran happens on POSIX alone.                         *)
THEOREM LeavesNothing ==
  ASSUME Thread!WorkerAssumption
  PROVE  Thread!Spec => []NothingLeft
<1>1. Thread!Init => ThreadInv BY ThreadInit
<1>2. ThreadInv /\ [Thread!Next]_Thread!vars => ThreadInv' BY ThreadNext
<1>3. ThreadInv => NothingLeft BY ThreadImplies
<1> QED BY <1>1, <1>2, <1>3, PTL DEF Thread!Spec

-----------------------------------------------------------------------------
(* The socket of a PLC *)

Connected == {"CONNECT_WAIT", "READY", "SEND", "RECEIVE"}
Apart     == {"CONNECT_START", "ERR_WAIT"}

(* The handler has a socket in the states that use one, and none where it  *)
(* makes one.                                                              *)
SocketFits ==
  /\ sock \in {Socket!NoSocket, Socket!Field}
  /\ state \in Connected => sock = Socket!Field
  /\ state \in Apart => sock = Socket!NoSocket
  /\ state \in Connected \cup Apart \cup {"STOPPED"}

(* The open descriptors are those of the socket, but for the standard      *)
(* input, which only POSIX may lose.                                       *)
OpenFits ==
  /\ open \subseteq sock \cup {"stdin"}
  /\ os = "windows" => "stdin" \in open

(* Winsock is started once for each socket. *)
WinsockFits == winsock = IF os = "windows" /\ sock = Socket!Field THEN 1 ELSE 0

SocketInv == SocketFits /\ OpenFits /\ WinsockFits

-----------------------------------------------------------------------------
LEMMA FieldFacts == Socket!Field # Socket!NoSocket /\ "stdin" \notin Socket!Field
  BY DEF Socket!Field, Socket!NoSocket

LEMMA SocketInit == Socket!Init => SocketInv
  BY FieldFacts DEF Socket!Init, SocketInv, SocketFits, OpenFits, WinsockFits, Connected, Apart,
                    Socket!NoSocket

(* socket_destroy() of the socket the handler has *)
LEMMA DestroyKeeps ==
  ASSUME SocketInv, sock = Socket!Field, UNCHANGED os,
         NEW goal \in Apart \cup {"STOPPED"}, Socket!Destroy(goal)
  PROVE  SocketInv'
BY FieldFacts DEF Socket!Destroy, Socket!Destroyed, Socket!Ended, SocketInv, SocketFits, OpenFits,
                  WinsockFits, Connected, Apart, Socket!NoSocket

(* A step that keeps the socket keeps the invariant in any state that fits. *)
LEMMA SameSocketKeeps ==
  ASSUME SocketInv, UNCHANGED <<os, sock, open, winsock>>,
         \/ state' = state
         \/ state' = "STOPPED"
         \/ state \in Connected /\ state' \in Connected
         \/ state \in Apart /\ state' \in Apart
  PROVE  SocketInv'
BY DEF SocketInv, SocketFits, OpenFits, WinsockFits, Connected, Apart

LEMMA StepKeeps ==
  ASSUME SocketInv, Socket!Step
  PROVE  SocketInv'
<1>1. CASE Socket!ConnectStart
  <2>1. sock = Socket!NoSocket /\ state = "CONNECT_START" /\ os' = os
    BY <1>1 DEF Socket!ConnectStart, Socket!Turn, Socket!Outside, SocketInv, SocketFits, Apart
  <2>2. CASE sock' = Socket!Field /\ open' = open \cup Socket!Field /\ winsock' = Socket!Started
             /\ \E c \in Socket!Connecting : net' = c[1] /\ state' = c[2]
    <3>1. state' \in {"READY", "CONNECT_WAIT"} BY <2>2 DEF Socket!Connecting
    <3>2. /\ sock' = Socket!Field /\ open' = open \cup Socket!Field
          /\ winsock' = Socket!Started
      BY <2>2
    <3>3. winsock = 0 BY <2>1, FieldFacts DEF SocketInv, WinsockFits
    <3>4. SocketFits' BY <3>1, <3>2 DEF SocketFits, Connected, Apart
    <3>5. OpenFits' BY <2>1, <3>2 DEF SocketInv, OpenFits, Socket!NoSocket
    <3>6. WinsockFits' BY <2>1, <3>2, <3>3 DEF WinsockFits, Socket!Started
    <3> QED BY <3>4, <3>5, <3>6 DEF SocketInv
  <2>3. CASE state' = "ERR_WAIT" /\ open' \in Socket!ChannelFails /\ UNCHANGED <<sock, winsock>>
    BY <2>1, <2>3, FieldFacts
    DEF SocketInv, SocketFits, OpenFits, WinsockFits, Socket!ChannelFails, Socket!PosixChannelFails,
        Socket!WindowsChannelFails, Connected, Apart
  <2> QED BY <1>1, <2>2, <2>3 DEF Socket!ConnectStart
<1>2. CASE Socket!ConnectCheck
  <2>1. state = "CONNECT_WAIT" /\ sock = Socket!Field /\ os' = os
    BY <1>2 DEF Socket!ConnectCheck, Socket!Turn, Socket!Outside, SocketInv, SocketFits, Connected
  <2>2. CASE Socket!Destroy("ERR_WAIT") BY <2>1, <2>2, DestroyKeeps DEF Apart
  <2>3. CASE UNCHANGED <<sock, open, winsock>> /\ state' \in {"READY", "CONNECT_WAIT"}
    BY <2>1, <2>3, SameSocketKeeps DEF Connected
  <2> QED BY <1>2, <2>1, <2>2, <2>3 DEF Socket!ConnectCheck
<1>3. CASE Socket!ErrWait
  BY <1>3, SameSocketKeeps DEF Socket!ErrWait, Socket!Turn, Socket!Outside, Apart
<1>4. CASE Socket!WaitEvent
  <2>1. state = "READY" /\ sock = Socket!Field /\ os' = os
    BY <1>4 DEF Socket!WaitEvent, Socket!Turn, Socket!Outside, SocketInv, SocketFits, Connected
  <2>2. CASE Socket!Destroy("CONNECT_START") BY <2>1, <2>2, DestroyKeeps DEF Apart
  <2>3. CASE "DISCONNECT" \notin Socket!Events
    <3>1. state' \in {"SEND", "RECEIVE", "READY"} /\ UNCHANGED <<sock, open, winsock>>
      BY <1>4, <2>3 DEF Socket!WaitEvent
    <3> QED BY <2>1, <3>1, SameSocketKeeps DEF Connected
  <2> QED BY <1>4, <2>2, <2>3 DEF Socket!WaitEvent
<1>5. CASE Socket!SocketWrite
  <2>1. state = "SEND" /\ sock = Socket!Field /\ os' = os
    BY <1>5 DEF Socket!SocketWrite, Socket!Turn, Socket!Outside, SocketInv, SocketFits, Connected
  <2>2. CASE Socket!Lost BY <2>1, <2>2, DestroyKeeps DEF Socket!Lost, Apart
  <2>3. CASE UNCHANGED <<sock, open, winsock>> /\ state' \in {"READY", "SEND"}
    BY <2>1, <2>3, SameSocketKeeps DEF Connected
  <2> QED BY <1>5, <2>1, <2>2, <2>3 DEF Socket!SocketWrite
<1>6. CASE Socket!SocketRead
  <2>1. state = "RECEIVE" /\ sock = Socket!Field /\ os' = os
    BY <1>6 DEF Socket!SocketRead, Socket!Turn, Socket!Outside, SocketInv, SocketFits, Connected
  <2>2. CASE Socket!Lost BY <2>1, <2>2, DestroyKeeps DEF Socket!Lost, Apart
  <2>3. CASE UNCHANGED <<sock, open, winsock>> /\ state' \in {"READY", "RECEIVE"}
    BY <2>1, <2>3, SameSocketKeeps DEF Connected
  <2> QED BY <1>6, <2>2, <2>3 DEF Socket!SocketRead
<1> QED BY <1>1, <1>2, <1>3, <1>4, <1>5, <1>6 DEF Socket!Step

(* The end of the PLC destroys the socket, if the handler has left one. *)
LEMMA JoinKeeps ==
  ASSUME SocketInv, Socket!Join
  PROVE  SocketInv'
<1>1. CASE sock # Socket!NoSocket
  BY <1>1, DestroyKeeps DEF Socket!Join, SocketInv, SocketFits
<1>2. CASE sock = Socket!NoSocket
  BY <1>2, SameSocketKeeps DEF Socket!Join
<1> QED BY <1>1, <1>2

LEMMA OthersKeep ==
  ASSUME SocketInv,
         \/ Socket!TickleTags \/ Socket!Stopped \/ Socket!WaitTimeout \/ Socket!Start
         \/ Socket!Terminate \/ Socket!StartWake \/ Socket!TerminateWake \/ Socket!Establish
         \/ Socket!Deliver \/ Socket!PeerGone \/ UNCHANGED Socket!vars
  PROVE  SocketInv'
<1>1. UNCHANGED <<os, sock, open, winsock>> /\ (state' = state \/ state' = "STOPPED")
  BY DEF Socket!TickleTags, Socket!Stopped, Socket!WaitTimeout, Socket!Outside, Socket!Start,
         Socket!Terminate, Socket!StartWake, Socket!TerminateWake, Socket!Establish,
         Socket!Deliver, Socket!PeerGone, Socket!Quiet, Socket!handler, Socket!vars
<1> QED BY <1>1, SameSocketKeeps

LEMMA SocketNext == SocketInv /\ [Socket!Next]_Socket!vars => SocketInv'
  BY StepKeeps, JoinKeeps, OthersKeep DEF Socket!Next, Socket!Application

LEMMA SocketImplies == SocketInv => NothingOpen
  BY FieldFacts DEF SocketInv, SocketFits, OpenFits, WinsockFits, NothingOpen,
                    Socket!NothingOpen, Socket!NoSocket

-----------------------------------------------------------------------------
(* A handler without a socket has no descriptor open and has undone every  *)
(* start of Winsock: reconnecting leaks nothing, whichever call failed.    *)
THEOREM LeaksNothing == Socket!Spec => []NothingOpen
<1> QED BY SocketInit, SocketNext, SocketImplies, PTL DEF Socket!Spec

-----------------------------------------------------------------------------
(* The buffer of a tag *)

(* The orders of the bytes of a number of w bytes *)
Orders(w) == {f \in [1 .. w -> 0 .. w - 1] : {f[i] : i \in 1 .. w} = 0 .. w - 1}

ByteOrders ==
  [int16 : Orders(2), int32 : Orders(4), int64 : Orders(8), float32 : Orders(4), float64 : Orders(8),
   defined : BOOLEAN, counted : {0, 1}, fixed : {0, 1}, zero : {0, 1}, swapped : {0, 1},
   multiple : Int, count : {0, 1, 2, 4, 8}, cap : Nat, total : Nat, pad : Nat]

Codes == {"OK", "NO_DATA", "OUT_OF_BOUNDS", "UNSUPPORTED", "TOO_LARGE", "NO_MEM"}

Memories == UNION {[0 .. n - 1 -> Buffer!Byte] : n \in Nat}

Contents ==
  [size : Nat, data : Memories, bo : ByteOrders, bit : Nat \cup {Buffer!NoBit}, status : Codes,
    dirty : BOOLEAN, resize : BOOLEAN,
   cache : Int, autoRead : Int, autoWrite : Int]

(* A string of a fixed length has room for what describes it. *)
Layout(bo) == /\ bo.counted = 1 => bo.count # 0
              /\ bo.fixed = 1 => bo.total > 0 /\ bo.zero + bo.cap + bo.count + bo.pad <= bo.total

(* A string of a fixed length has a capacity, unless attributes gave it    *)
(* none.                                                                   *)
Capped(bo) == bo.fixed = 1 => bo.cap # 0
StringsCapped == \A d \in Buffer!Defaults, a \in Overrides :
                   LET set == Buffer!SetTagByteOrder(d, a)
                   IN  set.rc = "OK" => Capped(set.order)

TagOK(t) == /\ t \in Contents
            /\ t.data \in [0 .. t.size - 1 -> Buffer!Byte]
            /\ Layout(t.bo)
            /\ StringsCapped => Capped(t.bo)

(* What stays the same when only bytes of the buffer or the status change *)
Same(u, t) == u.size = t.size /\ u.bo = t.bo /\ u.bit = t.bit

LEMMA DataAssumption == Buffer!TagDataAssumption
BY PartsAssumption

LEMMA ByteFacts == /\ Buffer!Base \in Nat \ {0} /\ Buffer!Byte \subseteq Nat
                   /\ {0, Buffer!Base - 1} \subseteq Buffer!Byte
                   /\ \A v \in Int : v % Buffer!Base \in Buffer!Byte
<1>1. Buffer!Base \in {2, 4, 8, 16, 32, 64, 128, 256}
  BY DataAssumption DEF Buffer!TagDataAssumption, Buffer!Base, Buffer!Shifted, Buffer!Raised
<1> QED BY <1>1 DEF Buffer!Byte

LEMMA PowerFacts == \A n \in 0 .. 8 : Buffer!Power(n) \in Nat \ {0}
<1> DEFINE b == Buffer!Base
           two == b * b
           four == two * two
<1>1. b \in Nat \ {0}
  BY ByteFacts
<1> HIDE DEF b
<1>2. two \in Nat \ {0}
  BY <1>1
<1> HIDE DEF two
<1>3. four \in Nat \ {0}
  BY <1>2
<1> HIDE DEF four
<1>4. /\ two * b \in Nat \ {0} /\ four * b \in Nat \ {0} /\ four * two \in Nat \ {0} 
      /\ four * four \in Nat \ {0}
  BY <1>1, <1>2, <1>3
<1>5. four * two * b \in Nat \ {0}
  BY <1>1, <1>4
<1>6. \A n \in 0 .. 8 :
        Buffer!Power(n) = <<1, b, two, two * b, four, four * b, four * two, four * two * b, four * four>>[n + 1]
  BY DEF Buffer!Power, Buffer!Raised, b, two, four
<1>7. TAKE n \in 0 .. 8
<1> QED BY <1>1, <1>2, <1>3, <1>4, <1>5, <1>6

LEMMA OrderFacts ==
  ASSUME NEW w \in Nat, NEW f \in Orders(w)
  PROVE  f \in [1 .. w -> 0 .. w - 1] /\ Len(f) = w /\ DOMAIN f = 1 .. w
BY DEF Orders

LEMMA StopsKeep ==
  ASSUME NEW t, TagOK(t), NEW code \in Codes, NEW v
  PROVE  LET u == Buffer!Stops(t, code, v).tag
         IN  TagOK(u) /\ Same(u, t) /\ u.data = t.data /\ u.dirty = t.dirty
BY DEF Buffer!Stops, Buffer!Result, TagOK, Contents, Same

LEMMA TouchKeep ==
  ASSUME NEW t, TagOK(t)
  PROVE  LET u == Buffer!Touch(t)
         IN  TagOK(u) /\ Same(u, t) /\ u.data = t.data
<1> DEFINE b == t.dirty \/ t.autoWrite > 0
<1>1. Buffer!Touch(t) = [[t EXCEPT !.dirty = b] EXCEPT !.status = "OK"]
  BY DEF Buffer!Touch, TagOK, Contents
<1>2. b \in BOOLEAN
  OBVIOUS
<1> HIDE DEF b
<1> DEFINE u == [t EXCEPT !.dirty = b]
<1>3. u \in Contents /\ Same(u, t) /\ u.data = t.data
  BY <1>2 DEF TagOK, Contents, Same
<1>4. TagOK(u)
  BY <1>3 DEF TagOK, Same
<1>5. Buffer!Touch(t) = Buffer!Stops(u, "OK", 0).tag
  BY <1>1 DEF Buffer!Stops, Buffer!Result
<1> HIDE DEF u
<1>6. LET w == Buffer!Stops(u, "OK", 0).tag
      IN  TagOK(w) /\ Same(w, u) /\ w.data = u.data
  <2>1. "OK" \in Codes
    BY DEF Codes
  <2> QED BY <1>4, <2>1, StopsKeep
<1> QED BY <1>3, <1>5, <1>6 DEF Same

LEMMA DataKeep ==
  ASSUME NEW t, TagOK(t), NEW d \in [DOMAIN t.data -> Buffer!Byte]
  PROVE  LET u == [t EXCEPT !.data = d]
         IN  TagOK(u) /\ Same(u, t) /\ u.data = d /\ u.dirty = t.dirty
<1>1. DOMAIN t.data = 0 .. t.size - 1 /\ t.size \in Nat
  BY DEF TagOK, Contents
<1>2. d \in Memories
  BY <1>1 DEF Memories
<1>3. t \in Contents /\ Layout(t.bo) /\ (StringsCapped => Capped(t.bo))
  BY DEF TagOK
<1> DEFINE u == [t EXCEPT !.data = d]
<1>4. u \in Contents
  BY <1>2, <1>3 DEF Contents
<1>5. Same(u, t) /\ u.data = d /\ u.dirty = t.dirty
  BY <1>3 DEF Contents, Same
<1>6. u.data \in [0 .. u.size - 1 -> Buffer!Byte]
  BY <1>1, <1>5 DEF Same
<1> QED BY <1>3, <1>4, <1>5, <1>6 DEF TagOK, Same

(* A number is stored within its own bytes. *)
LEMMA StoreKeep ==
  ASSUME NEW t, TagOK(t), NEW w \in 1 .. 8, NEW f \in Orders(w), NEW o \in Int, NEW v \in Int
  PROVE  LET u == Buffer!Store(t, f, o, v)
         IN  /\ TagOK(u) /\ Same(u, t) /\ u.dirty = t.dirty
             /\ \A p \in DOMAIN t.data : p \notin o .. o + w - 1 => u.data[p] = t.data[p]
<1> DEFINE At(p) == CHOOSE i \in DOMAIN f : p = o + f[i]
           d == [p \in DOMAIN t.data |->
                   IF \E i \in DOMAIN f : p = o + f[i]
                   THEN (v \div Buffer!Power(At(p) - 1)) % Buffer!Base ELSE t.data[p]]
<1>1. Buffer!Store(t, f, o, v) = [t EXCEPT !.data = d]
  BY DEF Buffer!Store, TagOK, Contents
<1>2. f \in [1 .. w -> 0 .. w - 1] /\ DOMAIN f = 1 .. w
  BY OrderFacts
<1>3. ASSUME NEW p \in DOMAIN t.data, \E i \in DOMAIN f : p = o + f[i]
      PROVE  (v \div Buffer!Power(At(p) - 1)) % Buffer!Base \in Buffer!Byte
  <2>1. At(p) \in 1 .. w
    BY <1>2, <1>3
  <2>2. Buffer!Power(At(p) - 1) \in Nat \ {0}
    BY <2>1, PowerFacts
  <2>3. v \div Buffer!Power(At(p) - 1) \in Int
    BY <2>2
  <2> QED BY <2>3, ByteFacts
<1>4. d \in [DOMAIN t.data -> Buffer!Byte]
  BY <1>3 DEF TagOK
<1>5. \A p \in DOMAIN t.data : p \notin o .. o + w - 1 => d[p] = t.data[p]
  <2>1. ASSUME NEW p \in DOMAIN t.data, \E i \in DOMAIN f : p = o + f[i]
        PROVE  p \in o .. o + w - 1
    BY <1>2, <2>1
  <2> QED BY <2>1
<1> HIDE DEF d
<1> QED BY <1>1, <1>4, <1>5, DataKeep

LEMMA Quotient ==
  ASSUME NEW s \in {1, 2, 4, 8, 16, 32, 64, 128}, NEW a \in Int, NEW r \in Int, r >= 0
  PROVE  /\ r < s => (a * s + r) \div s = a
         /\ r >= s /\ r < 2 * s => (a * s + r) \div s = a + 1
<1>1. CASE s = 1 BY <1>1
<1>2. CASE s = 2 BY <1>2
<1>3. CASE s = 4 BY <1>3
<1>4. CASE s = 8 BY <1>4
<1>5. CASE s = 16 BY <1>5
<1>6. CASE s = 32 BY <1>6
<1>7. CASE s = 64 BY <1>7
<1>8. CASE s = 128 BY <1>8
<1> QED BY <1>1, <1>2, <1>3, <1>4, <1>5, <1>6, <1>7, <1>8

(* A bit is stored within its byte. *)
LEMMA BitByte ==
  ASSUME NEW d \in Buffer!Byte, NEW k \in 0 .. ByteBits - 1, NEW b \in {0, 1}
  PROVE  LET e == d + (b - ((d \div Buffer!Shifted(k)) % 2)) * Buffer!Shifted(k)
         IN  e \in Buffer!Byte /\ (e \div Buffer!Shifted(k)) % 2 = b
<1>1. ByteBits \in 1 .. 8
  BY DataAssumption DEF Buffer!TagDataAssumption
<1> DEFINE s == Buffer!Shifted(k)
           m == Buffer!Shifted(ByteBits - k) \div 2
           q == d \div (2 * s)
           r == d % (2 * s)
<1>2. /\ s \in {1, 2, 4, 8, 16, 32, 64, 128} /\ m \in {1, 2, 4, 8, 16, 32, 64, 128}
      /\ Buffer!Base = 2 * s * m
  BY <1>1 DEF Buffer!Base, Buffer!Shifted, Buffer!Raised
<1>3. d \in Nat /\ d < 2 * s * m
  BY <1>2 DEF Buffer!Byte
<1> HIDE DEF s, m
<1>4. d = q * 2 * s + r /\ r \in 0 .. 2 * s - 1 /\ q \in 0 .. m - 1
  BY <1>2, <1>3
<1> HIDE DEF q, r
<1> DEFINE e == IF r < s THEN 0 ELSE 1
           p == q * s
<1>5. p \in Int /\ q * 2 * s = 2 * p /\ (2 * q) * s = 2 * p
  BY <1>2, <1>4
<1>6. (d \div s) % 2 = e
  <2>1. d = (2 * q) * s + r
    BY <1>2, <1>4, <1>5
  <2>2. d \div s = 2 * q + e
    BY <1>2, <1>4, <2>1, Quotient
  <2> QED BY <1>4, <2>2
<1>7. p >= 0 /\ 2 * p + 2 * s <= 2 * s * m
  <2>1. CASE s = 1 BY <1>2, <1>4, <2>1
  <2>2. CASE s = 2 BY <1>2, <1>4, <2>2
  <2>3. CASE s = 4 BY <1>2, <1>4, <2>3
  <2>4. CASE s = 8 BY <1>2, <1>4, <2>4
  <2>5. CASE s = 16 BY <1>2, <1>4, <2>5
  <2>6. CASE s = 32 BY <1>2, <1>4, <2>6
  <2>7. CASE s = 64 BY <1>2, <1>4, <2>7
  <2>8. CASE s = 128 BY <1>2, <1>4, <2>8
  <2> QED BY <1>2, <2>1, <2>2, <2>3, <2>4, <2>5, <2>6, <2>7, <2>8
<1> HIDE DEF p
<1>0. e \in {0, 1} /\ (r < s => e = 0) /\ (r >= s => e = 1)
  BY <1>2, <1>4
<1> HIDE DEF e
<1>8. (b - e) * s = IF b = e THEN 0 ELSE IF b = 1 THEN s ELSE -s
  <2>1. s \in Int
    BY <1>2
  <2>2. b - e \in {-1, 0, 1} /\ (b = e <=> b - e = 0) /\ (b # e => b - e = IF b = 1 THEN 1 ELSE -1)
    BY <1>0
  <2> QED BY <2>1, <2>2
<1>9. d + (b - e) * s \in 0 .. 2 * s * m - 1
  BY <1>2, <1>3, <1>4, <1>5, <1>7, <1>8, <1>0
<1>10. d + (b - ((d \div s) % 2)) * s \in 0 .. Buffer!Base - 1
  BY <1>2, <1>6, <1>9
<1> DEFINE x == d + (b - ((d \div s) % 2)) * s
<1>11. (x \div s) % 2 = b
  <2> DEFINE g == r + (b - e) * s
  <2>1. g \in Int /\ g >= 0 /\ (b = 0 => g < s) /\ (b = 1 => g >= s /\ g < 2 * s)
    BY <1>2, <1>4, <1>8, <1>0
  <2>2. x = (2 * q) * s + g
    BY <1>2, <1>3, <1>4, <1>5, <1>6, <2>1
  <2> HIDE DEF g, x
  <2>3. x \div s = 2 * q + b
    BY <1>2, <1>4, <2>1, <2>2, Quotient
  <2> QED BY <1>4, <2>3
<1> QED BY <1>10, <1>11, Zenon DEF s, x, Buffer!Byte

-----------------------------------------------------------------------------
(* What a call that stores a number does to a tag: it changes bytes of own *)
(* and the marks, and nothing when it fails.                               *)
Stored(r, t, own) ==
  /\ TagOK(r.tag) /\ Same(r.tag, t)
  /\ r.rc # "OK" => r.tag.data = t.data /\ r.tag.dirty = t.dirty
  /\ \A p \in DOMAIN t.data : p \notin own => r.tag.data[p] = t.data[p]

LEMMA RefusedStores ==
  ASSUME NEW t, TagOK(t), NEW code \in Codes, NEW v, NEW own
  PROVE  Stored(Buffer!Stops(t, code, v), t, own)
<1>1. LET u == Buffer!Stops(t, code, v).tag
      IN  TagOK(u) /\ Same(u, t) /\ u.data = t.data /\ u.dirty = t.dirty
  BY StopsKeep
<1> QED BY <1>1 DEF Stored

LEMMA SetBitStores ==
  ASSUME NEW t, TagOK(t), NEW o \in Int, NEW v
  PROVE  Stored(Buffer!SetBitImpl(t, o, v), t,
                {(IF t.bit = Buffer!NoBit THEN o ELSE t.bit) \div ByteBits})
<1> DEFINE bit == IF t.bit = Buffer!NoBit THEN o ELSE t.bit
           at  == bit \div ByteBits
           b   == IF v # 0 THEN 1 ELSE 0
           old == (t.data[at] \div Buffer!Shifted(bit % ByteBits)) % 2
           u   == Buffer!Touch(t)
           r   == Buffer!SetBitImpl(t, o, v)
           new_ == [u EXCEPT !.data[at] = @ + (b - old) * Buffer!Shifted(bit % ByteBits)]
<1>1. \/ r = Buffer!Stops(t, "NO_DATA", 0)
      \/ r = Buffer!Stops(t, "OUT_OF_BOUNDS", 0)
      \/ bit >= 0 /\ at < t.size /\ r = Buffer!Result(new_, "OK", 0)
  BY Zenon DEF Buffer!SetBitImpl
<1>2. CASE r = Buffer!Stops(t, "NO_DATA", 0) \/ r = Buffer!Stops(t, "OUT_OF_BOUNDS", 0)
  BY <1>2, RefusedStores, Zenon DEF Codes
<1>3. CASE bit >= 0 /\ at < t.size /\ r = Buffer!Result(new_, "OK", 0)
  <2>1. ByteBits \in 1 .. 8 /\ bit \in Nat
    BY <1>3, DataAssumption DEF Buffer!TagDataAssumption, TagOK, Contents
  <2>2. bit % ByteBits \in 0 .. ByteBits - 1 /\ at \in Nat
    BY <2>1
  <2>3. DOMAIN t.data = 0 .. t.size - 1 /\ t.size \in Nat
    BY DEF TagOK, Contents
  <2>4. at \in DOMAIN t.data /\ t.data[at] \in Buffer!Byte
    BY <1>3, <2>2, <2>3 DEF TagOK
  <2> DEFINE x == t.data[at] + (b - old) * Buffer!Shifted(bit % ByteBits)
             d == [t.data EXCEPT ![at] = x]
  <2>5. x \in Buffer!Byte
    <3>1. b \in {0, 1}
      OBVIOUS
    <3> HIDE DEF b
    <3> QED BY <2>2, <2>4, <3>1, BitByte
  <2>6. TagOK(u) /\ Same(u, t) /\ u.data = t.data
    BY TouchKeep
  <2>7. new_ = [u EXCEPT !.data = d]
    BY <2>6 DEF TagOK, Contents
  <2> HIDE DEF x
  <2>8. d \in [DOMAIN u.data -> Buffer!Byte] /\ \A p \in DOMAIN t.data : p # at => d[p] = t.data[p]
    BY <2>5, <2>6 DEF TagOK
  <2> HIDE DEF d, u, new_, at
  <2>9. TagOK(new_) /\ Same(new_, u) /\ new_.data = d
    BY <2>6, <2>7, <2>8, DataKeep
  <2> QED BY <1>3, <2>6, <2>8, <2>9 DEF Stored, Buffer!Result, Same, at
<1> QED BY <1>1, <1>2, <1>3

LEMMA StoreStores ==
  ASSUME NEW t, TagOK(t), NEW w \in 1 .. 8, NEW f \in Orders(w), NEW o \in Int, NEW v \in Int
  PROVE  Stored(Buffer!Result(Buffer!Store(Buffer!Touch(t), f, o, Buffer!Unsigned(v, Len(f))), "OK", 0),
                t, o .. o + w - 1)
<1> DEFINE u == Buffer!Touch(t)
           n == Buffer!Unsigned(v, Len(f))
           s == Buffer!Store(u, f, o, n)
<1>1. TagOK(u) /\ Same(u, t) /\ u.data = t.data
  BY TouchKeep
<1>2. n \in Int
  <2>1. Len(f) = w
    BY OrderFacts
  <2>2. Buffer!Power(w) \in Nat \ {0}
    BY PowerFacts
  <2> QED BY <2>1, <2>2 DEF Buffer!Unsigned, Buffer!Limit
<1> HIDE DEF u, n
<1>3. /\ TagOK(s) /\ Same(s, u)
      /\ \A p \in DOMAIN u.data : p \notin o .. o + w - 1 => s.data[p] = u.data[p]
  BY <1>1, <1>2, StoreKeep
<1> HIDE DEF s
<1>4. Stored(Buffer!Result(s, "OK", 0), t, o .. o + w - 1)
  BY <1>1, <1>3 DEF Stored, Buffer!Result, Same
<1> QED BY <1>4 DEF s, u, n

LEMMA SetIntStores ==
  ASSUME NEW t, TagOK(t), NEW w \in 1 .. 8, NEW f \in Orders(w), NEW o \in Int, NEW v \in Int
  PROVE  Stored(Buffer!SetInt(t, f, o, v), t,
                IF t.bit = Buffer!NoBit THEN o .. o + w - 1 ELSE {t.bit \div ByteBits})
<1> DEFINE r == Buffer!SetInt(t, f, o, v)
<1>1. \/ r = Buffer!Stops(t, "NO_DATA", 0)
      \/ r = Buffer!Stops(t, "OUT_OF_BOUNDS", 0)
      \/ t.bit # Buffer!NoBit /\ r = Buffer!SetBitImpl(t, 0, v)
      \/ /\ t.bit = Buffer!NoBit
         /\ r = Buffer!Result(Buffer!Store(Buffer!Touch(t), f, o, Buffer!Unsigned(v, Len(f))), "OK", 0)
  BY Zenon DEF Buffer!SetInt
<1>2. CASE r = Buffer!Stops(t, "NO_DATA", 0) \/ r = Buffer!Stops(t, "OUT_OF_BOUNDS", 0)
  BY <1>2, RefusedStores, Zenon DEF Codes
<1>3. CASE t.bit # Buffer!NoBit /\ r = Buffer!SetBitImpl(t, 0, v)
  <2>1. 0 \in Int
    OBVIOUS
  <2> HIDE DEF r
  <2>2. Stored(r, t, {(IF t.bit = Buffer!NoBit THEN 0 ELSE t.bit) \div ByteBits})
    BY <1>3, <2>1, SetBitStores, Zenon
  <2> QED BY <1>3, <2>2, Zenon DEF r
<1>4. CASE /\ t.bit = Buffer!NoBit
           /\ r = Buffer!Result(Buffer!Store(Buffer!Touch(t), f, o, Buffer!Unsigned(v, Len(f))), "OK", 0)
  BY <1>4, StoreStores, Zenon
<1> QED BY <1>1, <1>2, <1>3, <1>4

LEMMA SetFloatStores ==
  ASSUME NEW t, TagOK(t), NEW w \in 1 .. 8, NEW f \in Orders(w), NEW o \in Int, NEW v \in Int
  PROVE  Stored(Buffer!SetFloat(t, f, o, v), t,
                IF t.bit = Buffer!NoBit THEN o .. o + w - 1 ELSE {t.bit \div ByteBits})
<1> DEFINE r == Buffer!SetFloat(t, f, o, v)
<1>1. \/ r = Buffer!Stops(t, "NO_DATA", 0)
      \/ r = Buffer!Stops(t, "UNSUPPORTED", 0)
      \/ r = Buffer!Stops(t, "OUT_OF_BOUNDS", 0)
      \/ /\ t.bit = Buffer!NoBit
         /\ r = Buffer!Result(Buffer!Store(Buffer!Touch(t), f, o, Buffer!Unsigned(v, Len(f))), "OK", 0)
  BY Zenon DEF Buffer!SetFloat
<1>2. CASE \/ r = Buffer!Stops(t, "NO_DATA", 0) \/ r = Buffer!Stops(t, "UNSUPPORTED", 0)
           \/ r = Buffer!Stops(t, "OUT_OF_BOUNDS", 0)
  BY <1>2, RefusedStores, Zenon DEF Codes
<1>3. CASE /\ t.bit = Buffer!NoBit
           /\ r = Buffer!Result(Buffer!Store(Buffer!Touch(t), f, o, Buffer!Unsigned(v, Len(f))), "OK", 0)
  BY <1>3, StoreStores, Zenon
<1> QED BY <1>1, <1>2, <1>3

(* The order of the bytes of each type of number *)
OrderField == [uint64 |-> "int64", int64 |-> "int64", uint32 |-> "int32", int32 |-> "int32",
               uint16 |-> "int16", int16 |-> "int16", float64 |-> "float64", float32 |-> "float32"]
OrderOf(k, t) == IF k \in {"uint8", "int8"} THEN Buffer!Little(1) ELSE t.bo[OrderField[k]]

LEMMA OrderTypes ==
  ASSUME NEW t, TagOK(t), NEW k \in Buffer!Types
  PROVE  Buffer!Width[k] \in {1, 2, 4, 8} /\ OrderOf(k, t) \in Orders(Buffer!Width[k])
<1>1. Buffer!Little(1) \in Orders(1)
  BY DEF Buffer!Little, Orders
<1>2. t.bo \in ByteOrders
  BY DEF TagOK, Contents
<1>3. CASE k \in {"uint8", "int8"}
  BY <1>1, <1>3 DEF Buffer!Width, OrderOf
<1>4. CASE k \notin {"uint8", "int8"}
  BY <1>2, <1>4 DEF Buffer!Types, Buffer!Width, OrderOf, OrderField, ByteOrders
<1> QED BY <1>3, <1>4

LEMMA SetterForms ==
  ASSUME NEW t, NEW k \in Buffer!Types, NEW o, NEW v
  PROVE  \/ Buffer!Setter(k, t, o, v) = IF k \in Buffer!Floats THEN Buffer!SetFloat(t, OrderOf(k, t), o, v)
                                        ELSE Buffer!SetInt(t, OrderOf(k, t), o, v)
         \/ Buffer!Setter(k, t, o, v) = Buffer!Stops(t, "OUT_OF_BOUNDS", 0)
<1> USE DEF OrderOf, OrderField, Buffer!Setter, Buffer!Floats
<1>1. CASE k = "uint64" BY <1>1, Zenon DEF Buffer!SetUint64
<1>2. CASE k = "int64" BY <1>2, Zenon DEF Buffer!SetInt64
<1>3. CASE k = "uint32" BY <1>3, Zenon DEF Buffer!SetUint32
<1>4. CASE k = "int32" BY <1>4, Zenon DEF Buffer!SetInt32
<1>5. CASE k = "uint16" BY <1>5, Zenon DEF Buffer!SetUint16
<1>6. CASE k = "int16" BY <1>6, Zenon DEF Buffer!SetInt16
<1>7. CASE k = "uint8" BY <1>7, Zenon DEF Buffer!SetUint8
<1>8. CASE k = "int8" BY <1>8, Zenon DEF Buffer!SetInt8
<1>9. CASE k = "float64" BY <1>9, Zenon DEF Buffer!SetFloat64
<1>10. CASE k = "float32" BY <1>10, Zenon DEF Buffer!SetFloat32
<1> QED BY <1>1, <1>2, <1>3, <1>4, <1>5, <1>6, <1>7, <1>8, <1>9, <1>10 DEF Buffer!Types

LEMMA SetterStores ==
  ASSUME NEW t, TagOK(t), NEW k \in Buffer!Types, NEW o \in Int, NEW v \in Int
  PROVE  Stored(Buffer!Setter(k, t, o, v), t,
                IF t.bit = Buffer!NoBit THEN o .. o + Buffer!Width[k] - 1 ELSE {t.bit \div ByteBits})
<1> DEFINE own == IF t.bit = Buffer!NoBit THEN o .. o + Buffer!Width[k] - 1
                  ELSE {t.bit \div ByteBits}
<1>1. Buffer!Width[k] \in 1 .. 8 /\ OrderOf(k, t) \in Orders(Buffer!Width[k])
  BY OrderTypes
<1>2. CASE Buffer!Setter(k, t, o, v) = Buffer!Stops(t, "OUT_OF_BOUNDS", 0)
  <2>1. Stored(Buffer!Stops(t, "OUT_OF_BOUNDS", 0), t, own)
    BY RefusedStores DEF Codes
  <2> QED BY <1>2, <2>1, Zenon
<1>3. CASE k \in Buffer!Floats /\ Buffer!Setter(k, t, o, v) = Buffer!SetFloat(t, OrderOf(k, t), o, v)
  <2>1. Stored(Buffer!SetFloat(t, OrderOf(k, t), o, v), t, own)
    BY <1>1, SetFloatStores
  <2> QED BY <1>3, <2>1, Zenon
<1>4. CASE k \notin Buffer!Floats /\ Buffer!Setter(k, t, o, v) = Buffer!SetInt(t, OrderOf(k, t), o, v)
  <2>1. Stored(Buffer!SetInt(t, OrderOf(k, t), o, v), t, own)
    BY <1>1, SetIntStores
  <2> QED BY <1>4, <2>1, Zenon
<1> QED BY <1>2, <1>3, <1>4, SetterForms, Zenon

LEMMA NumbersStay ==
  ASSUME Buffer!Made => TagOK(tag)
  PROVE  Buffer!OnlyTheNumber
<1> SUFFICES ASSUME Buffer!Made, NEW k \in Buffer!Types, NEW o \in Offsets, NEW v \in Numbers
             PROVE  LET set == Buffer!Setter(k, tag, o, v)
                        own == IF tag.bit = Buffer!NoBit THEN o .. o + Buffer!Width[k] - 1
                               ELSE {tag.bit \div ByteBits}
                    IN  \A p \in 0 .. tag.size - 1 :
                          p \notin own \/ set.rc # "OK" =>
                            /\ set.tag.data[p] = tag.data[p]
                            /\ set.rc = "OK" \/ set.tag.dirty = tag.dirty
  BY Zenon DEF Buffer!OnlyTheNumber
<1>1. o \in Int /\ v \in Int
  BY DataAssumption DEF Buffer!TagDataAssumption
<1>2. Stored(Buffer!Setter(k, tag, o, v), tag,
             IF tag.bit = Buffer!NoBit THEN o .. o + Buffer!Width[k] - 1 ELSE {tag.bit \div ByteBits})
  BY <1>1, SetterStores
<1>3. DOMAIN tag.data = 0 .. tag.size - 1
  BY DEF TagOK
<1> QED BY <1>2, <1>3 DEF Stored

-----------------------------------------------------------------------------
(* The calls that only read *)
Asked(r, t) == r.tag = t \/ \E code \in Codes : r.tag = Buffer!Stops(t, code, 0).tag

LEMMA StopsAsked ==
  ASSUME NEW t, NEW code \in Codes, NEW v
  PROVE  Asked(Buffer!Stops(t, code, v), t)
<1>1. Buffer!Stops(t, code, v).tag = Buffer!Stops(t, code, 0).tag
  BY DEF Buffer!Stops, Buffer!Result
<1> QED BY <1>1, Zenon DEF Asked

LEMMA ResultAsked ==
  ASSUME NEW t, NEW code, NEW v
  PROVE  Asked(Buffer!Result(t, code, v), t)
BY DEF Asked, Buffer!Result

LEMMA AskedKeeps ==
  ASSUME NEW t, TagOK(t), NEW r, Asked(r, t)
  PROVE  TagOK(r.tag) /\ Same(r.tag, t)
<1>1. CASE r.tag = t
  BY <1>1 DEF Same
<1>2. ASSUME NEW code \in Codes, r.tag = Buffer!Stops(t, code, 0).tag
      PROVE  TagOK(r.tag) /\ Same(r.tag, t)
  BY <1>2, StopsKeep
<1> QED BY <1>1, <1>2 DEF Asked

LEMMA CodeFacts ==
  {"OK", "NO_DATA", "OUT_OF_BOUNDS", "UNSUPPORTED", "TOO_LARGE", "NO_MEM"} \subseteq Codes
BY DEF Codes

LEMMA GetBitAsks ==
  ASSUME NEW t, NEW o
  PROVE  Asked(Buffer!GetBitImpl(t, o), t)
<1>1. \E code \in {"NO_DATA", "OK", "OUT_OF_BOUNDS"} : \E v : Buffer!GetBitImpl(t, o) = Buffer!Stops(t, code, v)
  BY Zenon DEF Buffer!GetBitImpl
<1> QED BY <1>1, CodeFacts, StopsAsked, Zenon

LEMMA GetterAsks ==
  ASSUME NEW t, NEW k \in Buffer!Types, NEW o
  PROVE  Asked(Buffer!Getter(k, t, o), t)
<1> DEFINE r == Buffer!Getter(k, t, o)
           b == Buffer!GetBitImpl(t, t.bit)
           Forms == \/ \E code \in {"NO_DATA", "UNSUPPORTED", "OK", "OUT_OF_BOUNDS"} : \E v : r = Buffer!Stops(t, code, v)
                    \/ r = b
                    \/ \E v : r = Buffer!Result(b.tag, b.rc, v)
<1>1. Forms
  <2> USE DEF Buffer!Getter, Buffer!GetInt, Buffer!GetFloat
  <2>1. CASE k = "uint64" BY <2>1, Zenon DEF Buffer!GetUint64
  <2>2. CASE k = "int64" BY <2>2, Zenon DEF Buffer!GetInt64
  <2>3. CASE k = "uint32" BY <2>3, Zenon DEF Buffer!GetUint32
  <2>4. CASE k = "int32" BY <2>4, Zenon DEF Buffer!GetInt32
  <2>5. CASE k = "uint16" BY <2>5, Zenon DEF Buffer!GetUint16
  <2>6. CASE k = "int16" BY <2>6, Zenon DEF Buffer!GetInt16
  <2>7. CASE k = "uint8" BY <2>7, Zenon DEF Buffer!GetUint8
  <2>8. CASE k = "int8" BY <2>8, Zenon DEF Buffer!GetInt8
  <2>9. CASE k = "float64" BY <2>9, Zenon DEF Buffer!GetFloat64
  <2>10. CASE k = "float32" BY <2>10, Zenon DEF Buffer!GetFloat32
  <2> QED BY <2>1, <2>2, <2>3, <2>4, <2>5, <2>6, <2>7, <2>8, <2>9, <2>10, Zenon DEF Buffer!Types
<1> HIDE DEF r
<1>2. Asked(b, t)
  BY GetBitAsks
<1>3. ASSUME NEW v, r = Buffer!Result(b.tag, b.rc, v)
      PROVE  Asked(r, t)
  BY <1>2, <1>3 DEF Asked, Buffer!Result
<1>4. Asked(r, t)
  BY <1>1, <1>2, <1>3, CodeFacts, StopsAsked, Zenon
<1> QED BY <1>4 DEF r

LEMMA ReadersAsk ==
  ASSUME NEW t, NEW o, NEW n, NEW v
  PROVE  /\ Asked(Buffer!GetBit(t, o), t)
         /\ Asked(Buffer!GetRawBytes(t, o, n), t)
         /\ Asked(Buffer!GetSize(t), t)
         /\ Asked(Buffer!GetString(t, o, n), t)
         /\ Asked(Buffer!GetStringLength(t, o), t)
         /\ Asked(Buffer!GetStringCapacity(t, o), t)
         /\ Asked(Buffer!GetStringTotalLength(t, o), t)
         /\ Asked(Buffer!GetIntAttribute(t, n, v), t)
<1>1. Buffer!StringsRefused(t) \in {"UNSUPPORTED", "NO_DATA", "OK"}
  BY Zenon DEF Buffer!StringsRefused
<1> DEFINE Some(r) == \/ \E code \in {"NO_DATA", "UNSUPPORTED", "OK", "OUT_OF_BOUNDS"} : \E x : r = Buffer!Stops(t, code, x)
                      \/ \E code : \E x : r = Buffer!Result(t, code, x)
<1>2. ASSUME NEW r, Some(r)
      PROVE  Asked(r, t)
  BY <1>2, CodeFacts, StopsAsked, ResultAsked, Zenon
<1>3. Asked(Buffer!GetRawBytes(t, o, n), t)
  <2>1. \A code \in Codes : Asked(Buffer!Stops(t, code, <<>>), t)
    BY StopsAsked
  <2>2. Asked(Buffer!Stops(t, "OK", [i \in 1 .. n |-> t.data[o + i - 1]]), t)
    BY StopsAsked, CodeFacts
  <2>3. Asked(Buffer!Result(t, "BAD_PARAM", <<>>), t)
    BY ResultAsked
  <2> QED BY <2>1, <2>2, <2>3, CodeFacts, Zenon DEF Buffer!GetRawBytes
<1>4. Some(Buffer!GetSize(t))
  BY Zenon DEF Buffer!GetSize
<1>5. Asked(Buffer!GetString(t, o, n), t)
  <2> DEFINE len  == Buffer!StringLength(t, o)
             most == IF n < len THEN n ELSE len
  <2>1. \A code \in Codes : Asked(Buffer!Stops(t, code, <<>>), t)
    BY StopsAsked
  <2>2. Asked(Buffer!Stops(t, "OK", [i \in 1 .. most |-> t.data[Buffer!CharAt(t, o, i - 1)]]), t)
    BY StopsAsked, CodeFacts
  <2>3. Asked(Buffer!Result(t, "OUT_OF_BOUNDS", <<>>), t)
    BY ResultAsked
  <2> QED BY <1>1, <2>1, <2>2, <2>3, CodeFacts, Zenon DEF Buffer!GetString
<1>6. Some(Buffer!GetStringLength(t, o)) /\ Some(Buffer!GetStringTotalLength(t, o))
  BY <1>1, Zenon DEF Buffer!GetStringLength, Buffer!GetStringTotalLength
<1>7. Some(Buffer!GetStringCapacity(t, o))
  BY <1>1, Zenon DEF Buffer!GetStringCapacity
<1>8. Some(Buffer!GetIntAttribute(t, n, v))
  BY Zenon DEF Buffer!GetIntAttribute
<1>9. Asked(Buffer!GetBit(t, o), t)
  BY GetBitAsks DEF Buffer!GetBit
<1> HIDE DEF Some
<1> QED BY <1>2, <1>3, <1>4, <1>5, <1>6, <1>7, <1>8, <1>9

-----------------------------------------------------------------------------
(* The calls that store something else than a number *)
LEMMA SetRawKeeps ==
  ASSUME NEW t, TagOK(t), NEW o \in Int, NEW s \in Seq(Buffer!Byte)
  PROVE  TagOK(Buffer!SetRawBytes(t, o, s).tag)
<1> DEFINE u == Buffer!Touch(t)
           n == Len(s)
           d == [p \in DOMAIN u.data |-> IF p \in o .. o + n - 1 THEN s[p - o + 1] ELSE u.data[p]]
<1>1. TagOK(u)
  BY TouchKeep
<1>2. d \in [DOMAIN u.data -> Buffer!Byte]
  <2>1. u.data \in [0 .. u.size - 1 -> Buffer!Byte] /\ u.size \in Nat
    BY <1>1 DEF TagOK, Contents
  <2>2. ASSUME NEW p \in DOMAIN u.data, p \in o .. o + n - 1
        PROVE  s[p - o + 1] \in Buffer!Byte
    BY <2>1, <2>2
  <2> QED BY <2>1, <2>2
<1>3. TagOK(Buffer!Result([u EXCEPT !.data = [p \in DOMAIN @ |-> IF p \in o .. o + n - 1 THEN s[p - o + 1] ELSE @[p]]],
                          "OK", 0).tag)
  <2>1. TagOK([u EXCEPT !.data = d])
    BY <1>1, <1>2, DataKeep
  <2> QED BY <1>1, <2>1 DEF Buffer!Result, TagOK, Contents
<1>4. \A code \in Codes : TagOK(Buffer!Stops(t, code, 0).tag)
  BY StopsKeep
<1>5. TagOK(Buffer!Result(t, "BAD_PARAM", 0).tag)
  BY DEF Buffer!Result
<1> QED BY <1>3, <1>4, <1>5, CodeFacts, Zenon DEF Buffer!SetRawBytes

LEMMA SetAttributeKeeps ==
  ASSUME NEW t, TagOK(t), NEW name, NEW v \in Int
  PROVE  TagOK(Buffer!SetIntAttribute(t, name, v).tag)
<1> DEFINE r == Buffer!SetIntAttribute(t, name, v)
           Shapes == {[t EXCEPT !.cache = v], [t EXCEPT !.autoRead = v], [t EXCEPT !.autoWrite = v],
                      [t EXCEPT !.resize = v > 0], t}
<1>1. \E u \in Shapes : \E code \in {"OK", "OUT_OF_BOUNDS", "UNSUPPORTED"} : r = Buffer!Stops(u, code, 0)
  BY Zenon DEF Buffer!SetIntAttribute
<1>2. \A u \in Shapes : TagOK(u)
  <2>1. TagOK([t EXCEPT !.cache = v]) BY DEF TagOK, Contents
  <2>2. TagOK([t EXCEPT !.autoRead = v]) BY DEF TagOK, Contents
  <2>3. TagOK([t EXCEPT !.autoWrite = v]) BY DEF TagOK, Contents
  <2>4. ASSUME NEW b \in BOOLEAN PROVE TagOK([t EXCEPT !.resize = b]) BY DEF TagOK, Contents
  <2>5. (v > 0) \in BOOLEAN OBVIOUS
  <2> QED BY <2>1, <2>2, <2>3, <2>4, <2>5, Zenon
<1> HIDE DEF Shapes, r
<1>3. PICK u \in Shapes, code \in Codes : r = Buffer!Stops(u, code, 0)
  BY <1>1, CodeFacts, Zenon
<1>4. TagOK(r.tag)
  BY <1>2, <1>3, StopsKeep
<1> QED BY <1>4 DEF r

(* resize_tag_buffer_unsafe() keeps the bytes that stay. *)
Resizes(t, size, fill, alloc) ==
  LET r == Buffer!ResizeTagBuffer(t, size, fill, alloc)
  IN  /\ TagOK(r.tag) /\ r.tag.bo = t.bo /\ r.tag.bit = t.bit
      /\ r.rc = "OK" =>
           /\ r.tag.size = size
           /\ \A p \in 0 .. size - 1 : p < t.size => r.tag.data[p] = t.data[p]
      /\ r.rc # "OK" => r = Buffer!Stops(t, "NO_MEM", 0)

LEMMA ResizeKeeps ==
  ASSUME NEW t, TagOK(t), NEW size \in Int, NEW fill \in Buffer!Byte, NEW alloc
  PROVE  Resizes(t, size, fill, alloc)
<1> DEFINE r == Buffer!ResizeTagBuffer(t, size, fill, alloc)
           d == [p \in 0 .. size - 1 |-> IF p < t.size THEN t.data[p] ELSE fill]
           u == [t EXCEPT !.size = size, !.data = d]
<1>1. CASE ~(size > 0 /\ alloc)
  <2>1. r = Buffer!Stops(t, "NO_MEM", 0)
    BY <1>1, Zenon DEF Buffer!ResizeTagBuffer
  <2>2. r.rc # "OK"
    BY <2>1 DEF Buffer!Stops, Buffer!Result
  <2> QED BY <2>1, <2>2, CodeFacts, StopsKeep DEF Same, Resizes
<1>2. CASE size > 0 /\ alloc
  <2>1. r = Buffer!Result(u, "OK", 0)
    BY <1>2 DEF Buffer!ResizeTagBuffer, TagOK, Contents
  <2>2. d \in [0 .. size - 1 -> Buffer!Byte]
    BY DEF TagOK, Contents
  <2>3. d \in Memories
    BY <1>2, <2>2 DEF Memories
  <2>4. \A p \in 0 .. size - 1 : p < t.size => d[p] = t.data[p]
    OBVIOUS
  <2> HIDE DEF d
  <2> DEFINE x == [t EXCEPT !.size = size]
  <2>7. x \in Contents /\ x.bo = t.bo /\ x.bit = t.bit /\ x.size = size
    BY <1>2 DEF TagOK, Contents
  <2>8. u = [x EXCEPT !.data = d]
    OBVIOUS
  <2> HIDE DEF x, u
  <2>5. u \in Contents /\ u.bo = t.bo /\ u.bit = t.bit /\ u.size = size /\ u.data = d
    BY <2>3, <2>7, <2>8 DEF Contents
  <2>6. TagOK(u)
    BY <2>2, <2>5 DEF TagOK
  <2> HIDE DEF r
  <2> QED BY <2>1, <2>4, <2>5, <2>6 DEF Buffer!Result, r, Resizes
<1> QED BY <1>1, <1>2

LEMMA SetSizeKeeps ==
  ASSUME NEW t, TagOK(t), NEW size \in Int, NEW fill \in Buffer!Byte, NEW alloc
  PROVE  TagOK(Buffer!SetSize(t, size, fill, alloc).tag)
BY ResizeKeeps DEF Resizes, Buffer!SetSize, Buffer!Result

-----------------------------------------------------------------------------
(* resize_tag_buffer_at_offset_unsafe() keeps what is before both indices, *)
(* and moves what follows the first one to the second one.                 *)
Shifts(r, t, from, to) ==
  /\ TagOK(r.tag) /\ r.tag.bo = t.bo /\ r.tag.bit = t.bit
  /\ r.rc = "OK" =>
       /\ 0 <= from /\ from <= t.size /\ 0 <= to
       /\ r.tag.size = t.size + to - from
       /\ \A p \in 0 .. t.size - 1 : p < from /\ p < to => r.tag.data[p] = t.data[p]
       /\ \A p \in from .. t.size - 1 : r.tag.data[p + to - from] = t.data[p]

MovesDown(u, t, from, to) ==
  /\ TagOK(u) /\ Same(u, t)
  /\ \A p \in 0 .. t.size - 1 : p < to => u.data[p] = t.data[p]
  /\ \A p \in from .. t.size - 1 : u.data[p + to - from] = t.data[p]

LEMMA MovedKeeps ==
  ASSUME NEW t, TagOK(t), NEW from \in Nat, NEW to \in Nat, to < from, from <= t.size
  PROVE  MovesDown(Buffer!Moved(t, from, to), t, from, to)
<1> DEFINE d == [p \in DOMAIN t.data |-> IF p >= to /\ p + from - to < t.size THEN t.data[p + from - to]
                                       ELSE t.data[p]]
           u == Buffer!Moved(t, from, to)
<1>1. u = [t EXCEPT !.data = d]
  BY DEF Buffer!Moved, TagOK, Contents
<1>2. DOMAIN t.data = 0 .. t.size - 1 /\ t.size \in Nat
  BY DEF TagOK, Contents
<1>3. d \in [DOMAIN t.data -> Buffer!Byte]
  BY <1>2, SMTT(30) DEF TagOK
<1>4. \A p \in 0 .. t.size - 1 : p < to => d[p] = t.data[p]
  BY <1>2
<1>5. \A p \in from .. t.size - 1 : d[p + to - from] = t.data[p]
  BY <1>2
<1> HIDE DEF d, u
<1>6. TagOK(u) /\ Same(u, t) /\ u.data = d
  BY <1>1, <1>3, DataKeep
<1>7. MovesDown(u, t, from, to)
  BY <1>4, <1>5, <1>6 DEF MovesDown
<1> QED BY <1>7 DEF u

LEMMA ResizeShifts ==
  ASSUME NEW t, TagOK(t), NEW from \in Int, NEW to \in Int, NEW alloc
  PROVE  Shifts(Buffer!ResizeAtOffset(t, from, to, alloc), t, from, to)
<1> DEFINE size   == t.size + to - from
           shrunk == Buffer!ResizeTagBuffer(Buffer!Moved(t, from, to), size, 0, alloc)
           grown  == Buffer!ResizeTagBuffer(t, size, 0, alloc)
           d      == [p \in DOMAIN grown.tag.data |->
                        IF p >= to THEN t.data[p + from - to] ELSE grown.tag.data[p]]
           moved  == [grown.tag EXCEPT !.data = [p \in DOMAIN @ |->
                        IF p >= to THEN t.data[p + from - to] ELSE @[p]]]
<1>1. t.size \in Nat /\ size \in Int /\ 0 \in Buffer!Byte /\ DOMAIN t.data = 0 .. t.size - 1
  BY ByteFacts DEF TagOK, Contents
<1> DEFINE Kept(u) == LET r == Buffer!ResizeTagBuffer(u, size, 0, alloc)
                      IN  /\ TagOK(r.tag) /\ r.tag.bo = u.bo /\ r.tag.bit = u.bit
                          /\ r.rc = "OK" => /\ r.tag.size = size
                                           /\ \A p \in 0 .. size - 1 : p < u.size => r.tag.data[p] = u.data[p]
<1>8. ASSUME NEW u, TagOK(u)
      PROVE  Kept(u)
  <2>1. 0 \in Buffer!Byte /\ size \in Int
    BY <1>1, ByteFacts
  <2> HIDE DEF size, Buffer!Byte
  <2>2. Resizes(u, size, 0, alloc)
    BY <1>8, <2>1, ResizeKeeps
  <2> QED BY ONLY <2>2, Zenon DEF Resizes, Kept
<1>2. Shifts(Buffer!Result(t, "OUT_OF_BOUNDS", 0), t, from, to)
  BY DEF Shifts, Buffer!Result
<1>3. ASSUME from \in 0 .. t.size /\ to = from
      PROVE  Shifts(Buffer!Result(t, "OK", 0), t, from, to)
  BY <1>1, <1>3 DEF Shifts, Buffer!Result
<1>4. ASSUME from \in 0 .. t.size /\ to \in 0 .. from - 1
      PROVE  Shifts(shrunk, t, from, to)
  <2> DEFINE u == Buffer!Moved(t, from, to)
  <2>1. /\ TagOK(u) /\ Same(u, t)
        /\ \A p \in 0 .. t.size - 1 : p < to => u.data[p] = t.data[p]
        /\ \A p \in from .. t.size - 1 : u.data[p + to - from] = t.data[p]
    <3>1. from \in Nat /\ to \in Nat /\ to < from /\ from <= t.size
      BY <1>1, <1>4
    <3> HIDE DEF u, size, shrunk, grown, d, moved, Kept
    <3>2. MovesDown(Buffer!Moved(t, from, to), t, from, to)
      BY <3>1, MovedKeeps
    <3> QED BY <3>2, Zenon DEF MovesDown, u
  <2> HIDE DEF u
  <2> DEFINE r == Buffer!ResizeTagBuffer(u, size, 0, alloc)
  <2>2. /\ TagOK(r.tag) /\ r.tag.bo = u.bo /\ r.tag.bit = u.bit
        /\ r.rc = "OK" => /\ r.tag.size = size
                         /\ \A p \in 0 .. size - 1 : p < u.size => r.tag.data[p] = u.data[p]
    BY <1>8, <2>1, Zenon
  <2> HIDE DEF r
  <2>3. Shifts(r, t, from, to)
    <3>1. ASSUME r.rc = "OK", NEW p \in 0 .. t.size - 1, p < from, p < to
          PROVE  r.tag.data[p] = t.data[p]
      <4>1. p \in 0 .. size - 1 /\ p < u.size
        BY <1>1, <1>4, <2>1, <3>1 DEF Same
      <4> QED BY <2>1, <2>2, <3>1, <4>1
    <3>2. ASSUME r.rc = "OK", NEW p \in from .. t.size - 1
          PROVE  r.tag.data[p + to - from] = t.data[p]
      <4>1. p + to - from \in 0 .. size - 1 /\ p + to - from < u.size
        BY <1>1, <1>4, <2>1, <3>2, SMTT(30) DEF Same
      <4> QED BY <2>1, <2>2, <3>2, <4>1
    <3> QED BY <1>1, <1>4, <2>1, <2>2, <3>1, <3>2 DEF Shifts, Same
  <2> QED BY <2>3 DEF r, u
<1>5. ASSUME from \in 0 .. t.size /\ to > from
      PROVE  /\ grown.rc = "OK" => Shifts(Buffer!Result(moved, "OK", 0), t, from, to)
             /\ grown.rc # "OK" => Shifts(grown, t, from, to)
  <2>1. /\ TagOK(grown.tag) /\ grown.tag.bo = t.bo /\ grown.tag.bit = t.bit
        /\ grown.rc = "OK" => /\ grown.tag.size = size
                             /\ \A p \in 0 .. size - 1 : p < t.size => grown.tag.data[p] = t.data[p]
    BY <1>8, Zenon
  <2>2. moved = [grown.tag EXCEPT !.data = d]
    BY <2>1 DEF TagOK, Contents
  <2> HIDE DEF grown
  <2>3. ASSUME grown.rc = "OK"
        PROVE  Shifts(Buffer!Result(moved, "OK", 0), t, from, to)
    <3>1. DOMAIN grown.tag.data = 0 .. size - 1
      BY <2>1, <2>3 DEF TagOK
    <3>2. d \in [DOMAIN grown.tag.data -> Buffer!Byte]
      <4>1. ASSUME NEW p \in 0 .. size - 1, p >= to
            PROVE  t.data[p + from - to] \in Buffer!Byte
        <5>1. p + from - to \in 0 .. t.size - 1
          BY <1>1, <1>5, <4>1
        <5> QED BY <5>1 DEF TagOK
      <4>2. ASSUME NEW p \in 0 .. size - 1
            PROVE  grown.tag.data[p] \in Buffer!Byte
        BY <2>1, <2>3, <3>1, <4>2 DEF TagOK
      <4> QED BY <3>1, <4>1, <4>2
    <3>3. \A p \in 0 .. t.size - 1 : p < from => d[p] = t.data[p]
      BY <1>1, <1>5, <2>1, <2>3, <3>1
    <3>4. ASSUME NEW p \in from .. t.size - 1
          PROVE  d[p + to - from] = t.data[p]
      <4>1. p + to - from \in 0 .. size - 1 /\ p + to - from >= to /\ p + to - from + from - to = p
        <5>1. p \in Int /\ from <= p /\ p <= t.size - 1 /\ from \in Int /\ to \in Int /\ 0 <= from /\ from < to
          BY <1>1, <1>5, <3>4
        <5>2. p + to - from >= to /\ p + to - from + from - to = p /\ p + to - from <= size - 1
          BY <1>1, <5>1
        <5> QED BY <1>1, <5>1, <5>2
      <4>2. \A q \in 0 .. size - 1 : q >= to => d[q] = t.data[q + from - to]
        BY <3>1
      <4> HIDE DEF d, size
      <4>3. d[p + to - from] = t.data[p + to - from + from - to]
        BY <4>1, <4>2, Zenon
      <4> QED BY <4>1, <4>3, Zenon
    <3> HIDE DEF d, moved
    <3>5. TagOK(moved) /\ Same(moved, grown.tag) /\ moved.data = d
      BY <2>1, <2>2, <3>2, DataKeep
    <3> QED BY <1>1, <1>5, <2>1, <2>3, <3>3, <3>4, <3>5, SMTT(30) DEF Shifts, Buffer!Result, Same
  <2>4. ASSUME grown.rc # "OK"
        PROVE  Shifts(grown, t, from, to)
    BY <2>1, <2>4 DEF Shifts
  <2> QED BY <2>3, <2>4
<1>6. from < 0 \/ from > t.size \/ to < 0 \/ to = from \/ to \in 0 .. from - 1 \/ to > from
  BY <1>1
<1>7. from < 0 \/ from > t.size \/ to < 0 \/ from \in 0 .. t.size
  BY <1>1
<1> QED BY <1>2, <1>3, <1>4, <1>5, <1>6, <1>7, Zenon DEF Buffer!ResizeAtOffset

-----------------------------------------------------------------------------
(* The lengths of strings are numbers. *)
LEMMA WordIsNat ==
  ASSUME NEW t, TagOK(t), NEW w \in 1 .. 8, NEW f \in Orders(w), NEW o \in Int, Buffer!Fits(t, o, w)
  PROVE  Buffer!Word(t, f, o) \in Nat
<1> DEFINE byte(i) == IF i \in DOMAIN f THEN t.data[o + f[i]] * Buffer!Power(i - 1) ELSE 0
<1>1. ASSUME NEW i \in 1 .. 8
      PROVE  byte(i) \in Nat
  <2>1. CASE i \in DOMAIN f
    <3>1. f[i] \in 0 .. w - 1
      BY <2>1, OrderFacts
    <3>2. o + f[i] \in 0 .. t.size - 1
      BY <3>1, SMTT(30) DEF Buffer!Fits, TagOK, Contents
    <3>3. t.data[o + f[i]] \in Nat
      BY <3>2, ByteFacts DEF TagOK
    <3>4. Buffer!Power(i - 1) \in Nat
      BY PowerFacts
    <3>5. t.data[o + f[i]] * Buffer!Power(i - 1) \in Nat
      BY <3>3, <3>4
    <3> QED BY <2>1, <3>5
  <2> QED BY <2>1
<1>2. Buffer!Word(t, f, o) = byte(1) + byte(2) + byte(3) + byte(4) + byte(5) + byte(6) + byte(7) + byte(8)
  BY DEF Buffer!Word
<1> HIDE DEF byte
<1> QED BY <1>1, <1>2

LEMMA SignedIsInt ==
  ASSUME NEW w \in 0 .. 8, NEW v \in Nat
  PROVE  Buffer!Signed(v, w) \in Int
BY PowerFacts DEF Buffer!Signed, Buffer!Limit

LEMMA LengthIsInt ==
  ASSUME NEW t, TagOK(t), NEW o \in Int, Buffer!StringRoom(t, o)
  PROVE  Buffer!StringLength(t, o) \in Int
<1> DEFINE last == t.size - o - t.bo.count
           ends == {i \in 0 .. last : i = last \/ t.data[Buffer!CharAt(t, o, i)] = 0}
<1>1. /\ t.size \in Nat /\ t.bo \in ByteOrders /\ t.bo.count \in Nat /\ o >= 0
      /\ o + t.bo.count <= t.size
  BY SMTT(30) DEF TagOK, Contents, ByteOrders, Buffer!StringRoom
<1>2. ASSUME t.bo.count = 1
      PROVE  t.data[o] \in Int
  <2>1. o \in 0 .. t.size - 1
    BY <1>1, <1>2
  <2>2. t.data[o] \in Buffer!Byte
    BY <2>1 DEF TagOK
  <2>3. \A x \in Buffer!Byte : x \in Int
    BY ByteFacts
  <2> HIDE DEF Buffer!Byte
  <2> QED BY <2>2, <2>3, Zenon
<1>3. ASSUME t.bo.count = 2
      PROVE  Buffer!Signed(Buffer!Word(t, t.bo.int16, o), 2) \in Int
  BY <1>1, <1>3, WordIsNat, SignedIsInt DEF ByteOrders, Buffer!Fits
<1>4. ASSUME t.bo.count = 4
      PROVE  Buffer!Signed(Buffer!Word(t, t.bo.int32, o), 4) \in Int
  BY <1>1, <1>4, WordIsNat, SignedIsInt DEF ByteOrders, Buffer!Fits
<1>5. Buffer!Min(ends) \in Int
  <2>1. last \in ends /\ ends \subseteq Nat
    BY <1>1
  <2> HIDE DEF ends
  <2>2. PICK i \in ends : \A j \in ends : ~(<<j, i>> \in OpToRel(<, Nat))
    BY <2>1, NatLessThanWellFounded, WFMin
  <2>3. \A j \in ends : ~(j < i)
    BY <2>1, <2>2 DEF OpToRel
  <2>4. \A j \in ends : i <= j
    BY <2>1, <2>3
  <2>5. (CHOOSE x \in ends : \A y \in ends : x <= y) \in ends
    BY <2>2, <2>4, Zenon
  <2>6. Buffer!Min(ends) \in ends
    BY <2>5, Zenon DEF Buffer!Min
  <2>7. \A x \in ends : x \in Int
    BY <2>1
  <2> QED BY <2>6, <2>7
<1>6. 0 \in Int
  OBVIOUS
<1> QED BY <1>2, <1>3, <1>4, <1>5, <1>6, Zenon DEF Buffer!StringLength

LEMMA TotalIsInt ==
  ASSUME NEW t, TagOK(t), NEW o \in Int, Buffer!StringRoom(t, o)
  PROVE  Buffer!TotalLength(t, o) \in Int
<1>1. Buffer!StringLength(t, o) \in Int
  BY LengthIsInt
<1>2. t.bo.count \in Int /\ t.bo.cap \in Int /\ t.bo.zero \in Int /\ t.bo.pad \in Int
  BY SMTT(30) DEF TagOK, Contents, ByteOrders
<1> QED BY <1>1, <1>2 DEF Buffer!TotalLength

-----------------------------------------------------------------------------
(* Each part of plc_tag_set_string() stays within its own bytes. *)
Within(u, t, own) ==
  /\ TagOK(u) /\ Same(u, t)
  /\ \A p \in DOMAIN t.data : p \notin own => u.data[p] = t.data[p]

LEMMA DataWithin ==
  ASSUME NEW t, TagOK(t), NEW d \in [DOMAIN t.data -> Buffer!Byte], NEW own,
         \A p \in DOMAIN t.data : p \notin own => d[p] = t.data[p]
  PROVE  Within([t EXCEPT !.data = d], t, own)
<1> DEFINE u == [t EXCEPT !.data = d]
<1>1. TagOK(u) /\ Same(u, t) /\ u.data = d
  BY DataKeep
<1> HIDE DEF u
<1>2. Within(u, t, own)
  BY <1>1 DEF Within
<1> QED BY <1>2 DEF u

LEMMA StopsWithin ==
  ASSUME NEW t, TagOK(t), NEW code \in Codes, NEW own
  PROVE  Within(Buffer!Stops(t, code, 0).tag, t, own)
BY StopsKeep DEF Within

LEMMA ResultWithin ==
  ASSUME NEW t, TagOK(t), NEW code, NEW own
  PROVE  Within(Buffer!Result(t, code, 0).tag, t, own)
BY DEF Within, Same, Buffer!Result

LEMMA WithinTwice ==
  ASSUME NEW t, TagOK(t), NEW u, NEW x, NEW own, Within(u, t, own), Within(x, u, own)
  PROVE  Within(x, t, own)
<1>1. DOMAIN t.data = 0 .. t.size - 1 /\ DOMAIN u.data = 0 .. u.size - 1 /\ u.size = t.size
  BY DEF Within, Same, TagOK
<1> QED BY <1>1 DEF Within, Same

LEMMA ClearedWithin ==
  ASSUME NEW t, TagOK(t), NEW o \in Int, NEW n \in Int
  PROVE  Within(Buffer!Cleared(t, o, n), t, o .. o + n - 1)
<1> DEFINE d == [p \in DOMAIN t.data |-> IF p \in o .. o + n - 1 THEN 0 ELSE t.data[p]]
<1>1. Buffer!Cleared(t, o, n) = [t EXCEPT !.data = d]
  BY DEF Buffer!Cleared, TagOK, Contents
<1>2. d \in [DOMAIN t.data -> Buffer!Byte]
  BY ByteFacts DEF TagOK
<1>3. \A p \in DOMAIN t.data : p \notin o .. o + n - 1 => d[p] = t.data[p]
  OBVIOUS
<1> HIDE DEF d
<1> QED BY <1>1, <1>2, <1>3, DataWithin

LEMMA CountedWithin ==
  ASSUME NEW t, TagOK(t), NEW o \in Nat, NEW len \in Nat
  PROVE  Within(Buffer!Counted(t, o, len).tag, t, IF t.bo.counted = 1 THEN o .. o + t.bo.count - 1 ELSE {})
<1> DEFINE order == CASE t.bo.count = 2 -> t.bo.int16 [] t.bo.count = 4 -> t.bo.int32 [] OTHER -> Buffer!Little(1)
           own == IF t.bo.counted = 1 THEN o .. o + t.bo.count - 1 ELSE {}
           stored == Buffer!Store(t, order, o, len)
<1>1. t.bo \in ByteOrders /\ t.size \in Nat /\ t.bo.count \in Nat /\ t.bo.counted \in {0, 1}
  BY DEF TagOK, Contents, ByteOrders
<1>2. ASSUME t.bo.counted = 1, t.bo.count \in {1, 2, 4}
      PROVE  Within(Buffer!Result(stored, "OK", 0).tag, t, own)
  <2>0. Buffer!Little(1) \in Orders(1)
    BY DEF Orders, Buffer!Little
  <2>1. t.bo.int16 \in Orders(2) /\ t.bo.int32 \in Orders(4) /\ Buffer!Little(1) \in Orders(1)
    BY <1>1, <2>0 DEF ByteOrders
  <2>2. 1 # 2 /\ 1 # 4 /\ 2 # 4
    OBVIOUS
  <2>3. order \in Orders(t.bo.count)
    BY <1>2, <2>1, <2>2, Zenon
  <2> HIDE DEF order
  <2>4. t.bo.count \in 1 .. 8
    BY <1>2
  <2>5. /\ TagOK(stored) /\ Same(stored, t)
        /\ \A p \in DOMAIN t.data : p \notin o .. o + t.bo.count - 1 => stored.data[p] = t.data[p]
    BY <2>3, <2>4, StoreKeep
  <2> HIDE DEF stored
  <2> QED BY <1>2, <2>5 DEF Within, Buffer!Result
<1>3. \A code \in Codes : Within(Buffer!Stops(t, code, 0).tag, t, own)
  BY StopsWithin
<1>4. Within(Buffer!Result(t, "OK", 0).tag, t, own)
  BY ResultWithin
<1>5. o + t.bo.count > t.size \/ o + t.bo.count <= t.size
  BY <1>1
<1>6. t.bo.counted = 0 \/ t.bo.counted = 1
  BY <1>1
<1> HIDE DEF own
<1>7. Within(Buffer!Counted(t, o, len).tag, t, own)
  BY <1>2, <1>3, <1>4, <1>5, <1>6, CodeFacts, Zenon DEF Buffer!Counted
<1> QED BY <1>7 DEF own

LEMMA CopiedWithin ==
  ASSUME NEW t, TagOK(t), NEW start, NEW s \in Seq(Buffer!Byte)
  PROVE  Within(Buffer!Copied(t, start, s).tag, t, {start + Buffer!Swap(t, i) : i \in 0 .. Len(s) - 1})
<1> DEFINE own    == {start + Buffer!Swap(t, i) : i \in 0 .. Len(s) - 1}
           in(i)  == start + Buffer!Swap(t, i) < t.size
           copies == {i \in 0 .. Len(s) - 1 : \A j \in 0 .. i : in(j)}
           target == [p \in DOMAIN t.data |-> {i \in copies : p = start + Buffer!Swap(t, i)}]
           d      == [p \in DOMAIN t.data |->
                        IF target[p] = {} THEN t.data[p] ELSE s[(CHOOSE i \in target[p] : TRUE) + 1]]
           done   == [t EXCEPT !.data = d]
<1>1. \/ Buffer!Copied(t, start, s) = Buffer!Result(done, "OK", 0)
      \/ Buffer!Copied(t, start, s) = Buffer!Stops(done, "OUT_OF_BOUNDS", 0)
  BY SMTT(30) DEF Buffer!Copied, TagOK, Contents
<1>2. ASSUME NEW p \in DOMAIN t.data, target[p] # {}
      PROVE  s[(CHOOSE i \in target[p] : TRUE) + 1] \in Buffer!Byte /\ p \in own
  <2> DEFINE i == CHOOSE i \in target[p] : TRUE
  <2>1. i \in target[p]
    BY <1>2, Zenon
  <2> HIDE DEF i
  <2>2. i \in 0 .. Len(s) - 1 /\ p = start + Buffer!Swap(t, i)
    BY <2>1
  <2>3. s[i + 1] \in Buffer!Byte
    BY <2>2
  <2> QED BY <2>2, <2>3 DEF i
<1> HIDE DEF target, own
<1>3. d \in [DOMAIN t.data -> Buffer!Byte]
  BY <1>2 DEF TagOK
<1>4. \A p \in DOMAIN t.data : p \notin own => d[p] = t.data[p]
  BY <1>2
<1> HIDE DEF d
<1>5. Within(done, t, own)
  BY <1>3, <1>4, DataWithin
<1> HIDE DEF done
<1>6. Within(Buffer!Result(done, "OK", 0).tag, t, own)
  BY <1>5 DEF Buffer!Result
<1>7. Within(Buffer!Stops(done, "OUT_OF_BOUNDS", 0).tag, t, own)
  <2>1. TagOK(done)
    BY <1>5 DEF Within
  <2>2. Within(Buffer!Stops(done, "OUT_OF_BOUNDS", 0).tag, done, own)
    BY <2>1, StopsWithin, CodeFacts
  <2> QED BY <1>5, <2>2, WithinTwice
<1> QED BY <1>1, <1>6, <1>7 DEF own

LEMMA TerminatedWithin ==
  ASSUME NEW t, TagOK(t), NEW p \in Nat
  PROVE  Within(Buffer!Terminated(t, p).tag, t, IF t.bo.zero = 1 THEN {p} ELSE {})
<1> DEFINE own == IF t.bo.zero = 1 THEN {p} ELSE {}
           d == [t.data EXCEPT ![p] = 0]
<1>1. t.size \in Nat /\ DOMAIN t.data = 0 .. t.size - 1
  BY DEF TagOK, Contents
<1>2. ASSUME t.bo.zero = 1, p < t.size
      PROVE  Within(Buffer!Result([t EXCEPT !.data[p] = 0], "OK", 0).tag, t, own)
  <2>1. [t EXCEPT !.data[p] = 0] = [t EXCEPT !.data = d]
    BY DEF TagOK, Contents
  <2>2. d \in [DOMAIN t.data -> Buffer!Byte] /\ \A x \in DOMAIN t.data : x \notin own => d[x] = t.data[x]
    BY <1>2, ByteFacts DEF TagOK
  <2> HIDE DEF d, own
  <2> QED BY <2>1, <2>2, DataWithin DEF Buffer!Result
<1>3. \A code : Within(Buffer!Result(t, code, 0).tag, t, own)
  BY ResultWithin
<1> HIDE DEF own
<1>4. Within(Buffer!Terminated(t, p).tag, t, own)
  BY <1>2, <1>3, Zenon DEF Buffer!Terminated
<1> QED BY <1>4 DEF own

-----------------------------------------------------------------------------
(* plc_tag_set_string(): its parts one after the other *)
Old(t, o)       == Buffer!TotalLength(t, o)
New(t, s)       == Buffer!NewTotalLength(t, s)
Start(t, o)     == o + (IF t.bo.counted = 1 THEN t.bo.count ELSE 0)
PartResized(t, o, s, alloc) == Buffer!ResizeAtOffset(t, o + Old(t, o), o + New(t, s), alloc)
PartCounted(t, o, s, alloc) == Buffer!Counted(Buffer!Cleared(PartResized(t, o, s, alloc).tag, o, New(t, s)), o, Len(s))
PartCopied(t, o, s, alloc)  == Buffer!Copied(PartCounted(t, o, s, alloc).tag, Start(t, o), s)
PartEnded(t, o, s, alloc)   == Buffer!Terminated(PartCopied(t, o, s, alloc).tag, Start(t, o) + Len(s))

LEMMA NewIsInt ==
  ASSUME NEW t, TagOK(t), NEW s \in Seq(Buffer!Byte)
  PROVE  New(t, s) \in Int
<1>1. /\ t.bo.count \in Int /\ t.bo.total \in Int /\ t.bo.zero \in Int /\ t.bo.pad \in Int
      /\ Len(s) \in Nat
  BY SMTT(30) DEF TagOK, Contents, ByteOrders
<1> DEFINE odd == IF t.bo.swapped = 1 THEN Len(s) % 2 ELSE 0
<1>2. odd \in Int
  BY <1>1
<1> HIDE DEF odd
<1>3. (IF t.bo.fixed = 1 THEN t.bo.total ELSE Len(s) + t.bo.count + t.bo.zero + t.bo.pad + odd) \in Int
  BY <1>1, <1>2, SMTT(30)
<1> QED BY <1>3, Zenon DEF New, Buffer!NewTotalLength, odd

(* What the parts do, one by one *)
LEMMA PartsKeep ==
  ASSUME NEW t, TagOK(t), NEW o \in Int, Buffer!StringRoom(t, o), NEW s \in Seq(Buffer!Byte), NEW alloc
  PROVE  LET resized == PartResized(t, o, s, alloc)
             cleared == Buffer!Cleared(resized.tag, o, New(t, s))
             counted == PartCounted(t, o, s, alloc)
             copied  == PartCopied(t, o, s, alloc)
             ended   == PartEnded(t, o, s, alloc)
         IN  /\ Shifts(resized, t, o + Old(t, o), o + New(t, s))
             /\ Within(cleared, resized.tag, o .. o + New(t, s) - 1)
             /\ Within(counted.tag, cleared, IF t.bo.counted = 1 THEN o .. o + t.bo.count - 1 ELSE {})
             /\ Within(copied.tag, counted.tag,
                       {Start(t, o) + Buffer!Swap(counted.tag, i) : i \in 0 .. Len(s) - 1})
             /\ Within(ended.tag, copied.tag, IF t.bo.zero = 1 THEN {Start(t, o) + Len(s)} ELSE {})
             /\ counted.tag.bo = t.bo
<1> DEFINE resized == PartResized(t, o, s, alloc)
           cleared == Buffer!Cleared(resized.tag, o, New(t, s))
           counted == PartCounted(t, o, s, alloc)
           copied  == PartCopied(t, o, s, alloc)
           ended   == PartEnded(t, o, s, alloc)
<1>1. Old(t, o) \in Int /\ New(t, s) \in Int /\ o \in Nat /\ Len(s) \in Nat
  BY TotalIsInt, NewIsInt DEF Old, Buffer!StringRoom
<1>2. Start(t, o) \in Nat
  BY <1>1, SMTT(30) DEF Start, TagOK, Contents, ByteOrders
<1>3. Shifts(resized, t, o + Old(t, o), o + New(t, s))
  BY <1>1, ResizeShifts DEF PartResized
<1> HIDE DEF resized
<1>4. TagOK(resized.tag) /\ resized.tag.bo = t.bo
  BY <1>3 DEF Shifts
<1>5. Within(cleared, resized.tag, o .. o + New(t, s) - 1)
  BY <1>1, <1>4, ClearedWithin
<1>6. TagOK(cleared) /\ cleared.bo = t.bo
  BY <1>4, <1>5 DEF Within, Same
<1>7. counted = Buffer!Counted(cleared, o, Len(s))
  BY DEF PartCounted, resized
<1> HIDE DEF cleared, counted
<1>8. Within(counted.tag, cleared, IF t.bo.counted = 1 THEN o .. o + t.bo.count - 1 ELSE {})
  BY <1>1, <1>6, <1>7, CountedWithin
<1>9. TagOK(counted.tag) /\ counted.tag.bo = t.bo
  BY <1>6, <1>8 DEF Within, Same
<1>10. copied = Buffer!Copied(counted.tag, Start(t, o), s)
  BY DEF PartCopied, counted
<1> HIDE DEF copied
<1>11. Within(copied.tag, counted.tag, {Start(t, o) + Buffer!Swap(counted.tag, i) : i \in 0 .. Len(s) - 1})
  BY <1>9, <1>10, CopiedWithin
<1>12. TagOK(copied.tag) /\ copied.tag.bo = t.bo
  BY <1>9, <1>11 DEF Within, Same
<1>13. ended = Buffer!Terminated(copied.tag, Start(t, o) + Len(s))
  BY DEF PartEnded, copied
<1>14. Start(t, o) + Len(s) \in Nat
  BY <1>1, <1>2
<1> HIDE DEF ended
<1>15. Within(ended.tag, copied.tag, IF t.bo.zero = 1 THEN {Start(t, o) + Len(s)} ELSE {})
  <2>1. Within(Buffer!Terminated(copied.tag, Start(t, o) + Len(s)).tag, copied.tag,
               IF copied.tag.bo.zero = 1 THEN {Start(t, o) + Len(s)} ELSE {})
    BY <1>12, <1>14, TerminatedWithin
  <2> QED BY <1>12, <1>13, <2>1, Zenon
<1> QED BY <1>3, <1>5, <1>8, <1>9, <1>11, <1>15, Zenon DEF resized, cleared, counted, copied, ended

(* How plc_tag_set_string() ends: with the code of the part that fails, or *)
(* with all of them done.                                                  *)
Failed(r, t, o, s, alloc) ==
  /\ r.rc # "OK"
  /\ \/ \E code : r = Buffer!Result(t, code, 0)
     \/ \E code \in Codes : r = Buffer!Stops(t, code, 0)
     \/ r = PartResized(t, o, s, alloc)
     \/ r = PartCounted(t, o, s, alloc)
     \/ r = PartCopied(t, o, s, alloc)
     \/ r = PartEnded(t, o, s, alloc)

Finished(r, t, o, s, alloc) ==
  /\ r = Buffer!Result(Buffer!Touch(PartEnded(t, o, s, alloc).tag), "OK", 0)
  /\ t.bo.defined /\ t.bit = Buffer!NoBit
  /\ PartResized(t, o, s, alloc).rc = "OK" /\ PartCounted(t, o, s, alloc).rc = "OK"
  /\ PartCopied(t, o, s, alloc).rc = "OK" /\ PartEnded(t, o, s, alloc).rc = "OK"
  /\ t.bo.cap # 0 => Len(s) <= t.bo.cap
  /\ Old(t, o) >= 0

LEMMA SetStringForms ==
  ASSUME NEW t, TagOK(t), NEW o \in Int, Buffer!StringRoom(t, o), NEW s \in Seq(Buffer!Byte), NEW alloc
  PROVE  \/ Failed(Buffer!SetString(t, o, s, alloc), t, o, s, alloc)
         \/ Finished(Buffer!SetString(t, o, s, alloc), t, o, s, alloc)
<1> DEFINE Fine(x) == Failed(x, t, o, s, alloc) \/ Finished(x, t, o, s, alloc)
           resized == PartResized(t, o, s, alloc)
           counted == PartCounted(t, o, s, alloc)
           copied  == PartCopied(t, o, s, alloc)
           ended   == PartEnded(t, o, s, alloc)
           long    == t.bo.cap # 0 /\ Len(s) > t.bo.cap
<1>1. Fine(Buffer!Stops(t, "UNSUPPORTED", 0)) /\ Fine(Buffer!Stops(t, "TOO_LARGE", 0))
  <2>1. Buffer!Stops(t, "UNSUPPORTED", 0).rc # "OK" /\ Buffer!Stops(t, "TOO_LARGE", 0).rc # "OK"
    BY DEF Buffer!Stops, Buffer!Result
  <2> QED BY <2>1, CodeFacts, Zenon DEF Failed
<1>2. Fine(Buffer!Result(t, "BAD_COUNT", 0)) /\ Fine(Buffer!Result(t, "NOT_ALLOWED", 0))
  <2>1. Buffer!Result(t, "BAD_COUNT", 0).rc # "OK" /\ Buffer!Result(t, "NOT_ALLOWED", 0).rc # "OK"
    BY DEF Buffer!Result
  <2> QED BY <2>1, Zenon DEF Failed
<1>3. /\ resized.rc # "OK" => Fine(resized)
      /\ counted.rc # "OK" => Fine(counted)
      /\ copied.rc # "OK" => Fine(copied)
      /\ ended.rc # "OK" => Fine(ended)
  BY Zenon DEF Failed
<1>4. ~long => (t.bo.cap # 0 => Len(s) <= t.bo.cap)
  BY SMTT(30) DEF TagOK, Contents, ByteOrders
<1>5. ASSUME t.bo.defined, t.bit = Buffer!NoBit, ~long, Old(t, o) >= 0,
             resized.rc = "OK", counted.rc = "OK", copied.rc = "OK", ended.rc = "OK"
      PROVE  Fine(Buffer!Result(Buffer!Touch(ended.tag), "OK", 0))
  <2>1. t.bo.cap # 0 => Len(s) <= t.bo.cap
    BY <1>4, <1>5, Zenon
  <2>2. Finished(Buffer!Result(Buffer!Touch(ended.tag), "OK", 0), t, o, s, alloc)
    BY <1>5, <2>1, Zenon DEF Finished
  <2> QED BY <2>2, Zenon
<1>6. Buffer!TotalLength(t, o) < 0 \/ Buffer!TotalLength(t, o) >= 0
  BY TotalIsInt
<1>7. t.bo.defined \in BOOLEAN
  BY DEF TagOK, Contents, ByteOrders
<1> HIDE DEF Fine
<1>8. Fine(Buffer!SetString(t, o, s, alloc))
  BY <1>1, <1>2, <1>3, <1>5, <1>6, Zenon
  DEF Buffer!SetString, PartResized, PartCounted, PartCopied, PartEnded, Old, New, Start
<1> QED BY <1>8, Zenon DEF Fine

LEMMA SetStringKeeps ==
  ASSUME NEW t, TagOK(t), NEW o \in Int, Buffer!StringRoom(t, o), NEW s \in Seq(Buffer!Byte), NEW alloc
  PROVE  TagOK(Buffer!SetString(t, o, s, alloc).tag)
<1> DEFINE r       == Buffer!SetString(t, o, s, alloc)
           resized == PartResized(t, o, s, alloc)
           counted == PartCounted(t, o, s, alloc)
           copied  == PartCopied(t, o, s, alloc)
           ended   == PartEnded(t, o, s, alloc)
<1>1. TagOK(resized.tag) /\ TagOK(counted.tag) /\ TagOK(copied.tag) /\ TagOK(ended.tag)
  BY PartsKeep, Zenon DEF Shifts, Within
<1>2. TagOK(Buffer!Touch(ended.tag))
  BY <1>1, TouchKeep
<1>3. \A code \in Codes : TagOK(Buffer!Stops(t, code, 0).tag)
  BY StopsKeep
<1>4. \A code : TagOK(Buffer!Result(t, code, 0).tag)
  BY DEF Buffer!Result
<1>5. \/ \E code : r = Buffer!Result(t, code, 0)
      \/ \E code \in Codes : r = Buffer!Stops(t, code, 0)
      \/ r = resized \/ r = counted \/ r = copied \/ r = ended
      \/ r = Buffer!Result(Buffer!Touch(ended.tag), "OK", 0)
  BY SetStringForms, ZenonT(60) DEF Failed, Finished
<1>6. Buffer!Result(Buffer!Touch(ended.tag), "OK", 0).tag = Buffer!Touch(ended.tag)
  BY DEF Buffer!Result
<1> HIDE DEF r, resized, counted, copied, ended
<1>7. TagOK(r.tag)
  BY <1>1, <1>2, <1>3, <1>4, <1>5, <1>6, Zenon
<1> QED BY <1>7 DEF r

LEMMA SwapForms ==
  ASSUME NEW t, TagOK(t), NEW i
  PROVE  Buffer!Swap(t, i) = IF t.bo.swapped = 0 THEN i ELSE IF i % 2 = 1 THEN i - 1 ELSE i + 1
<1>1. t.bo.swapped = 0 \/ t.bo.swapped = 1
  BY DEF TagOK, Contents, ByteOrders
<1>2. 0 # 1
  OBVIOUS
<1> QED BY <1>1, <1>2, Zenon DEF Buffer!Swap

(* The new string, with its count word and its terminator, fits in its new *)
(* length.                                                                 *)
LEMMA StringFits ==
  ASSUME NEW t, TagOK(t), Capped(t.bo), ~(t.bo.swapped = 1 /\ t.bo.cap % 2 = 1), NEW o \in Nat,
         NEW s \in Seq(Buffer!Byte), t.bo.cap # 0 => Len(s) <= t.bo.cap
  PROVE  /\ New(t, s) \in Nat
         /\ t.bo.counted = 1 => t.bo.count <= New(t, s)
         /\ \A i \in 0 .. Len(s) - 1 : Start(t, o) + Buffer!Swap(t, i) \in o .. o + New(t, s) - 1
         /\ t.bo.zero = 1 => Start(t, o) + Len(s) \in o .. o + New(t, s) - 1
<1> DEFINE len == Len(s)
           count == t.bo.count
           whole == t.bo.total
           zero == t.bo.zero
           pad == t.bo.pad
           cap == t.bo.cap
           odd == IF t.bo.swapped = 1 THEN len % 2 ELSE 0
           n   == New(t, s)
           start == Start(t, o)
<1>1. /\ count \in Nat /\ whole \in Nat /\ zero \in {0, 1} /\ pad \in Nat /\ cap \in Nat /\ len \in Nat
      /\ t.bo.fixed \in {0, 1} /\ t.bo.swapped \in {0, 1} /\ t.bo.counted \in {0, 1}
      /\ t.bo.fixed = 1 => zero + cap + count + pad <= whole
  BY SMTT(30) DEF TagOK, Contents, ByteOrders, Layout
<1>2. odd \in {0, 1} /\ (t.bo.swapped = 1 => odd = len % 2) /\ (t.bo.swapped = 0 => odd = 0)
  BY <1>1
<1>3. n = IF t.bo.fixed = 1 THEN whole ELSE len + count + zero + pad + odd
  BY Zenon DEF New, Buffer!NewTotalLength
<1>4. t.bo.fixed = 1 => cap # 0 /\ len <= cap
  BY Zenon DEF Capped
<1>5. t.bo.swapped = 1 => cap % 2 # 1
  OBVIOUS
<1>6. start \in Nat /\ o <= start /\ start <= o + count
  BY <1>1, SMTT(30) DEF Start
<1>7. \A i : Buffer!Swap(t, i) = IF t.bo.swapped = 0 THEN i ELSE IF i % 2 = 1 THEN i - 1 ELSE i + 1
  BY SwapForms
<1> HIDE DEF len, count, whole, zero, pad, cap, odd, n, start
<1>8. t.bo.fixed = 1 => len + odd <= cap
  BY <1>1, <1>2, <1>4, <1>5
<1>9. len + odd + zero + count <= n /\ n \in Nat
  <2>1. CASE t.bo.fixed = 0
    <3>1. n = len + count + zero + pad + odd
      BY <1>3, <2>1
    <3> QED BY <1>1, <1>2, <3>1
  <2>2. CASE t.bo.fixed = 1
    <3>1. n = whole
      BY <1>3, <2>2
    <3> QED BY <1>1, <1>2, <1>8, <2>2, <3>1
  <2> QED BY <1>1, <2>1, <2>2
<1>10. ASSUME NEW i \in 0 .. len - 1
       PROVE  start + Buffer!Swap(t, i) \in o .. o + n - 1
  <2>1. Buffer!Swap(t, i) \in 0 .. len + odd - 1
    <3>1. CASE t.bo.swapped = 0
      BY <1>1, <1>2, <1>7, <1>10, <3>1
    <3>2. CASE t.bo.swapped = 1
      BY <1>1, <1>2, <1>7, <1>10, <3>2, SMTT(30)
    <3> QED BY <1>1, <3>1, <3>2
  <2>2. PICK w \in 0 .. len + odd - 1 : w = Buffer!Swap(t, i)
    BY <2>1
  <2>3. start + w \in o .. o + n - 1
    BY <1>1, <1>2, <1>6, <1>9
  <2> QED BY <2>2, <2>3
<1>11. zero = 1 => start + len \in o .. o + n - 1
  BY <1>1, <1>2, <1>6, <1>9, SMTT(30)
<1>12. count <= n
  BY <1>1, <1>2, <1>9, SMTT(30)
<1> QED BY <1>9, <1>10, <1>11, <1>12, Zenon DEF len, n, start, zero, count

LEMMA WithinWider ==
  ASSUME NEW t, NEW u, NEW own, NEW wider, own \subseteq wider, Within(u, t, own)
  PROVE  Within(u, t, wider)
BY Zenon DEF Within

LEMMA SetStringNeighbours ==
  ASSUME NEW t, TagOK(t), Capped(t.bo), ~(t.bo.swapped = 1 /\ t.bo.cap % 2 = 1), NEW o \in Int,
         Buffer!StringRoom(t, o), NEW s \in Seq(Buffer!Byte), NEW alloc,
         Buffer!SetString(t, o, s, alloc).rc = "OK"
  PROVE  LET set == Buffer!SetString(t, o, s, alloc)
             by  == set.tag.size - t.size
         IN  /\ \A p \in 0 .. o - 1 : set.tag.data[p] = t.data[p]
             /\ \A p \in o + Buffer!TotalLength(t, o) .. t.size - 1 : set.tag.data[p + by] = t.data[p]
<1> DEFINE set == Buffer!SetString(t, o, s, alloc)
           resized == PartResized(t, o, s, alloc)
           cleared == Buffer!Cleared(resized.tag, o, New(t, s))
           counted == PartCounted(t, o, s, alloc)
           copied  == PartCopied(t, o, s, alloc)
           ended   == PartEnded(t, o, s, alloc)
           area    == o .. o + New(t, s) - 1
           word    == IF t.bo.counted = 1 THEN o .. o + t.bo.count - 1 ELSE {}
           chars   == {Start(t, o) + Buffer!Swap(counted.tag, i) : i \in 0 .. Len(s) - 1}
           last    == IF t.bo.zero = 1 THEN {Start(t, o) + Len(s)} ELSE {}
<1>1. /\ set = Buffer!Result(Buffer!Touch(ended.tag), "OK", 0) /\ resized.rc = "OK"
      /\ t.bo.cap # 0 => Len(s) <= t.bo.cap
      /\ Old(t, o) >= 0
  BY SetStringForms, Zenon DEF Failed, Finished
<1>2. o \in Nat /\ New(t, s) \in Int /\ Old(t, o) \in Int /\ t.size \in Nat
  BY NewIsInt, TotalIsInt DEF Old, Buffer!StringRoom, TagOK, Contents
<1>3. /\ Shifts(resized, t, o + Old(t, o), o + New(t, s))
      /\ Within(cleared, resized.tag, area)
      /\ Within(counted.tag, cleared, word)
      /\ Within(copied.tag, counted.tag, chars)
      /\ Within(ended.tag, copied.tag, last)
      /\ counted.tag.bo = t.bo
  BY PartsKeep, ZenonT(60)
<1>4. /\ t.bo.counted = 1 => t.bo.count <= New(t, s)
      /\ \A i \in 0 .. Len(s) - 1 : Start(t, o) + Buffer!Swap(t, i) \in area
      /\ t.bo.zero = 1 => Start(t, o) + Len(s) \in area
  BY <1>1, <1>2, StringFits
<1> HIDE DEF set, resized, cleared, counted, copied, ended
<1>5. word \subseteq area
  <2>1. t.bo.count \in Nat
    BY SMTT(30) DEF TagOK, Contents, ByteOrders
  <2>2. CASE t.bo.counted = 1
    <3>1. \A c, n \in Int : c <= n => o .. o + c - 1 \subseteq o .. o + n - 1
      BY <1>2
    <3>2. o .. o + t.bo.count - 1 \subseteq area
      BY <1>2, <1>4, <2>1, <2>2, <3>1, SMTT(30)
    <3> QED BY <2>2, <3>2, Zenon
  <2>3. CASE t.bo.counted # 1
    BY <2>3, Zenon
  <2> QED BY <2>2, <2>3
<1>6. chars \subseteq area
  <2>1. \A i : Buffer!Swap(counted.tag, i) = Buffer!Swap(t, i)
    BY <1>3, Zenon DEF Buffer!Swap
  <2> HIDE DEF area
  <2> QED BY <1>4, <2>1
<1>7. last \subseteq area
  BY <1>4, Zenon
<1>8. \A p \in Int : p \in area <=> o <= p /\ p < o + New(t, s)
  BY <1>2
<1> HIDE DEF area, word, chars, last
<1>9. TagOK(resized.tag) /\ TagOK(cleared) /\ TagOK(counted.tag) /\ TagOK(copied.tag) /\ TagOK(ended.tag)
  BY <1>3, Zenon DEF Shifts, Within
<1>10. Within(ended.tag, resized.tag, area)
  <2>1. Within(counted.tag, cleared, area)
    BY <1>3, <1>5, WithinWider, Zenon
  <2>2. Within(copied.tag, counted.tag, area)
    BY <1>3, <1>6, WithinWider, Zenon
  <2>3. Within(ended.tag, copied.tag, area)
    BY <1>3, <1>7, WithinWider, Zenon
  <2>4. Within(counted.tag, resized.tag, area)
    BY <1>3, <1>9, <2>1, WithinTwice, Zenon
  <2>5. Within(copied.tag, resized.tag, area)
    BY <1>9, <2>2, <2>4, WithinTwice, Zenon
  <2> QED BY <1>9, <2>3, <2>5, WithinTwice, Zenon
<1>11. set.tag.data = ended.tag.data /\ set.tag.size = ended.tag.size
  BY <1>1, <1>9, TouchKeep DEF Buffer!Result, Same
<1>12. /\ ended.tag.size = resized.tag.size /\ DOMAIN resized.tag.data = 0 .. resized.tag.size - 1
       /\ \A p \in 0 .. resized.tag.size - 1 : p \notin area => ended.tag.data[p] = resized.tag.data[p]
  BY <1>9, <1>10 DEF Within, Same, TagOK
<1>13. /\ 0 <= o + Old(t, o) /\ o + Old(t, o) <= t.size /\ 0 <= o + New(t, s)
       /\ resized.tag.size = t.size + (o + New(t, s)) - (o + Old(t, o))
       /\ \A p \in 0 .. t.size - 1 : p < o + Old(t, o) /\ p < o + New(t, s) => resized.tag.data[p] = t.data[p]
       /\ \A p \in o + Old(t, o) .. t.size - 1 :
            resized.tag.data[p + (o + New(t, s)) - (o + Old(t, o))] = t.data[p]
  BY <1>1, <1>3, Zenon DEF Shifts
<1>14. New(t, s) >= 0 /\ Old(t, o) >= 0
  <2>1. New(t, s) \in Nat
    BY <1>1, <1>2, StringFits
  <2> QED BY <1>1, <2>1
<1> DEFINE old == Old(t, o)  n == New(t, s)  size == t.size  more == resized.tag.size
<1>15. old \in Nat /\ n \in Nat /\ size \in Nat /\ o \in Nat /\ more = size + n - old /\ o + old <= size
  BY <1>2, <1>13, <1>14
<1> HIDE DEF old, n, size, more
<1>16. ASSUME NEW p \in 0 .. o - 1
       PROVE  set.tag.data[p] = t.data[p]
  <2>1. p \in Int /\ p \in 0 .. size - 1 /\ p \in 0 .. more - 1 /\ p < o + old /\ p < o + n /\ ~(o <= p)
    BY <1>15
  <2>2. p \notin area
    BY <1>8, <2>1
  <2>3. resized.tag.data[p] = t.data[p]
    <3>1. p \in 0 .. t.size - 1 /\ p < o + Old(t, o) /\ p < o + New(t, s)
      BY <2>1 DEF size, old, n
    <3> QED BY <1>13, <3>1, Zenon
  <2>4. ended.tag.data[p] = resized.tag.data[p]
    BY <1>12, <2>1, <2>2, Zenon DEF more
  <2> QED BY <1>11, <2>3, <2>4, Zenon
<1>17. ASSUME NEW p \in o + old .. size - 1
       PROVE  set.tag.data[p + (more - size)] = t.data[p]
  <2>1. /\ p + (more - size) = p + (o + n) - (o + old) /\ p + (more - size) \in Int
        /\ p + (more - size) \in 0 .. more - 1 /\ ~(p + (more - size) < o + n)
    BY <1>15
  <2>2. p + (more - size) \notin area
    BY <1>8, <2>1, Zenon DEF n
  <2>3. resized.tag.data[p + (o + n) - (o + old)] = t.data[p]
    BY <1>13, Zenon DEF size, old, n
  <2>4. ended.tag.data[p + (more - size)] = resized.tag.data[p + (more - size)]
    BY <1>12, <2>1, <2>2, Zenon DEF more
  <2> QED BY <1>11, <2>1, <2>3, <2>4, Zenon
<1> QED BY <1>11, <1>12, <1>16, <1>17, Zenon DEF set, old, size, more, Old

-----------------------------------------------------------------------------
(* The byte order a tag is made with *)
Fields == {"int16", "int32", "int64", "float32", "float64", "defined", "counted", "fixed", "zero",
           "swapped", "multiple", "count", "cap", "total", "pad"}

LEMMA RecordFields ==
  ASSUME NEW e(_)
  PROVE  LET f == [k \in Fields |-> e(k)]
         IN  f = [int16 |-> e("int16"), int32 |-> e("int32"), int64 |-> e("int64"), float32 |-> e("float32"),
                  float64 |-> e("float64"), defined |-> e("defined"), counted |-> e("counted"),
                  fixed |-> e("fixed"), zero |-> e("zero"), swapped |-> e("swapped"),
                  multiple |-> e("multiple"), count |-> e("count"), cap |-> e("cap"),
                  total |-> e("total"), pad |-> e("pad")]
BY DEF Fields

LEMMA DefaultDomain ==
  ASSUME NEW d \in ByteOrders
  PROVE  DOMAIN d = Fields
BY DEF ByteOrders, Fields

LEMMA LittleOrder == \A w \in Nat : Buffer!Little(w) \in Orders(w) /\ Buffer!Big(w) \in Orders(w)
<1> TAKE w \in Nat
<1>1. Buffer!Little(w) \in Orders(w)
  <2> DEFINE f == [i \in 1 .. w |-> i - 1]
  <2>1. f \in [1 .. w -> 0 .. w - 1]
    OBVIOUS
  <2>2. ASSUME NEW x \in 0 .. w - 1
        PROVE  \E i \in 1 .. w : x = f[i]
    <3>1. x + 1 \in 1 .. w /\ f[x + 1] = x
      OBVIOUS
    <3> QED BY <3>1
  <2> QED BY <2>1, <2>2, ZenonT(60) DEF Buffer!Little, Orders
<1>2. Buffer!Big(w) \in Orders(w)
  <2> DEFINE f == [i \in 1 .. w |-> w - i]
  <2>1. f \in [1 .. w -> 0 .. w - 1]
    OBVIOUS
  <2>2. ASSUME NEW x \in 0 .. w - 1
        PROVE  \E i \in 1 .. w : x = f[i]
    <3>1. w - x \in 1 .. w /\ f[w - x] = x
      OBVIOUS
    <3> QED BY <3>1
  <2> QED BY <2>1, <2>2, ZenonT(60) DEF Buffer!Big, Orders
<1> QED BY <1>1, <1>2

LEMMA OneOrder == <<2, 3, 0, 1>> \in Orders(4)
<1> DEFINE f == <<2, 3, 0, 1>>
<1>1. f \in [1 .. 4 -> 0 .. 3]
  OBVIOUS
<1>2. \A x \in 0 .. 3 : \E i \in 1 .. 4 : x = f[i]
  <2>1. f[1] = 2 /\ f[2] = 3 /\ f[3] = 0 /\ f[4] = 1
    OBVIOUS
  <2> QED BY <2>1
<1> QED BY <1>1, <1>2 DEF Orders

LEMMA PlainOrder == Buffer!Plain \in ByteOrders
<1> DEFINE x == Buffer!Little(2)
           y == Buffer!Little(4)
           z == Buffer!Little(8)
           yes == TRUE
<1>1. x \in Orders(2) /\ y \in Orders(4) /\ z \in Orders(8)
  BY LittleOrder
<1>2. Buffer!Plain =
        [int16 |-> x, int32 |-> y, int64 |-> z, float32 |-> y, float64 |-> z, defined |-> yes,
         counted |-> 1, fixed |-> 0, zero |-> 0, swapped |-> 0, multiple |-> 1, count |-> 2, cap |-> 0,
         total |-> 0, pad |-> 0]
  BY Zenon DEF Buffer!Plain
<1>3. yes \in BOOLEAN
  OBVIOUS
<1> HIDE DEF x, y, z, yes
<1> QED BY <1>1, <1>2, <1>3 DEF ByteOrders

(* What a byte order must be for a tag to be made with it *)
Accepted(bo) == bo \in ByteOrders /\ Layout(bo) /\ Capped(bo)


(* A byte order stays one when a field gets a value of its kind. *)
LEMMA FieldsKeep ==
  ASSUME NEW d \in ByteOrders
  PROVE  /\ \A v \in {0, 1} : /\ [d EXCEPT !.counted = v] \in ByteOrders
                              /\ [d EXCEPT !.fixed = v] \in ByteOrders
                              /\ [d EXCEPT !.zero = v] \in ByteOrders
                              /\ [d EXCEPT !.swapped = v] \in ByteOrders
         /\ \A v \in Nat : /\ [d EXCEPT !.multiple = v] \in ByteOrders
                           /\ [d EXCEPT !.cap = v] \in ByteOrders
                           /\ [d EXCEPT !.total = v] \in ByteOrders
                           /\ [d EXCEPT !.pad = v] \in ByteOrders
         /\ \A v \in {0, 4} : [d EXCEPT !.count = v] \in ByteOrders
         /\ \A v \in BOOLEAN : [d EXCEPT !.defined = v] \in ByteOrders
         /\ \A v \in Orders(2) : [d EXCEPT !.int16 = v] \in ByteOrders
         /\ \A v \in Orders(4) : /\ [d EXCEPT !.int32 = v] \in ByteOrders
                                 /\ [d EXCEPT !.float32 = v] \in ByteOrders
         /\ \A v \in Orders(8) : /\ [d EXCEPT !.int64 = v] \in ByteOrders
                                 /\ [d EXCEPT !.float64 = v] \in ByteOrders
<1>1. ASSUME NEW v \in {0, 1} PROVE [d EXCEPT !.counted = v] \in ByteOrders BY DEF ByteOrders
<1>2. ASSUME NEW v \in {0, 1} PROVE [d EXCEPT !.fixed = v] \in ByteOrders BY DEF ByteOrders
<1>3. ASSUME NEW v \in {0, 1} PROVE [d EXCEPT !.zero = v] \in ByteOrders BY DEF ByteOrders
<1>4. ASSUME NEW v \in {0, 1} PROVE [d EXCEPT !.swapped = v] \in ByteOrders BY DEF ByteOrders
<1>5. ASSUME NEW v \in Nat PROVE [d EXCEPT !.multiple = v] \in ByteOrders BY DEF ByteOrders
<1>6. ASSUME NEW v \in Nat PROVE [d EXCEPT !.cap = v] \in ByteOrders BY DEF ByteOrders
<1>7. ASSUME NEW v \in Nat PROVE [d EXCEPT !.total = v] \in ByteOrders BY DEF ByteOrders
<1>8. ASSUME NEW v \in Nat PROVE [d EXCEPT !.pad = v] \in ByteOrders BY DEF ByteOrders
<1>9. ASSUME NEW v \in {0, 4} PROVE [d EXCEPT !.count = v] \in ByteOrders BY DEF ByteOrders
<1>10. ASSUME NEW v \in BOOLEAN PROVE [d EXCEPT !.defined = v] \in ByteOrders BY DEF ByteOrders
<1>11. ASSUME NEW v \in Orders(2) PROVE [d EXCEPT !.int16 = v] \in ByteOrders BY DEF ByteOrders
<1>12. ASSUME NEW v \in Orders(4) PROVE [d EXCEPT !.int32 = v] \in ByteOrders BY DEF ByteOrders
<1>13. ASSUME NEW v \in Orders(4) PROVE [d EXCEPT !.float32 = v] \in ByteOrders BY DEF ByteOrders
<1>14. ASSUME NEW v \in Orders(8) PROVE [d EXCEPT !.int64 = v] \in ByteOrders BY DEF ByteOrders
<1>15. ASSUME NEW v \in Orders(8) PROVE [d EXCEPT !.float64 = v] \in ByteOrders BY DEF ByteOrders
<1> QED BY <1>1, <1>2, <1>3, <1>4, <1>5, <1>6, <1>7, <1>8, <1>9, <1>10, <1>11, <1>12, <1>13, <1>14, <1>15, Zenon

LEMMA DefaultsAccepted == \A d \in Buffer!Defaults : Accepted(d)
<1> DEFINE cap == StringCapacity
<1>1. cap \in Nat \ {0} /\ cap + 6 \in Nat /\ cap + 2 \in Nat
  BY DataAssumption DEF Buffer!TagDataAssumption
<1>2. {0, 1, 2} \subseteq Nat /\ {0, 1} \subseteq {0, 1} /\ {0, 4} \subseteq {0, 4} /\ FALSE \in BOOLEAN
  OBVIOUS
<1> DEFINE plain == Buffer!Plain
<1>3. plain \in ByteOrders
  BY PlainOrder
<1>4. /\ plain.fixed = 0 /\ plain.counted = 1 /\ plain.count = 2 /\ plain.zero = 0 /\ plain.pad = 0
      /\ plain.cap = 0 /\ plain.total = 0
  BY DEF Buffer!Plain
<1> HIDE DEF plain
<1>5. Accepted(plain)
  BY <1>3, <1>4 DEF Accepted, Layout, Capped
<1> DEFINE logix == [plain EXCEPT !.fixed = 1, !.count = 4, !.cap = cap, !.total = cap + 6, !.pad = 2]
           udt   == [plain EXCEPT !.counted = 0, !.zero = 1, !.count = 0]
           slc   == [plain EXCEPT !.fixed = 1, !.swapped = 1, !.multiple = 2, !.cap = cap, !.total = cap + 2]
           plc5  == [slc EXCEPT !.float32 = <<2, 3, 0, 1>>]
           omron == [plain EXCEPT !.zero = 1]
           modbus == [plain EXCEPT !.int16 = Buffer!Big(2), !.int32 = Buffer!Big(4), !.int64 = Buffer!Big(8),
                                   !.float32 = Buffer!Big(4), !.float64 = Buffer!Big(8), !.defined = FALSE,
                                   !.counted = 0, !.multiple = 0, !.count = 0]
<1>6. logix \in ByteOrders
  BY <1>1, <1>2, <1>3, FieldsKeep, Zenon
<1>7. udt \in ByteOrders
  BY <1>1, <1>2, <1>3, FieldsKeep, Zenon
<1>8. slc \in ByteOrders
  BY <1>1, <1>2, <1>3, FieldsKeep, Zenon
<1>9. omron \in ByteOrders
  BY <1>2, <1>3, FieldsKeep, Zenon
<1>10. modbus \in ByteOrders
  BY <1>2, <1>3, FieldsKeep, LittleOrder, ZenonT(60)
<1>11. Accepted(logix)
  BY <1>1, <1>3, <1>4, <1>6 DEF Accepted, Layout, Capped, ByteOrders
<1>12. Accepted(udt)
  BY <1>3, <1>4, <1>7 DEF Accepted, Layout, Capped, ByteOrders
<1>13. Accepted(slc) /\ slc.counted = 1
  BY <1>1, <1>3, <1>4, <1>8 DEF Accepted, Layout, Capped, ByteOrders
<1>14. Accepted(omron)
  BY <1>3, <1>4, <1>9 DEF Accepted, Layout, Capped, ByteOrders
<1>15. Accepted(modbus)
  <2>1. modbus.counted = 0
    BY <1>3 DEF ByteOrders
  <2>2. modbus.fixed = plain.fixed
    BY <1>3 DEF ByteOrders
  <2> HIDE DEF modbus
  <2>3. Accepted(modbus)
    BY <1>4, <1>10, <2>1, <2>2 DEF Accepted, Layout, Capped
  <2> QED BY <2>3
<1>16. Accepted(plc5)
  <2> HIDE DEF slc
  <2>1. plc5 \in ByteOrders
    BY <1>8, OneOrder, FieldsKeep
  <2>2. /\ plc5.fixed = slc.fixed /\ plc5.counted = slc.counted /\ plc5.count = slc.count
        /\ plc5.zero = slc.zero /\ plc5.cap = slc.cap /\ plc5.total = slc.total /\ plc5.pad = slc.pad
    BY <1>8 DEF ByteOrders
  <2> HIDE DEF plc5
  <2>3. Accepted(plc5)
    BY <1>13, <2>1, <2>2 DEF Accepted, Layout, Capped
  <2> QED BY <2>3
<1> HIDE DEF Accepted
<1> QED BY <1>5, <1>11, <1>12, <1>13, <1>14, <1>15, <1>16, Zenon
  DEF plain, Buffer!Defaults, Buffer!LogixTagByteOrder, Buffer!LogixListingOrder, Buffer!ListingTagByteOrder,
      Buffer!UdtTagByteOrder, Buffer!SlcTagByteOrder, Buffer!Plc5TagByteOrder, Buffer!OmronTagByteOrder,
      Buffer!SystemTagByteOrder, Buffer!ModbusTagByteOrder

(* What an attribute may give to a field *)
FieldOK(k, v) ==
  /\ k = "int16" => v \in Orders(2)
  /\ k \in {"int32", "float32"} => v \in Orders(4)
  /\ k \in {"int64", "float64"} => v \in Orders(8)
  /\ k = "defined" => v \in BOOLEAN
  /\ k \in {"counted", "fixed", "zero", "swapped"} => v \in {0, 1}
  /\ k = "multiple" => v \in Int
  /\ k = "count" => v \in {0, 1, 2, 4, 8}
  /\ k \in {"cap", "total", "pad"} => v \in Nat

LEMMA ByteOrderChecked ==
  ASSUME NEW w \in Nat, NEW f \in Seq(Int), Buffer!CheckByteOrder(f, w) = "OK"
  PROVE  f \in Orders(w)
<1>1. ~(Len(f) < w) /\ ~(Len(f) > w) /\ {f[i] : i \in 1 .. w} = 0 .. w - 1
  <2>1. "TOO_SMALL" # "OK" /\ "TOO_LARGE" # "OK" /\ "BAD_DATA" # "OK"
    OBVIOUS
  <2> QED BY <2>1, Zenon DEF Buffer!CheckByteOrder
<1>2. Len(f) = w
  BY <1>1
<1>3. f \in [1 .. w -> Int]
  BY <1>2
<1>4. \A i \in 1 .. w : f[i] \in 0 .. w - 1
  BY <1>1
<1> QED BY <1>1, <1>3, <1>4 DEF Orders

LEMMA FieldChecked ==
  ASSUME NEW a \in Overrides, NEW k \in DOMAIN a,
         IF k \in DOMAIN Buffer!Widths THEN Buffer!CheckOrderOverride(k, a[k]) = "OK"
         ELSE Buffer!CheckStringOverride(k, a[k]) = "OK"
  PROVE  k \in Fields /\ FieldOK(k, a[k])
<1>1. /\ k \in DOMAIN Buffer!Widths \cup Buffer!Flags \cup Buffer!Lengths
      /\ a[k] \in IF k \in DOMAIN Buffer!Widths THEN Seq(Int) ELSE Int
  BY DataAssumption DEF Buffer!TagDataAssumption
<1> DEFINE v == a[k]
<1> HIDE DEF v
<1>2. DOMAIN Buffer!Widths = {"int16", "int32", "int64", "float32", "float64"}
  BY DEF Buffer!Widths
<1>3. CASE k \in DOMAIN Buffer!Widths
  <2>1. /\ k = "int16" => Buffer!Widths[k] = 2
        /\ k \in {"int32", "float32"} => Buffer!Widths[k] = 4
        /\ k \in {"int64", "float64"} => Buffer!Widths[k] = 8
    BY DEF Buffer!Widths
  <2>2. Buffer!Widths[k] \in Nat
    BY <1>2, <1>3, <2>1
  <2>3. v \in Seq(Int) /\ Buffer!CheckByteOrder(v, Buffer!Widths[k]) = "OK"
    BY <1>1, <1>3 DEF v, Buffer!CheckOrderOverride
  <2>4. v \in Orders(Buffer!Widths[k])
    BY <2>2, <2>3, ByteOrderChecked
  <2>5. FieldOK(k, v)
    BY <1>2, <1>3, <2>1, <2>4 DEF FieldOK
  <2> QED BY <1>2, <1>3, <2>5 DEF v, Fields
<1>4. CASE k \notin DOMAIN Buffer!Widths
  <2>1. v \in Int /\ Buffer!CheckStringOverride(k, v) = "OK"
    BY <1>1, <1>4 DEF v
  <2>2. k \in Buffer!Flags \cup Buffer!Lengths
    BY <1>1, <1>4
  <2>3. "BAD_PARAM" # "OK" /\ {0, 1, 2, 4} \subseteq Int
    OBVIOUS
  <2>4. "count" \notin Buffer!Flags /\ "multiple" \notin Buffer!Flags /\ "count" # "multiple"
    BY DEF Buffer!Flags
  <2>5. k \in Buffer!Flags => v \in {0, 1}
    BY <2>1, <2>3, <2>4, Zenon DEF Buffer!CheckStringOverride
  <2>6. k = "count" => v \in {0, 1, 2, 4, 8}
    BY <2>1, <2>3, <2>4, Zenon DEF Buffer!CheckStringOverride
  <2>7. k \notin Buffer!Flags /\ k # "count" /\ k # "multiple" => v >= 0
    BY <2>1, <2>3, Zenon DEF Buffer!CheckStringOverride
  <2>8. FieldOK(k, v)
    BY <1>2, <1>4, <2>1, <2>2, <2>5, <2>6, <2>7 DEF FieldOK, Buffer!Flags, Buffer!Lengths
  <2> QED BY <2>2, <2>8 DEF v, Fields, Buffer!Flags, Buffer!Lengths
<1> QED BY <1>3, <1>4

(* The byte order a tag is made with *)
LEMMA SetOrderAccepted ==
  ASSUME NEW d \in Buffer!Defaults, NEW a \in Overrides, Buffer!SetTagByteOrder(d, a).rc = "OK"
  PROVE  LET bo == Buffer!SetTagByteOrder(d, a).order
         IN  bo \in ByteOrders /\ Layout(bo)
<1> DEFINE fresh == Buffer!Overridden(d, a)
           rest  == fresh.zero + fresh.cap + fresh.count + fresh.pad
           defined == fresh.defined \/ fresh.counted = 1 \/ fresh.zero = 1
           wrong == \/ \E k \in DOMAIN a :
                          IF k \in DOMAIN Buffer!Widths THEN Buffer!CheckOrderOverride(k, a[k]) # "OK"
                          ELSE Buffer!CheckStringOverride(k, a[k]) # "OK"
                    \/ fresh.counted = 1 /\ fresh.count = 0
                    \/ fresh.fixed = 1 /\ fresh.total = 0
                    \/ fresh.total > 0 /\ rest > fresh.total
           set == Buffer!SetTagByteOrder(d, a)
<1>1. d \in ByteOrders /\ Layout(d)
  BY DefaultsAccepted DEF Accepted
<1>2. \/ set.order = d
      \/ ~wrong /\ set.order = [fresh EXCEPT !.defined = defined]
  <2>1. \/ set = [rc |-> "OK", order |-> d]
        \/ wrong /\ set = [rc |-> "BAD_PARAM", order |-> fresh]
        \/ ~wrong /\ set = [rc |-> "OK", order |-> [fresh EXCEPT !.defined = @ \/ fresh.counted = 1 \/ fresh.zero = 1]]
    BY Zenon DEF Buffer!SetTagByteOrder
  <2> HIDE DEF wrong, fresh, set
  <2>2. set.rc = "OK"
    BY DEF set
  <2> QED BY <2>1, <2>2
<1>3. ASSUME ~wrong
      PROVE  fresh \in ByteOrders /\ Layout(fresh)
  <2> DEFINE e(k) == CASE k \notin DOMAIN a -> d[k]
                       [] k = "multiple" /\ k \in DOMAIN a /\ a[k] = 0 -> 1
                       [] OTHER -> a[k]
  <2>1. \A k \in DOMAIN a : FieldOK(k, a[k])
    BY <1>3, FieldChecked, Zenon
  <2>2. \A k \in Fields : FieldOK(k, d[k])
    BY <1>1 DEF FieldOK, Fields, ByteOrders
  <2>3. FieldOK("multiple", 1)
    BY DEF FieldOK
  <2>4. \A k \in Fields : FieldOK(k, e(k))
    BY <2>1, <2>2, <2>3, Zenon
  <2>5. DOMAIN d = Fields
    BY <1>1, DefaultDomain
  <2>6. fresh = [k \in Fields |-> e(k)]
    BY <2>5, Zenon DEF Buffer!Overridden
  <2> HIDE DEF e
  <2>7. fresh \in ByteOrders
    <3>1. fresh = [int16 |-> e("int16"), int32 |-> e("int32"), int64 |-> e("int64"), float32 |-> e("float32"),
                   float64 |-> e("float64"), defined |-> e("defined"), counted |-> e("counted"),
                   fixed |-> e("fixed"), zero |-> e("zero"), swapped |-> e("swapped"),
                   multiple |-> e("multiple"), count |-> e("count"), cap |-> e("cap"),
                   total |-> e("total"), pad |-> e("pad")]
      BY <2>6, RecordFields
    <3>2. /\ e("int16") \in Orders(2) /\ e("int32") \in Orders(4) /\ e("int64") \in Orders(8)
          /\ e("float32") \in Orders(4) /\ e("float64") \in Orders(8) /\ e("defined") \in BOOLEAN
          /\ e("counted") \in {0, 1} /\ e("fixed") \in {0, 1} /\ e("zero") \in {0, 1}
          /\ e("swapped") \in {0, 1} /\ e("multiple") \in Int /\ e("count") \in {0, 1, 2, 4, 8}
          /\ e("cap") \in Nat /\ e("total") \in Nat /\ e("pad") \in Nat
      BY <2>4 DEF FieldOK, Fields
    <3> QED BY <3>1, <3>2 DEF ByteOrders
  <2> HIDE DEF fresh
  <2>8. Layout(fresh)
    BY <1>3, <2>7 DEF Layout, ByteOrders
  <2> QED BY <2>7, <2>8
<1>4. ASSUME ~wrong
      PROVE  LET bo == [fresh EXCEPT !.defined = defined] IN bo \in ByteOrders /\ Layout(bo)
  <2>1. fresh \in ByteOrders /\ Layout(fresh)
    BY <1>3, <1>4
  <2>2. defined \in BOOLEAN
    OBVIOUS
  <2> HIDE DEF fresh, defined
  <2> DEFINE bo == [fresh EXCEPT !.defined = defined]
  <2>3. bo \in ByteOrders
    BY <2>1, <2>2, FieldsKeep
  <2>4. /\ bo.fixed = fresh.fixed /\ bo.counted = fresh.counted /\ bo.count = fresh.count
        /\ bo.zero = fresh.zero /\ bo.cap = fresh.cap /\ bo.total = fresh.total /\ bo.pad = fresh.pad
    BY <2>1 DEF ByteOrders
  <2> HIDE DEF bo
  <2>5. Layout(bo)
    BY <2>1, <2>4 DEF Layout
  <2> QED BY <2>3, <2>5 DEF bo
<1> HIDE DEF fresh, wrong, set, defined
<1>5. LET bo == set.order IN bo \in ByteOrders /\ Layout(bo)
  BY <1>1, <1>2, <1>4, Zenon
<1> QED BY <1>5 DEF set

LEMMA MadeOK ==
  ASSUME NEW d \in Buffer!Defaults, NEW a \in Overrides, NEW bytes \in Buffers, NEW b \in BitTags,
         NEW auto \in {0, 1}, Buffer!SetTagByteOrder(d, a).rc = "OK"
  PROVE  TagOK([size |-> Len(bytes), data |-> [p \in 0 .. Len(bytes) - 1 |-> bytes[p + 1]],
                bo |-> Buffer!SetTagByteOrder(d, a).order, bit |-> b, status |-> "OK", dirty |-> FALSE,
                resize |-> FALSE, cache |-> 0, autoRead |-> 0, autoWrite |-> auto])
<1> DEFINE data0 == [p \in 0 .. Len(bytes) - 1 |-> bytes[p + 1]]
           bo == Buffer!SetTagByteOrder(d, a).order
           no == FALSE
           t  == [size |-> Len(bytes), data |-> data0, bo |-> bo, bit |-> b, status |-> "OK", dirty |-> no,
                  resize |-> no, cache |-> 0, autoRead |-> 0, autoWrite |-> auto]
<1>1. bytes \in Seq(Buffer!Byte) /\ b \in Nat \cup {Buffer!NoBit}
  BY DataAssumption DEF Buffer!TagDataAssumption
<1>2. Len(bytes) \in Nat /\ data0 \in [0 .. Len(bytes) - 1 -> Buffer!Byte]
  BY <1>1
<1>3. bo \in ByteOrders /\ Layout(bo)
  BY SetOrderAccepted
<1>4. StringsCapped => Capped(bo)
  BY Zenon DEF StringsCapped
<1>5. no \in BOOLEAN /\ "OK" \in Codes /\ auto \in Int /\ 0 \in Int
  BY DEF Codes
<1>6. data0 \in Memories
  BY <1>2 DEF Memories
<1> HIDE DEF data0, bo, no
<1>7. t \in Contents
  BY <1>1, <1>2, <1>3, <1>5, <1>6 DEF Contents
<1>8. t.data = data0 /\ t.size = Len(bytes) /\ t.bo = bo
  OBVIOUS
<1> HIDE DEF t
<1>9. TagOK(t)
  BY <1>2, <1>3, <1>4, <1>7, <1>8 DEF TagOK
<1> QED BY <1>9 DEF t, data0, bo, no

BufferInv == Buffer!Made => TagOK(tag)

LEMMA ReadsKeepTag ==
  ASSUME TagOK(tag), NEW r, Asked(r, tag), tag' = r.tag
  PROVE  TagOK(tag')
BY AskedKeeps

LEMMA BufferInductive == BufferInv /\ [Buffer!Next]_(Buffer!vars) => BufferInv'
<1> SUFFICES ASSUME BufferInv, [Buffer!Next]_(Buffer!vars), Buffer!Made'
             PROVE  TagOK(tag')
  BY Zenon DEF BufferInv, Buffer!Made
<1> USE DEF BufferInv, Buffer!Ask, Buffer!Change
<1>0. /\ Offsets \cup Numbers \cup Sizes \subseteq Int /\ Strings \subseteq Seq(Buffer!Byte)
      /\ \A o \in Offsets : o \in Int
  BY DataAssumption DEF Buffer!TagDataAssumption
<1>1. CASE Buffer!Create
  BY <1>1, MadeOK, ZenonT(60) DEF Buffer!Create
<1>2. CASE Buffer!GetNumber
  BY <1>2, GetterAsks, ReadsKeepTag, Zenon DEF Buffer!GetNumber
<1>3. CASE Buffer!SetNumber
  <2>1. PICK k \in Buffer!Types, o \in Offsets, v \in Numbers : TagOK(tag) /\ tag' = Buffer!Setter(k, tag, o, v).tag
    BY <1>3, Zenon DEF Buffer!SetNumber
  <2>2. o \in Int /\ v \in Int
    BY <1>0
  <2>3. Stored(Buffer!Setter(k, tag, o, v), tag,
               IF tag.bit = Buffer!NoBit THEN o .. o + Buffer!Width[k] - 1 ELSE {tag.bit \div ByteBits})
    BY <2>1, <2>2, SetterStores
  <2> QED BY <2>1, <2>3, Zenon DEF Stored
<1>4. CASE Buffer!ReadBit
  BY <1>4, ReadersAsk, ReadsKeepTag, Zenon DEF Buffer!ReadBit
<1>5. CASE Buffer!WriteBit
  <2>1. PICK o \in Offsets, v \in {0, 1} : TagOK(tag) /\ tag' = Buffer!SetBit(tag, o, v).tag
    BY <1>5, Zenon DEF Buffer!WriteBit
  <2> QED BY <1>0, <2>1, SetBitStores DEF Stored, Buffer!SetBit
<1>6. CASE Buffer!ReadRaw
  BY <1>6, ReadersAsk, ReadsKeepTag, Zenon DEF Buffer!ReadRaw
<1>7. CASE Buffer!WriteRaw
  <2>1. PICK o \in Offsets, s \in Strings : TagOK(tag) /\ tag' = Buffer!SetRawBytes(tag, o, s).tag
    BY <1>7, Zenon DEF Buffer!WriteRaw
  <2> QED BY <1>0, <2>1, SetRawKeeps
<1>8. CASE Buffer!AskSize
  BY <1>8, ReadersAsk, ReadsKeepTag, Zenon DEF Buffer!AskSize
<1>9. CASE Buffer!Resize
  <2>1. PICK n \in Sizes, fill \in {0, Buffer!Base - 1}, alloc \in Allocs :
          TagOK(tag) /\ tag' = Buffer!SetSize(tag, n, fill, alloc).tag
    BY <1>9, Zenon DEF Buffer!Resize
  <2> QED BY <1>0, <2>1, SetSizeKeeps, ByteFacts
<1>10. CASE Buffer!ReadString
  BY <1>10, ReadersAsk, ReadsKeepTag, Zenon DEF Buffer!ReadString
<1>11. CASE Buffer!WriteString
  <2>1. PICK o \in Offsets, s \in Strings, alloc \in Allocs :
          TagOK(tag) /\ Buffer!StringRoom(tag, o) /\ tag' = Buffer!SetString(tag, o, s, alloc).tag
    BY <1>11, Zenon DEF Buffer!WriteString
  <2> QED BY <1>0, <2>1, SetStringKeeps
<1>12. CASE Buffer!ReadAttribute
  BY <1>12, ReadersAsk, ReadsKeepTag, Zenon DEF Buffer!ReadAttribute
<1>13. CASE Buffer!WriteAttribute
  <2>1. PICK name \in Buffer!Names, v \in {-1, 0, 1} : TagOK(tag) /\ tag' = Buffer!SetIntAttribute(tag, name, v).tag
    BY <1>13, Zenon DEF Buffer!WriteAttribute
  <2> QED BY <2>1, SetAttributeKeeps
<1>14. CASE UNCHANGED Buffer!vars
  <2>1. tag' = tag
    BY <1>14 DEF Buffer!vars
  <2> QED BY <2>1 DEF Buffer!Made
<1> QED BY <1>1, <1>2, <1>3, <1>4, <1>5, <1>6, <1>7, <1>8, <1>9, <1>10, <1>11, <1>12, <1>13, <1>14 DEF Buffer!Next

LEMMA NeighboursStay ==
  ASSUME BufferInv, StringsCapped
  PROVE  Buffer!NeighboursKept
<1> DEFINE Kept(o, s, alloc) ==
             LET set == Buffer!SetString(tag, o, s, alloc)
                 by  == set.tag.size - tag.size
             IN  set.rc = "OK" =>
                   /\ \A p \in 0 .. o - 1 : set.tag.data[p] = tag.data[p]
                   /\ \A p \in o + Buffer!TotalLength(tag, o) .. tag.size - 1 : set.tag.data[p + by] = tag.data[p]
<1>1. ASSUME Buffer!Made, NEW o \in Offsets, NEW s \in Strings, Buffer!StringRoom(tag, o),
             ~(tag.bo.swapped = 1 /\ tag.bo.cap % 2 = 1), NEW alloc
      PROVE  Kept(o, s, alloc)
  <2>1. o \in Int /\ s \in Seq(Buffer!Byte)
    BY DataAssumption DEF Buffer!TagDataAssumption
  <2>2. TagOK(tag) /\ Capped(tag.bo)
    BY <1>1 DEF BufferInv, TagOK
  <2> QED BY <1>1, <2>1, <2>2, SetStringNeighbours
<1> HIDE DEF Kept
<1>2. Buffer!Made => \A o \in Offsets, s \in Strings :
        Buffer!StringRoom(tag, o) /\ ~(tag.bo.swapped = 1 /\ tag.bo.cap % 2 = 1) => Kept(o, s, TRUE)
  BY <1>1, Zenon
<1> QED BY <1>2, Zenon DEF Kept, Buffer!NeighboursKept

LEMMA BufferTyped ==
  ASSUME BufferInv
  PROVE  Buffer!TypeOK
<1> SUFFICES ASSUME Buffer!Made
             PROVE  /\ tag.size \in Nat
                    /\ tag.data \in [0 .. tag.size - 1 -> Buffer!Byte]
                    /\ \A k \in DOMAIN Buffer!Widths :
                         {tag.bo[k][i] : i \in DOMAIN tag.bo[k]} = 0 .. Buffer!Widths[k] - 1
  BY Zenon DEF Buffer!TypeOK
<1>1. TagOK(tag)
  BY DEF BufferInv
<1>2. tag.bo \in ByteOrders
  BY <1>1 DEF TagOK, Contents
<1>3. \A w \in Nat : \A f \in Orders(w) : {f[i] : i \in DOMAIN f} = 0 .. w - 1
  BY DEF Orders
<1>4. ASSUME NEW k \in DOMAIN Buffer!Widths
      PROVE  {tag.bo[k][i] : i \in DOMAIN tag.bo[k]} = 0 .. Buffer!Widths[k] - 1
  <2>1. k \in {"int16", "int32", "int64", "float32", "float64"}
    BY DEF Buffer!Widths
  <2>2. Buffer!Widths[k] \in Nat /\ tag.bo[k] \in Orders(Buffer!Widths[k])
    <3>1. CASE k = "int16" BY <1>2, <3>1 DEF Buffer!Widths, ByteOrders
    <3>2. CASE k = "int32" BY <1>2, <3>2 DEF Buffer!Widths, ByteOrders
    <3>3. CASE k = "int64" BY <1>2, <3>3 DEF Buffer!Widths, ByteOrders
    <3>4. CASE k = "float32" BY <1>2, <3>4 DEF Buffer!Widths, ByteOrders
    <3>5. CASE k = "float64" BY <1>2, <3>5 DEF Buffer!Widths, ByteOrders
    <3> QED BY <2>1, <3>1, <3>2, <3>3, <3>4, <3>5
  <2> QED BY <1>3, <2>2
<1> QED BY <1>1, <1>4 DEF TagOK, Contents

-----------------------------------------------------------------------------
(* A number that is stored is read back: it is the sum of its bytes, each  *)
(* at its place, and a byte order is one to one.                           *)

(* What one byte of a number stands for: the number without what is below  *)
(* its place, less the number without what is up to its place.             *)
LEMMA Digit ==
  ASSUME NEW n \in Nat, NEW p \in Nat \ {0}, NEW b \in Nat \ {0}
  PROVE  /\ p * b \in Nat \ {0} /\ n \div p \in Nat /\ n \div (p * b) \in Nat
         /\ ((n \div p) % b) * p = (n \div p) * p - (n \div (p * b)) * (p * b)
<1> DEFINE q == n \div p
           r == n % p
           s == q \div b
           d == q % b
           m == p * b
           x == n \div m
           y == n % m
           e == d * p + r
<1>1. n = q * p + r /\ q \in Nat /\ r \in 0 .. p - 1
  OBVIOUS
<1>2. m \in Nat \ {0}
  OBVIOUS
<1> HIDE DEF q, r
<1>3. q = s * b + d /\ s \in Nat /\ d \in 0 .. b - 1
  BY <1>1
<1> HIDE DEF s, d
<1>4. q * p = s * m + d * p
  BY <1>1, <1>3
<1>5. e \in 0 .. m - 1
  <2>1. (b - 1 - d) * p \in Nat
    BY <1>3
  <2>2. (b - 1 - d) * p = m - p - d * p
    BY <1>3
  <2>3. d * p \in Nat
    BY <1>3
  <2> HIDE DEF m
  <2> QED BY <1>1, <1>2, <2>1, <2>2, <2>3
<1> HIDE DEF m
<1>6. n = x * m + y /\ x \in Nat /\ y \in 0 .. m - 1
  BY <1>2
<1> HIDE DEF x, y
<1>7. n = s * m + e
  <2>1. s * m \in Nat /\ d * p \in Nat
    BY <1>2, <1>3
  <2> QED BY <1>1, <1>4, <2>1
<1> HIDE DEF e
<1>8. x = s
  <2>1. CASE x < s
    <3>1. (s - x - 1) * m \in Nat
      BY <1>2, <1>3, <1>6, <2>1
    <3>2. (s - x - 1) * m = s * m - x * m - m
      BY <1>2, <1>3, <1>6
    <3>3. s * m \in Nat /\ x * m \in Nat
      BY <1>2, <1>3, <1>6
    <3> QED BY <1>2, <1>5, <1>6, <1>7, <3>1, <3>2, <3>3
  <2>2. CASE x > s
    <3>1. (x - s - 1) * m \in Nat
      BY <1>2, <1>3, <1>6, <2>2
    <3>2. (x - s - 1) * m = x * m - s * m - m
      BY <1>2, <1>3, <1>6
    <3>3. s * m \in Nat /\ x * m \in Nat
      BY <1>2, <1>3, <1>6
    <3> QED BY <1>2, <1>5, <1>6, <1>7, <3>1, <3>2, <3>3
  <2> QED BY <1>3, <1>6, <2>1, <2>2
<1>9. d * p = q * p - x * m
  <2>1. d * p \in Nat /\ s * m \in Nat
    BY <1>2, <1>3
  <2> QED BY <1>4, <1>8, <2>1
<1> QED BY <1>1, <1>2, <1>6, <1>9 DEF m, q, x, d

LEMMA PowerSteps ==
  /\ Buffer!Power(0) = 1
  /\ \A i \in 0 .. 7 : Buffer!Power(i) * Buffer!Base = Buffer!Power(i + 1)
<1> DEFINE b == Buffer!Base
           two == b * b
           four == two * two
<1>1. b \in Nat \ {0}
  BY ByteFacts
<1>6. \A n \in 0 .. 8 :
        Buffer!Power(n) = <<1, b, two, two * b, four, four * b, four * two, four * two * b, four * four>>[n + 1]
  BY DEF Buffer!Power, Buffer!Raised, b, two, four
<1>0. \A x, y, z \in Int : (x * y) * z = x * (y * z) /\ x * y \in Int
  OBVIOUS
<1> HIDE DEF b
<1>2. two \in Int /\ (two * b) * b = two * two
  BY <1>1, <1>0
<1>3. 1 * b = b /\ b * b = two
  BY <1>1
<1> HIDE DEF two
<1>4. four \in Int /\ (four * b) * b = four * two /\ two * b \in Int
  BY <1>1, <1>2, <1>0 DEF two
<1>5. (four * two * b) * b = (four * two) * two /\ (four * two) * two = four * four
  BY <1>1, <1>2, <1>4, <1>0 DEF two, four
<1> HIDE DEF four
<1>7. (two * b) * b = four
  BY <1>2 DEF four
<1>8. \A i \in 0 .. 7 : Buffer!Power(i) * b = Buffer!Power(i + 1)
  <2> DEFINE P(i) == Buffer!Power(i)
  <2>1. /\ P(0) = 1 /\ P(1) = b /\ P(2) = two /\ P(3) = two * b /\ P(4) = four /\ P(5) = four * b
        /\ P(6) = four * two /\ P(7) = four * two * b /\ P(8) = four * four
    BY <1>6
  <2> HIDE DEF P
  <2>2. \A i \in 0 .. 7 : P(i) * b = P(i + 1)
    BY <2>1, <1>3, <1>4, <1>5, <1>7
  <2> QED BY <2>2 DEF P
<1> QED BY <1>6, <1>8 DEF b

(* A number is the sum of its bytes, each at its place. *)
LEMMA Expansion ==
  ASSUME NEW w \in {1, 2, 4, 8}, NEW n \in 0 .. Buffer!Power(w) - 1,
         NEW x, \A i \in 1 .. 8 : x[i] = IF i <= w
                     THEN ((n \div Buffer!Power(i - 1)) % Buffer!Base) * Buffer!Power(i - 1) ELSE 0
  PROVE  x[1] + x[2] + x[3] + x[4] + x[5] + x[6] + x[7] + x[8] = n
<1> DEFINE P(i) == Buffer!Power(i)
           z(i) == (n \div P(i)) * P(i)
<1>1. \A i \in 0 .. 8 : P(i) \in Nat \ {0}
  BY PowerFacts
<1>2. n \in Nat /\ n < P(w)
  BY <1>1
<1>3. \A i \in 0 .. 7 : P(i) * Buffer!Base = P(i + 1) /\ P(0) = 1
  BY PowerSteps
<1> HIDE DEF P
<1>4. \A i \in 1 .. 8 : i <= w => x[i] = z(i - 1) - z(i)
  <2>1. TAKE i \in 1 .. 8
  <2>2. i - 1 \in 0 .. 7 /\ (i - 1) + 1 = i
    OBVIOUS
  <2>3. P(i - 1) \in Nat \ {0} /\ P(i - 1) * Buffer!Base = P(i)
    BY <1>1, <1>3, <2>2
  <2>4. ((n \div P(i - 1)) % Buffer!Base) * P(i - 1)
          = (n \div P(i - 1)) * P(i - 1) - (n \div (P(i - 1) * Buffer!Base)) * (P(i - 1) * Buffer!Base)
    BY <1>2, <2>3, ByteFacts, Digit, ZenonT(60)
  <2>5. i <= w => x[i] = ((n \div P(i - 1)) % Buffer!Base) * P(i - 1)
    BY DEF P
  <2> QED BY <2>3, <2>4, <2>5
<1>5. \A i \in 1 .. 8 : ~(i <= w) => x[i] = 0
  OBVIOUS
<1>6. z(0) = n /\ z(w) = 0
  <2>1. z(0) = n
    BY <1>2, <1>3
  <2>2. n \div P(w) = 0
    BY <1>1, <1>2
  <2> QED BY <1>1, <2>1, <2>2
<1>7. \A i \in 0 .. 8 : z(i) \in Int
  BY <1>1, <1>2
<1> HIDE DEF z
<1>8. CASE w = 1 BY <1>4, <1>5, <1>6, <1>7, <1>8
<1>9. CASE w = 2 BY <1>4, <1>5, <1>6, <1>7, <1>9
<1>10. CASE w = 4 BY <1>4, <1>5, <1>6, <1>7, <1>10
<1>11. CASE w = 8 BY <1>4, <1>5, <1>6, <1>7, <1>11
<1> QED BY <1>8, <1>9, <1>10, <1>11

LEMMA OrderInjective ==
  ASSUME NEW w \in Nat, NEW f \in Orders(w), NEW i \in 1 .. w, NEW j \in 1 .. w, f[i] = f[j]
  PROVE  i = j
<1> DEFINE S == 1 .. w
           R == 0 .. w - 1
<1>1. IsFiniteSet(S) /\ Cardinality(S) = w /\ Cardinality(R) = w
  BY FS_Interval
<1>2. f \in [S -> R] /\ {f[k] : k \in S} = R
  BY DEF Orders
<1>3. f \in Surjection(S, R)
  BY <1>2 DEF Surjection
<1>4. f \in Injection(S, R)
  BY <1>1, <1>3, FS_SurjSameCardinalityImpliesInj
<1> QED BY <1>4 DEF Injection, IsInjective

(* A number that is stored in a byte order is read back in that order. *)
LEMMA WordStored ==
  ASSUME NEW t, TagOK(t), NEW w \in {1, 2, 4, 8}, NEW f \in Orders(w), NEW o \in Int,
         Buffer!Fits(t, o, w), NEW n \in 0 .. Buffer!Power(w) - 1
  PROVE  Buffer!Word(Buffer!Store(t, f, o, n), f, o) = n
<1> DEFINE At(p) == CHOOSE i \in DOMAIN f : p = o + f[i]
           byte(i) == (n \div Buffer!Power(i - 1)) % Buffer!Base
           d == [p \in DOMAIN t.data |->
                   IF \E i \in DOMAIN f : p = o + f[i] THEN byte(At(p)) ELSE t.data[p]]
           u == Buffer!Store(t, f, o, n)
           x == [i \in 1 .. 8 |-> IF i \in DOMAIN f THEN u.data[o + f[i]] * Buffer!Power(i - 1) ELSE 0]
<1>1. u = [t EXCEPT !.data = d]
  BY DEF Buffer!Store, TagOK, Contents
<1>2. u.data = d
  BY <1>1 DEF TagOK, Contents
<1>3. f \in [1 .. w -> 0 .. w - 1] /\ DOMAIN f = 1 .. w
  BY OrderFacts
<1>4. ASSUME NEW i \in 1 .. w
      PROVE  d[o + f[i]] = byte(i)
  <2>1. o + f[i] \in DOMAIN t.data
    BY <1>3, SMTT(30) DEF TagOK, Contents, Buffer!Fits
  <2>2. At(o + f[i]) \in DOMAIN f /\ o + f[i] = o + f[At(o + f[i])]
    BY <1>3
  <2> HIDE DEF At
  <2>3. f[i] = f[At(o + f[i])]
    BY <1>3, <2>2
  <2>4. At(o + f[i]) = i
    BY <1>3, <2>2, <2>3, OrderInjective
  <2> HIDE DEF byte
  <2> QED BY <1>3, <2>1, <2>4
<1> HIDE DEF d, u
<1>5. \A i \in 1 .. 8 : x[i] = IF i <= w THEN byte(i) * Buffer!Power(i - 1) ELSE 0
  BY <1>2, <1>3, <1>4
<1>6. x[1] + x[2] + x[3] + x[4] + x[5] + x[6] + x[7] + x[8] = n
  <2> HIDE DEF x
  <2> QED BY <1>5, Expansion
<1>7. Buffer!Word(u, f, o) = x[1] + x[2] + x[3] + x[4] + x[5] + x[6] + x[7] + x[8]
  BY DEF Buffer!Word
<1> QED BY <1>6, <1>7 DEF u

(* A bit that is stored is read back. *)
LEMMA BitStored ==
  ASSUME NEW t, TagOK(t), NEW v \in Int, Buffer!SetBitImpl(t, 0, v).rc = "OK", t.bit # Buffer!NoBit
  PROVE  LET u == Buffer!SetBitImpl(t, 0, v).tag
         IN  Buffer!GetBitImpl(u, u.bit) = Buffer!Stops(u, "OK", IF v = 0 THEN 0 ELSE 1)
<1> DEFINE bit == t.bit
           at  == bit \div ByteBits
           k   == bit % ByteBits
           b   == IF v # 0 THEN 1 ELSE 0
           old == (t.data[at] \div Buffer!Shifted(k)) % 2
           tt  == Buffer!Touch(t)
           r   == Buffer!SetBitImpl(t, 0, v)
           x   == t.data[at] + (b - old) * Buffer!Shifted(k)
           d   == [t.data EXCEPT ![at] = x]
           new_ == [tt EXCEPT !.data[at] = @ + (b - old) * Buffer!Shifted(k)]
<1>1. \/ r = Buffer!Stops(t, "NO_DATA", 0)
      \/ r = Buffer!Stops(t, "OUT_OF_BOUNDS", 0)
      \/ bit >= 0 /\ at < t.size /\ r = Buffer!Result(new_, "OK", 0)
  BY Zenon DEF Buffer!SetBitImpl
<1>2. bit >= 0 /\ at < t.size /\ r = Buffer!Result(new_, "OK", 0)
  BY <1>1 DEF Buffer!Stops, Buffer!Result
<1>3. ByteBits \in 1 .. 8 /\ bit \in Nat
  BY <1>2, DataAssumption DEF Buffer!TagDataAssumption, TagOK, Contents
<1>4. k \in 0 .. ByteBits - 1 /\ at \in Nat
  BY <1>3
<1>5. DOMAIN t.data = 0 .. t.size - 1 /\ t.size \in Nat
  BY DEF TagOK, Contents
<1>6. at \in DOMAIN t.data /\ t.data[at] \in Buffer!Byte
  BY <1>2, <1>4, <1>5 DEF TagOK
<1>7. b \in {0, 1}
  OBVIOUS
<1>8. x \in Buffer!Byte /\ (x \div Buffer!Shifted(k)) % 2 = b
  <2> HIDE DEF b
  <2> QED BY <1>4, <1>6, <1>7, BitByte
<1>9. TagOK(tt) /\ Same(tt, t) /\ tt.data = t.data
  BY TouchKeep
<1>10. new_ = [tt EXCEPT !.data = d]
  BY <1>9 DEF TagOK, Contents
<1> HIDE DEF x
<1>11. d \in [DOMAIN tt.data -> Buffer!Byte] /\ d[at] = x
  BY <1>6, <1>8, <1>9 DEF TagOK
<1> HIDE DEF d, tt, new_
<1>12. Same(new_, t) /\ new_.data = d
  BY <1>9, <1>10, <1>11, DataKeep DEF Same
<1>13. new_.bit = bit /\ new_.size = t.size /\ new_.data[at] = x
  BY <1>11, <1>12 DEF Same
<1>14. Buffer!HasData(new_)
  BY <1>2, <1>4, <1>5, <1>13 DEF Buffer!HasData
<1>15. new_.bit = IF new_.bit = Buffer!NoBit THEN new_.bit ELSE new_.bit
  OBVIOUS
<1> HIDE DEF at, k, b, r, bit
<1>16. Buffer!GetBitImpl(new_, new_.bit) =
         Buffer!Stops(new_, "OK", (new_.data[bit \div ByteBits] \div Buffer!Shifted(bit % ByteBits)) % 2)
  <2> DEFINE G(o) == o >= 0 /\ o \div ByteBits < new_.size
  <2>1. G(bit)
    BY <1>2, <1>13 DEF at
  <2> QED BY <1>13, <1>14, <2>1, Zenon DEF Buffer!GetBitImpl, G
<1>17. (new_.data[bit \div ByteBits] \div Buffer!Shifted(bit % ByteBits)) % 2 = IF v = 0 THEN 0 ELSE 1
  <2>1. (new_.data[at] \div Buffer!Shifted(k)) % 2 = b
    BY <1>8, <1>13
  <2> QED BY <2>1 DEF at, k, b
<1>18. r.tag = new_
  BY <1>2 DEF Buffer!Result
<1> QED BY <1>16, <1>17, <1>18 DEF r

(* What the getters of numbers give, of numbers and of bits. *)
Meaning(k, n) == IF k \in Buffer!Signeds THEN Buffer!Signed(n, Buffer!Width[k]) ELSE n

LEMMA GetterReads ==
  ASSUME NEW t, TagOK(t), NEW k \in Buffer!Types, NEW o, Buffer!HasData(t)
  PROVE  LET b == Buffer!GetBitImpl(t, t.bit)
             n == Buffer!Word(t, OrderOf(k, t), o)
         IN  /\ t.bit = Buffer!NoBit /\ Buffer!Fits(t, o, Buffer!Width[k])
                  => Buffer!Getter(k, t, o) = Buffer!Stops(t, "OK", Meaning(k, n))
             /\ t.bit # Buffer!NoBit /\ k \notin Buffer!Floats /\ b.rc = "OK" => Buffer!Getter(k, t, o) = b
<1> DEFINE b == Buffer!GetBitImpl(t, t.bit)
           f == OrderOf(k, t)
           n == Buffer!Word(t, f, o)
           w == Len(f)
           r == Buffer!Getter(k, t, o)
           Number(val) == t.bit = Buffer!NoBit /\ Buffer!Fits(t, o, w) => r = Buffer!Stops(t, "OK", val)
           Bit == t.bit # Buffer!NoBit /\ b.rc = "OK" => r = b
<1>1. Buffer!Width[k] = w
  BY OrderTypes, OrderFacts
<1>2. /\ k \in Buffer!Signeds => Number(Buffer!Signed(n, w)) /\ Bit
      /\ k \notin Buffer!Signeds => Number(n) /\ (k \notin Buffer!Floats => Bit)
  <2> USE DEF Buffer!Getter, Buffer!GetInt, Buffer!GetFloat, Buffer!Raw, Buffer!Signeds, Buffer!Floats, OrderOf, OrderField
  <2>1. CASE k = "uint64" BY <2>1, Zenon DEF Buffer!GetUint64
  <2>2. CASE k = "int64" BY <2>2, Zenon DEF Buffer!GetInt64
  <2>3. CASE k = "uint32" BY <2>3, Zenon DEF Buffer!GetUint32
  <2>4. CASE k = "int32" BY <2>4, Zenon DEF Buffer!GetInt32
  <2>5. CASE k = "uint16" BY <2>5, Zenon DEF Buffer!GetUint16
  <2>6. CASE k = "int16" BY <2>6, Zenon DEF Buffer!GetInt16
  <2>7. CASE k = "uint8" BY <2>7, Zenon DEF Buffer!GetUint8
  <2>8. CASE k = "int8" BY <2>8, Zenon DEF Buffer!GetInt8
  <2>9. CASE k = "float64" BY <2>9, Zenon DEF Buffer!GetFloat64
  <2>10. CASE k = "float32" BY <2>10, Zenon DEF Buffer!GetFloat32
  <2> QED BY <2>1, <2>2, <2>3, <2>4, <2>5, <2>6, <2>7, <2>8, <2>9, <2>10, Zenon DEF Buffer!Types
<1>3. /\ t.bit = Buffer!NoBit /\ Buffer!Fits(t, o, Buffer!Width[k]) => r = Buffer!Stops(t, "OK", Meaning(k, n))
      /\ t.bit # Buffer!NoBit /\ k \notin Buffer!Floats /\ b.rc = "OK" => r = b
  <2> HIDE DEF r, n, b, f
  <2>1. k \in Buffer!Signeds => k \notin Buffer!Floats
    BY DEF Buffer!Signeds, Buffer!Floats
  <2> QED BY <1>1, <1>2, <2>1, Zenon DEF Meaning
<1> QED BY <1>3, Zenon

LEMMA SetterOK ==
  ASSUME NEW t, NEW k \in Buffer!Types, NEW o, NEW v, Buffer!Setter(k, t, o, v).rc = "OK"
  PROVE  LET r == Buffer!Setter(k, t, o, v)
             f == OrderOf(k, t)
         IN  /\ Buffer!HasData(t)
             /\ t.bit = Buffer!NoBit =>
                  /\ Buffer!Fits(t, o, Len(f))
                  /\ r.tag = Buffer!Store(Buffer!Touch(t), f, o, Buffer!Unsigned(v, Len(f)))
             /\ t.bit # Buffer!NoBit => k \notin Buffer!Floats /\ r = Buffer!SetBitImpl(t, 0, v)
<1> DEFINE r == Buffer!Setter(k, t, o, v)
           f == OrderOf(k, t)
           s == Buffer!Result(Buffer!Store(Buffer!Touch(t), f, o, Buffer!Unsigned(v, Len(f))), "OK", 0)
<1>1. \/ r = IF k \in Buffer!Floats THEN Buffer!SetFloat(t, f, o, v) ELSE Buffer!SetInt(t, f, o, v)
      \/ r = Buffer!Stops(t, "OUT_OF_BOUNDS", 0)
  BY SetterForms
<1>2. \/ \E code \in {"NO_DATA", "OUT_OF_BOUNDS", "UNSUPPORTED"} : r = Buffer!Stops(t, code, 0)
      \/ Buffer!HasData(t) /\ t.bit = Buffer!NoBit /\ Buffer!Fits(t, o, Len(f)) /\ r = s
      \/ Buffer!HasData(t) /\ t.bit # Buffer!NoBit /\ k \notin Buffer!Floats /\ r = Buffer!SetBitImpl(t, 0, v)
  <2> HIDE DEF r, f
  <2>1. CASE k \in Buffer!Floats
    BY <1>1, <2>1, Zenon DEF Buffer!SetFloat
  <2>2. CASE k \notin Buffer!Floats
    BY <1>1, <2>2, Zenon DEF Buffer!SetInt
  <2> QED BY <2>1, <2>2
<1>3. \A code \in {"NO_DATA", "OUT_OF_BOUNDS", "UNSUPPORTED"} : Buffer!Stops(t, code, 0).rc # "OK"
  BY DEF Buffer!Stops, Buffer!Result
<1>4. s.tag = Buffer!Store(Buffer!Touch(t), f, o, Buffer!Unsigned(v, Len(f)))
  BY DEF Buffer!Result
<1> HIDE DEF r, s, f
<1>5. r.rc = "OK"
  BY DEF r
<1>6. /\ Buffer!HasData(t)
      /\ t.bit = Buffer!NoBit =>
           /\ Buffer!Fits(t, o, Len(f))
           /\ r.tag = Buffer!Store(Buffer!Touch(t), f, o, Buffer!Unsigned(v, Len(f)))
      /\ t.bit # Buffer!NoBit => k \notin Buffer!Floats /\ r = Buffer!SetBitImpl(t, 0, v)
  BY <1>2, <1>3, <1>4, <1>5, Zenon
<1> QED BY <1>6, Zenon DEF r, f

(* A number that fits is what its bytes mean. *)
LEMMA FitMeans ==
  ASSUME NEW k \in Buffer!Types, NEW v \in Int, Buffer!Fit(k, v)
  PROVE  LET n == Buffer!Unsigned(v, Buffer!Width[k])
         IN  n \in 0 .. Buffer!Power(Buffer!Width[k]) - 1 /\ Meaning(k, n) = v
<1> DEFINE w == Buffer!Width[k]
           L == Buffer!Power(w)
           n == v % L
<1>1. w \in 0 .. 8
  BY DEF Buffer!Types, Buffer!Width
<1>2. L \in Nat \ {0}
  BY <1>1, PowerFacts
<1> HIDE DEF w, L
<1>3. n \in 0 .. L - 1
  BY <1>2
<1>4. CASE k \in Buffer!Signeds
  <2>1. 2 * v \in -L .. L - 1
    BY <1>4 DEF Buffer!Fit, Buffer!Limit, w, L
  <2>2. n = IF v >= 0 THEN v ELSE v + L
    BY <1>2, <2>1
  <2>3. (IF 2 * n < L THEN n ELSE n - L) = v
    BY <1>2, <2>1, <2>2
  <2> QED BY <1>3, <1>4, <2>3 DEF Meaning, Buffer!Signed, Buffer!Unsigned, Buffer!Limit, w, L
<1>5. CASE k \notin Buffer!Signeds
  <2>1. v \in 0 .. L - 1
    BY <1>5 DEF Buffer!Fit, Buffer!MaxUnsigned, Buffer!Limit, w, L
  <2>2. n = v
    BY <1>2, <2>1
  <2> QED BY <1>3, <1>5, <2>2 DEF Meaning, Buffer!Unsigned, Buffer!Limit, w, L
<1> QED BY <1>4, <1>5

LEMMA ReadBack ==
  ASSUME NEW t, TagOK(t), NEW k \in Buffer!Types, NEW o \in Int, NEW v \in Int,
         Buffer!Fit(k, v), Buffer!Setter(k, t, o, v).rc = "OK"
  PROVE  LET get == Buffer!Getter(k, Buffer!Setter(k, t, o, v).tag, o)
         IN  get.rc = "OK" /\ get.val = IF t.bit = Buffer!NoBit THEN v ELSE IF v = 0 THEN 0 ELSE 1
<1> DEFINE r == Buffer!Setter(k, t, o, v)
           u == r.tag
           get == Buffer!Getter(k, u, o)
           w == Buffer!Width[k]
           f == OrderOf(k, t)
<1>1. w \in {1, 2, 4, 8} /\ f \in Orders(w) /\ Len(f) = w
  BY OrderTypes, OrderFacts
<1>2. TagOK(u) /\ Same(u, t)
  BY SetterStores DEF Stored
<1>3. /\ Buffer!HasData(t)
      /\ t.bit = Buffer!NoBit => /\ Buffer!Fits(t, o, w)
                                 /\ u = Buffer!Store(Buffer!Touch(t), f, o, Buffer!Unsigned(v, w))
      /\ t.bit # Buffer!NoBit => k \notin Buffer!Floats /\ r = Buffer!SetBitImpl(t, 0, v)
  BY <1>1, SetterOK, ZenonT(60)
<1>4. r.rc = "OK"
  OBVIOUS
<1>5. OrderOf(k, u) = f /\ u.bit = t.bit /\ u.size = t.size
  BY <1>2 DEF OrderOf, Same
<1> HIDE DEF r, f, w
<1>6. Buffer!HasData(u)
  BY <1>3, <1>5 DEF Buffer!HasData
<1>7. CASE t.bit = Buffer!NoBit
  <2> DEFINE tt == Buffer!Touch(t)
             n  == Buffer!Unsigned(v, w)
  <2>1. TagOK(tt) /\ Same(tt, t)
    BY TouchKeep
  <2>2. Buffer!Fits(tt, o, w) /\ Buffer!Fits(u, o, w)
    BY <1>3, <1>5, <1>7, <2>1 DEF Buffer!Fits, Same
  <2>3. n \in 0 .. Buffer!Power(w) - 1 /\ Meaning(k, n) = v
    BY FitMeans DEF w
  <2> HIDE DEF tt, n, u
  <2>4. Buffer!Word(u, f, o) = n
    BY <1>1, <1>3, <1>7, <2>1, <2>2, <2>3, WordStored DEF tt, n
  <2>5. get = Buffer!Stops(u, "OK", v)
    BY <1>2, <1>5, <1>6, <1>7, <2>2, <2>3, <2>4, GetterReads DEF w
  <2> HIDE DEF get
  <2>6. get.rc = "OK" /\ get.val = v
    BY <2>5 DEF Buffer!Stops, Buffer!Result
  <2> QED BY <1>7, <2>6 DEF get, u, r
<1>8. CASE t.bit # Buffer!NoBit
  <2> DEFINE b == Buffer!GetBitImpl(u, u.bit)
             val == IF v = 0 THEN 0 ELSE 1
  <2>1. b = Buffer!Stops(u, "OK", val)
    BY <1>3, <1>4, <1>8, BitStored
  <2>2. b.rc = "OK" /\ b.val = val
    BY <2>1 DEF Buffer!Stops, Buffer!Result
  <2> HIDE DEF b, u, val
  <2>3. get = b
    BY <1>2, <1>3, <1>5, <1>6, <1>8, <2>2, GetterReads DEF b
  <2> HIDE DEF get
  <2> QED BY <1>8, <2>2, <2>3 DEF get, u, r, val
<1> QED BY <1>7, <1>8

LEMMA NumbersRead ==
  ASSUME BufferInv
  PROVE  Buffer!NumbersReadBack
<1> SUFFICES ASSUME Buffer!Made, NEW k \in Buffer!Types, NEW o \in Offsets, NEW v \in Numbers,
                    Buffer!Fit(k, v), Buffer!Setter(k, tag, o, v).rc = "OK"
             PROVE  LET get == Buffer!Getter(k, Buffer!Setter(k, tag, o, v).tag, o)
                    IN  get.rc = "OK" /\ get.val = IF tag.bit = Buffer!NoBit THEN v ELSE IF v = 0 THEN 0 ELSE 1
  BY DEF Buffer!NumbersReadBack
<1>1. o \in Int /\ v \in Int
  BY DataAssumption DEF Buffer!TagDataAssumption
<1>2. TagOK(tag)
  BY DEF BufferInv
<1> QED BY <1>1, <1>2, ReadBack

-----------------------------------------------------------------------------
(* A string that is stored is read back. *)

(* Where a word's bytes are the same, so is the word. *)
LEMMA WordSame ==
  ASSUME NEW t, NEW u, NEW w \in 1 .. 8, NEW f \in Orders(w), NEW o \in Int,
         \A p \in o .. o + w - 1 : u.data[p] = t.data[p]
  PROVE  Buffer!Word(u, f, o) = Buffer!Word(t, f, o)
<1> DEFINE x == [i \in 1 .. 8 |-> IF i \in DOMAIN f THEN u.data[o + f[i]] * Buffer!Power(i - 1) ELSE 0]
           y == [i \in 1 .. 8 |-> IF i \in DOMAIN f THEN t.data[o + f[i]] * Buffer!Power(i - 1) ELSE 0]
<1>1. f \in [1 .. w -> 0 .. w - 1] /\ DOMAIN f = 1 .. w
  BY OrderFacts
<1>2. \A i \in DOMAIN f : o + f[i] \in o .. o + w - 1
  BY <1>1
<1>3. x = y
  BY <1>2
<1>4. Buffer!Word(u, f, o) = x[1] + x[2] + x[3] + x[4] + x[5] + x[6] + x[7] + x[8]
  BY DEF Buffer!Word
<1>5. Buffer!Word(t, f, o) = y[1] + y[2] + y[3] + y[4] + y[5] + y[6] + y[7] + y[8]
  BY DEF Buffer!Word
<1> HIDE DEF x, y
<1> QED BY <1>3, <1>4, <1>5

(* The length that a tag's count word stands for is the one that was       *)
(* stored, if it fits the word as a signed number.                         *)
CountOrder(bo) == IF bo.count = 2 THEN bo.int16 ELSE IF bo.count = 4 THEN bo.int32 ELSE Buffer!Little(1)

LEMMA CountOrderTyped ==
  ASSUME NEW t, TagOK(t), t.bo.count \in {1, 2, 4}
  PROVE  CountOrder(t.bo) \in Orders(t.bo.count)
<1>1. Buffer!Little(1) \in Orders(1)
  BY DEF Orders, Buffer!Little
<1>2. t.bo.int16 \in Orders(2) /\ t.bo.int32 \in Orders(4)
  BY DEF TagOK, Contents, ByteOrders
<1> QED BY <1>1, <1>2 DEF CountOrder

LEMMA CountedStored ==
  ASSUME NEW t, TagOK(t), NEW o \in Nat, NEW len \in Nat, t.bo.counted = 1,
         Buffer!Counted(t, o, len).rc = "OK"
  PROVE  /\ t.bo.count \in {1, 2, 4} /\ o + t.bo.count <= t.size
         /\ len \in 0 .. Buffer!Power(t.bo.count) - 1
         /\ Buffer!Word(Buffer!Counted(t, o, len).tag, CountOrder(t.bo), o) = len
<1> DEFINE order == CASE t.bo.count = 2 -> t.bo.int16 [] t.bo.count = 4 -> t.bo.int32 [] OTHER -> Buffer!Little(1)
           r == Buffer!Counted(t, o, len)
           stored == Buffer!Store(t, order, o, len)
<1>1. t.bo.count \in {0, 1, 2, 4, 8} /\ t.size \in Nat
  BY DEF TagOK, Contents, ByteOrders
<1>2. Buffer!Power(t.bo.count) \in Nat \ {0}
  BY <1>1, PowerFacts
<1>3. o + t.bo.count > t.size \/ o + t.bo.count <= t.size
  BY <1>1
<1>4. len >= Buffer!Power(t.bo.count) \/ len < Buffer!Power(t.bo.count)
  BY <1>2
<1> DEFINE Fine(x) == x.rc # "OK" \/ /\ o + t.bo.count <= t.size /\ t.bo.count \in {1, 2, 4}
                                     /\ ~(len >= Buffer!Power(t.bo.count))
                                     /\ x = Buffer!Result(stored, "OK", 0)
<1>5. \A code \in {"OUT_OF_BOUNDS", "UNSUPPORTED", "TOO_LARGE"} : Fine(Buffer!Stops(t, code, 0))
  BY DEF Buffer!Stops, Buffer!Result
<1>6. o + t.bo.count <= t.size /\ t.bo.count \in {1, 2, 4} /\ ~(len >= Buffer!Power(t.bo.count))
        => Fine(Buffer!Result(stored, "OK", 0))
  <2> HIDE DEF stored
  <2> QED OBVIOUS
<1> HIDE DEF Fine
<1>7. Fine(r)
  <2>1. t.bo.counted # 0
    OBVIOUS
  <2> QED BY <1>3, <1>4, <1>5, <1>6, <2>1, Zenon DEF Buffer!Counted, Buffer!Limit
<1>8. /\ o + t.bo.count <= t.size /\ t.bo.count \in {1, 2, 4} /\ ~(len >= Buffer!Power(t.bo.count))
      /\ r = Buffer!Result(stored, "OK", 0)
  <2> HIDE DEF r, stored
  <2>1. r.rc = "OK"
    BY DEF r
  <2> QED BY <1>7, <2>1, Zenon DEF Fine
<1>9. order = CountOrder(t.bo)
  <2>1. 2 # 4
    OBVIOUS
  <2> QED BY <2>1, Zenon DEF CountOrder
<1>10. len \in 0 .. Buffer!Power(t.bo.count) - 1
  BY <1>2, <1>8
<1>11. r.tag = Buffer!Store(t, CountOrder(t.bo), o, len)
  <2> HIDE DEF order
  <2> QED BY <1>8, <1>9 DEF Buffer!Result
<1> HIDE DEF r
<1>12. Buffer!Word(r.tag, CountOrder(t.bo), o) = len
  <2>1. CountOrder(t.bo) \in Orders(t.bo.count)
    BY <1>8, CountOrderTyped
  <2>2. Buffer!Fits(t, o, t.bo.count) /\ t.bo.count \in {1, 2, 4, 8}
    BY <1>8 DEF Buffer!Fits
  <2> QED BY <1>10, <1>11, <2>1, <2>2, WordStored
<1> QED BY <1>8, <1>10, <1>12 DEF r

LEMMA CountedLength ==
  ASSUME NEW t, TagOK(t), NEW o \in Nat, NEW len \in Nat, t.bo.counted = 1, t.bo.count \in {1, 2, 4},
         t.bo.count > 1 => 2 * len < Buffer!Power(t.bo.count),
         Buffer!Word(t, CountOrder(t.bo), o) = len, o + t.bo.count <= t.size
  PROVE  Buffer!StringLength(t, o) = len
<1>1. CASE t.bo.count = 1
  <2> DEFINE f == Buffer!Little(1)
  <2>1. CountOrder(t.bo) = f
    BY <1>1 DEF CountOrder
  <2>2. DOMAIN f = {1} /\ f[1] = 0
    BY DEF Buffer!Little
  <2>3. t.data[o] \in Int
    <3>1. o \in 0 .. t.size - 1
      BY <1>1 DEF TagOK, Contents
    <3>2. t.data[o] \in Buffer!Byte
      BY <3>1 DEF TagOK
    <3>3. \A x \in Buffer!Byte : x \in Int
      BY ByteFacts
    <3> HIDE DEF Buffer!Byte
    <3> QED BY <3>2, <3>3, Zenon
  <2>4. Buffer!Power(0) = 1
    BY PowerSteps
  <2> HIDE DEF f
  <2>5. Buffer!Word(t, f, o) = t.data[o]
    BY <2>2, <2>3, <2>4 DEF Buffer!Word
  <2>6. 1 # 2 /\ 1 # 4
    OBVIOUS
  <2>7. t.data[o] = len
    BY <2>1, <2>5, Zenon
  <2> QED BY <1>1, <2>6, <2>7, Zenon DEF Buffer!StringLength
<1>2. CASE t.bo.count = 2
  <2>1. Buffer!Signed(len, 2) = len
    BY <1>2 DEF Buffer!Signed, Buffer!Limit
  <2>2. CountOrder(t.bo) = t.bo.int16 /\ 2 # 1 /\ 2 # 4
    BY <1>2 DEF CountOrder
  <2>3. Buffer!Word(t, t.bo.int16, o) = len
    BY <2>2, Zenon
  <2> QED BY <1>2, <2>1, <2>2, <2>3, Zenon DEF Buffer!StringLength
<1>3. CASE t.bo.count = 4
  <2>1. Buffer!Signed(len, 4) = len
    BY <1>3 DEF Buffer!Signed, Buffer!Limit
  <2>2. CountOrder(t.bo) = t.bo.int32 /\ 4 # 1 /\ 4 # 2
    BY <1>3 DEF CountOrder
  <2>3. Buffer!Word(t, t.bo.int32, o) = len
    BY <2>2, Zenon
  <2> QED BY <1>3, <2>1, <2>2, <2>3, Zenon DEF Buffer!StringLength
<1> QED BY <1>1, <1>2, <1>3

(* Swapping the bytes of a string maps its positions one to one. *)
LEMMA SwapFacts ==
  ASSUME NEW t, TagOK(t), NEW i \in Nat, NEW j \in Nat
  PROVE  /\ Buffer!Swap(t, i) \in Nat
         /\ Buffer!Swap(t, i) = Buffer!Swap(t, j) => i = j
         /\ t.bo.swapped = 0 => Buffer!Swap(t, i) = i
         /\ i < j /\ (t.bo.swapped = 1 => j % 2 = 0) => Buffer!Swap(t, i) < j
         /\ t.bo.swapped = 1 /\ i % 2 = 0 => Buffer!Swap(t, i) = i + 1
<1>1. /\ Buffer!Swap(t, i) = IF t.bo.swapped = 0 THEN i ELSE IF i % 2 = 1 THEN i - 1 ELSE i + 1
      /\ Buffer!Swap(t, j) = IF t.bo.swapped = 0 THEN j ELSE IF j % 2 = 1 THEN j - 1 ELSE j + 1
  BY SwapForms
<1>2. t.bo.swapped \in {0, 1}
  BY DEF TagOK, Contents, ByteOrders
<1> DEFINE a == Buffer!Swap(t, i)
           b == Buffer!Swap(t, j)
           flip == t.bo.swapped
<1> HIDE DEF a, b, flip
<1>3. flip = 0 => a = i /\ b = j
  BY <1>1 DEF a, b, flip
<1>4. flip = 1 => a = (IF i % 2 = 1 THEN i - 1 ELSE i + 1) /\ b = (IF j % 2 = 1 THEN j - 1 ELSE j + 1)
  BY <1>1 DEF a, b, flip
<1>5. /\ a \in Nat
      /\ a = b => i = j
      /\ flip = 0 => a = i
      /\ i < j /\ (flip = 1 => j % 2 = 0) => a < j
      /\ flip = 1 /\ i % 2 = 0 => a = i + 1
  <2>1. CASE flip = 0 BY <1>3, <2>1
  <2>2. CASE flip = 1 BY <1>4, <2>2
  <2> QED BY <1>2, <2>1, <2>2 DEF flip
<1> QED BY <1>5 DEF a, b, flip

LEMMA CopiedStored ==
  ASSUME NEW t, TagOK(t), NEW start \in Nat, NEW s \in Seq(Buffer!Byte), Buffer!Copied(t, start, s).rc = "OK",
         NEW i \in 0 .. Len(s) - 1
  PROVE  /\ start + Buffer!Swap(t, i) \in 0 .. t.size - 1
         /\ Buffer!Copied(t, start, s).tag.data[start + Buffer!Swap(t, i)] = s[i + 1]
<1> DEFINE in(j)  == start + Buffer!Swap(t, j) < t.size
           fits   == \A j \in 0 .. Len(s) - 1 : in(j)
           copies == {j \in 0 .. Len(s) - 1 : \A l \in 0 .. j : in(l)}
           target == [p \in DOMAIN t.data |-> {j \in copies : p = start + Buffer!Swap(t, j)}]
           d      == [p \in DOMAIN t.data |->
                        IF target[p] = {} THEN t.data[p] ELSE s[(CHOOSE j \in target[p] : TRUE) + 1]]
           done   == [t EXCEPT !.data = d]
           q      == start + Buffer!Swap(t, i)
<1>1. Buffer!Copied(t, start, s) = IF fits THEN Buffer!Result(done, "OK", 0) ELSE Buffer!Stops(done, "OUT_OF_BOUNDS", 0)
  BY DEF Buffer!Copied, TagOK, Contents
<1>2. fits
  <2>1. Buffer!Stops(done, "OUT_OF_BOUNDS", 0).rc # "OK"
    BY DEF Buffer!Stops, Buffer!Result
  <2> HIDE DEF fits, done
  <2> QED BY <1>1, <2>1, Zenon
<1>3. i \in Nat /\ Len(s) \in Nat /\ t.size \in Nat /\ DOMAIN t.data = 0 .. t.size - 1
  BY DEF TagOK, Contents
<1>4. Buffer!Swap(t, i) \in Nat
  BY <1>3, SwapFacts
<1>5. q \in 0 .. t.size - 1
  BY <1>2, <1>3, <1>4, SMTT(30)
<1>6. i \in copies
  BY <1>2, <1>3
<1>7. q \in DOMAIN t.data /\ i \in target[q]
  BY <1>3, <1>5, <1>6
<1>8. \A j \in copies : j \in Nat
  OBVIOUS
<1>9. \A j \in target[q] : j = i
  <2>1. TAKE j \in target[q]
  <2>2. j \in Nat /\ q = start + Buffer!Swap(t, j)
    BY <1>7, <1>8
  <2>3. Buffer!Swap(t, j) \in Nat
    BY <2>2, SwapFacts
  <2>4. Buffer!Swap(t, i) = Buffer!Swap(t, j)
    BY <1>4, <2>2, <2>3
  <2> QED BY <1>3, <2>2, <2>4, SwapFacts
<1> HIDE DEF target, q
<1>10. (CHOOSE j \in target[q] : TRUE) = i
  BY <1>7, <1>9
<1>11. d[q] = s[i + 1]
  BY <1>7, <1>10
<1>12. done.data = d
  BY DEF TagOK, Contents
<1> HIDE DEF d, done, fits
<1>13. Buffer!Copied(t, start, s).tag.data[q] = s[i + 1]
  BY <1>1, <1>2, <1>11, <1>12 DEF Buffer!Result
<1> QED BY <1>5, <1>13 DEF q

LEMMA TerminatedStored ==
  ASSUME NEW t, TagOK(t), NEW p \in Nat, t.bo.zero = 1, Buffer!Terminated(t, p).rc = "OK"
  PROVE  p < t.size /\ Buffer!Terminated(t, p).tag.data[p] = 0
<1>1. \/ Buffer!Terminated(t, p) = Buffer!Result(t, "OUT_OF_BOUNDS", 0)
      \/ p < t.size /\ Buffer!Terminated(t, p) = Buffer!Result([t EXCEPT !.data[p] = 0], "OK", 0)
  <2>1. 0 # 1
    OBVIOUS
  <2> QED BY <2>1, Zenon DEF Buffer!Terminated
<1>2. Buffer!Result(t, "OUT_OF_BOUNDS", 0).rc # "OK"
  BY DEF Buffer!Result
<1>3. p < t.size /\ Buffer!Terminated(t, p) = Buffer!Result([t EXCEPT !.data[p] = 0], "OK", 0)
  BY <1>1, <1>2
<1>4. p \in DOMAIN t.data
  BY <1>3 DEF TagOK, Contents
<1> QED BY <1>3, <1>4 DEF Buffer!Result, TagOK, Contents

(* The end of a string without a count word *)
LEMMA ZeroLength ==
  ASSUME NEW t, TagOK(t), NEW o \in Nat, NEW len \in Nat, t.bo.counted = 0, t.bo.count = 0,
         t.bo.zero = 1, t.bo.swapped = 0, o + len < t.size, t.data[o + len] = 0,
         \A i \in 0 .. len - 1 : t.data[o + i] # 0
  PROVE  Buffer!StringLength(t, o) = len
<1> DEFINE last == t.size - o - t.bo.count
           ends == {i \in 0 .. last : i = last \/ t.data[Buffer!CharAt(t, o, i)] = 0}
<1>1. t.size \in Nat /\ last = t.size - o
  BY DEF TagOK, Contents
<1>2. \A i \in Nat : Buffer!CharAt(t, o, i) = o + i
  <2>1. \A i \in Nat : Buffer!Swap(t, i) = i
    BY SwapFacts
  <2> QED BY <2>1 DEF Buffer!CharAt
<1>3. len \in ends
  BY <1>1, <1>2
<1>4. \A i \in ends : len <= i /\ i \in Nat
  BY <1>1, <1>2
<1> HIDE DEF ends
<1>5. (CHOOSE x \in ends : \A y \in ends : x <= y) = len
  <2> DEFINE m == CHOOSE x \in ends : \A y \in ends : x <= y
  <2>1. \A y \in ends : len <= y
    BY <1>4
  <2>2. m \in ends /\ \A y \in ends : m <= y
    BY <1>3, <2>1, Zenon
  <2> HIDE DEF m
  <2>3. m <= len /\ len <= m /\ m \in Nat
    BY <1>3, <1>4, <2>2
  <2>4. m = len
    BY <2>3
  <2> QED BY <2>4 DEF m
<1>6. Buffer!Min(ends) = len
  BY <1>5, Zenon DEF Buffer!Min
<1>7. 0 # 1
  OBVIOUS
<1> QED BY <1>6, <1>7, Zenon DEF Buffer!StringLength, ends, last

-----------------------------------------------------------------------------
(* What plc_tag_set_string() leaves in the buffer: the count word, the     *)
(* characters and the terminator, each where a getter looks for it.        *)
RegularIn(bo, s) ==
  /\ \A i \in DOMAIN s : s[i] # 0
  /\ ~(bo.swapped = 1 /\ bo.zero = 1 /\ Len(s) % 2 = 1)
  /\ IF bo.counted = 1 THEN bo.count > 1 => 2 * Len(s) < Buffer!Limit(bo.count)
     ELSE bo.count = 0 /\ bo.zero = 1 /\ bo.swapped = 0

Holds(u, t, o, s) ==
  /\ TagOK(u) /\ u.bo = t.bo /\ u.bit = Buffer!NoBit /\ u.bo.defined
  /\ Start(t, o) = o + t.bo.count
  /\ u.size = t.size + New(t, s) - Old(t, o)
  /\ \A i \in 0 .. Len(s) - 1 :
       /\ Start(t, o) + Buffer!Swap(t, i) < u.size
       /\ u.data[Start(t, o) + Buffer!Swap(t, i)] = s[i + 1]
  /\ t.bo.counted = 1 => /\ t.bo.count \in {1, 2, 4} /\ o + t.bo.count <= u.size
                         /\ Buffer!Word(u, CountOrder(t.bo), o) = Len(s)
  /\ t.bo.zero = 1 => Start(t, o) + Len(s) < u.size /\ u.data[Start(t, o) + Len(s)] = 0

LEMMA SetStringHolds ==
  ASSUME NEW t, TagOK(t), NEW o \in Int, Buffer!StringRoom(t, o), NEW s \in Seq(Buffer!Byte), NEW alloc,
         RegularIn(t.bo, s), Buffer!SetString(t, o, s, alloc).rc = "OK"
  PROVE  Holds(Buffer!SetString(t, o, s, alloc).tag, t, o, s)
<1> DEFINE set == Buffer!SetString(t, o, s, alloc)
           u == set.tag
           resized == PartResized(t, o, s, alloc)
           cleared == Buffer!Cleared(resized.tag, o, New(t, s))
           counted == PartCounted(t, o, s, alloc)
           copied  == PartCopied(t, o, s, alloc)
           ended   == PartEnded(t, o, s, alloc)
           word    == IF t.bo.counted = 1 THEN o .. o + t.bo.count - 1 ELSE {}
           chars   == {Start(t, o) + Buffer!Swap(counted.tag, i) : i \in 0 .. Len(s) - 1}
           last    == IF t.bo.zero = 1 THEN {Start(t, o) + Len(s)} ELSE {}
           start   == Start(t, o)
           len     == Len(s)
<1>1. /\ set = Buffer!Result(Buffer!Touch(ended.tag), "OK", 0)
      /\ t.bo.defined /\ t.bit = Buffer!NoBit
      /\ resized.rc = "OK" /\ counted.rc = "OK" /\ copied.rc = "OK" /\ ended.rc = "OK"
  BY SetStringForms, ZenonT(60) DEF Failed, Finished
<1>2. /\ Shifts(resized, t, o + Old(t, o), o + New(t, s))
      /\ Within(cleared, resized.tag, o .. o + New(t, s) - 1)
      /\ Within(counted.tag, cleared, word)
      /\ Within(copied.tag, counted.tag, chars)
      /\ Within(ended.tag, copied.tag, last)
      /\ counted.tag.bo = t.bo
  BY PartsKeep, ZenonT(60)
<1>3. /\ counted = Buffer!Counted(cleared, o, len)
      /\ copied = Buffer!Copied(counted.tag, start, s)
      /\ ended = Buffer!Terminated(copied.tag, start + len)
  BY DEF PartCounted, PartCopied, PartEnded
<1>4. /\ o \in Nat /\ len \in Nat /\ t.bo.count \in Nat /\ t.bo.counted \in {0, 1} /\ t.bo.zero \in {0, 1}
      /\ t.bo.swapped \in {0, 1} /\ New(t, s) \in Int /\ Old(t, o) \in Int /\ t.size \in Nat
  <2>1. New(t, s) \in Int /\ Old(t, o) \in Int
    BY NewIsInt, TotalIsInt, Zenon DEF Old
  <2>2. o \in Nat /\ Len(s) \in Nat
    BY DEF Buffer!StringRoom
  <2> QED BY <2>1, <2>2, SMTT(30) DEF TagOK, Contents, ByteOrders
<1>5. start = o + t.bo.count
  BY <1>4 DEF Start, RegularIn
<1> HIDE DEF set, resized, cleared, counted, copied, ended
<1>6. /\ TagOK(resized.tag) /\ TagOK(cleared) /\ TagOK(counted.tag) /\ TagOK(copied.tag) /\ TagOK(ended.tag)
      /\ resized.tag.bo = t.bo /\ cleared.bo = t.bo /\ copied.tag.bo = t.bo /\ ended.tag.bo = t.bo
      /\ ended.tag.bit = t.bit
      /\ resized.tag.size = t.size + (o + New(t, s)) - (o + Old(t, o))
      /\ cleared.size = resized.tag.size /\ counted.tag.size = resized.tag.size
      /\ copied.tag.size = resized.tag.size /\ ended.tag.size = resized.tag.size
  BY <1>1, <1>2, ZenonT(60) DEF Shifts, Within, Same
<1>7. TagOK(u) /\ u.bo = t.bo /\ u.bit = t.bit /\ u.data = ended.tag.data /\ u.size = ended.tag.size
  BY <1>1, <1>6, TouchKeep DEF Buffer!Result, Same
<1> HIDE DEF u
<1>8. u.size = t.size + New(t, s) - Old(t, o)
  BY <1>4, <1>6, <1>7
<1>9. DOMAIN counted.tag.data = 0 .. u.size - 1 /\ DOMAIN copied.tag.data = 0 .. u.size - 1 /\ u.size \in Nat
  BY <1>6, <1>7 DEF TagOK, Contents
<1>10. \A i : Buffer!Swap(counted.tag, i) = Buffer!Swap(t, i)
  BY <1>2, Zenon DEF Buffer!Swap
<1>11. ASSUME t.bo.counted = 1
       PROVE  /\ t.bo.count \in {1, 2, 4} /\ o + t.bo.count <= u.size
              /\ Buffer!Word(counted.tag, CountOrder(t.bo), o) = len
  BY <1>1, <1>3, <1>4, <1>6, <1>7, <1>11, CountedStored, SMTT(30)
<1>12. start \in Nat
  BY <1>4, <1>5
<1>13. ASSUME NEW i \in 0 .. len - 1
       PROVE  /\ start + Buffer!Swap(t, i) \in 0 .. u.size - 1
              /\ copied.tag.data[start + Buffer!Swap(t, i)] = s[i + 1]
  <2>1. /\ start + Buffer!Swap(counted.tag, i) \in 0 .. counted.tag.size - 1
        /\ copied.tag.data[start + Buffer!Swap(counted.tag, i)] = s[i + 1]
    BY <1>1, <1>3, <1>6, <1>12, CopiedStored, SMTT(30)
  <2> HIDE DEF start
  <2> QED BY <1>6, <1>7, <1>10, <2>1
<1>14. t.bo.zero = 1 => start + len < u.size /\ ended.tag.data[start + len] = 0
  <2>1. start + len \in Nat
    BY <1>4, <1>12
  <2>2. SUFFICES ASSUME t.bo.zero = 1
                 PROVE  start + len < u.size /\ ended.tag.data[start + len] = 0
    OBVIOUS
  <2>3. start + len < copied.tag.size /\ Buffer!Terminated(copied.tag, start + len).tag.data[start + len] = 0
    <3> HIDE DEF start, len
    <3> QED BY <1>1, <1>3, <1>6, <2>1, <2>2, TerminatedStored
  <2> HIDE DEF start, len
  <2> QED BY <1>3, <1>6, <1>7, <2>3
<1>15. ASSUME NEW i \in 0 .. len - 1
       PROVE  /\ start + Buffer!Swap(t, i) < u.size
              /\ u.data[start + Buffer!Swap(t, i)] = s[i + 1]
  <2>1. start + Buffer!Swap(t, i) \notin last
    <3>1. SUFFICES ASSUME t.bo.zero = 1
                   PROVE  start + Buffer!Swap(t, i) # start + len
      BY Zenon
    <3>2. t.bo.swapped = 1 => len % 2 = 0
      BY <1>4, <3>1 DEF RegularIn
    <3>3. i \in Nat /\ i < len
      BY <1>4
    <3>4. Buffer!Swap(t, i) \in Nat /\ Buffer!Swap(t, i) < len
      BY <1>4, <3>2, <3>3, SwapFacts
    <3> HIDE DEF start, len
    <3> QED BY <1>4, <1>12, <3>4
  <2>2. start + Buffer!Swap(t, i) \in 0 .. u.size - 1
    BY <1>13
  <2>3. ended.tag.data[start + Buffer!Swap(t, i)] = copied.tag.data[start + Buffer!Swap(t, i)]
    <3> DEFINE q == start + Buffer!Swap(t, i)
    <3>1. q \notin last /\ q \in DOMAIN copied.tag.data
      BY <1>9, <2>1, <2>2
    <3> HIDE DEF q, last
    <3>2. ended.tag.data[q] = copied.tag.data[q]
      BY <1>2, <3>1, Zenon DEF Within
    <3> QED BY <3>2 DEF q
  <2> HIDE DEF start
  <2> QED BY <1>7, <1>9, <1>13, <2>2, <2>3, SMTT(30)
<1>16. ASSUME t.bo.counted = 1
       PROVE  Buffer!Word(u, CountOrder(t.bo), o) = len
  <2>1. t.bo.count \in {1, 2, 4} /\ o + t.bo.count <= u.size
    BY <1>11, <1>16
  <2>2. ASSUME NEW p \in o .. o + t.bo.count - 1
        PROVE  u.data[p] = counted.tag.data[p]
    <3>1. p \in 0 .. u.size - 1 /\ p < start
      BY <1>4, <1>5, <1>9, <2>1, SMTT(30)
    <3>2. p \notin chars
      <4>1. ASSUME NEW i \in 0 .. len - 1
            PROVE  p # start + Buffer!Swap(counted.tag, i)
        <5>1. i \in Nat
          BY <1>4
        <5>2. Buffer!Swap(counted.tag, i) \in Nat
          BY <1>6, <5>1, SwapFacts
        <5> HIDE DEF start
        <5> QED BY <1>12, <3>1, <5>2
      <4> QED BY <4>1
    <3>3. p \notin last
      <4>1. p # start + len
        <5> HIDE DEF start
        <5> QED BY <1>4, <1>12, <3>1
      <4> QED BY <4>1
    <3> HIDE DEF chars, last
    <3>4. copied.tag.data[p] = counted.tag.data[p]
      BY <1>2, <1>9, <3>1, <3>2, Zenon DEF Within
    <3>5. ended.tag.data[p] = copied.tag.data[p]
      BY <1>2, <1>9, <3>1, <3>3, Zenon DEF Within
    <3> QED BY <1>7, <3>4, <3>5
  <2>3. CountOrder(t.bo) \in Orders(t.bo.count) /\ t.bo.count \in 1 .. 8
    BY <2>1, CountOrderTyped
  <2>4. Buffer!Word(u, CountOrder(t.bo), o) = Buffer!Word(counted.tag, CountOrder(t.bo), o)
    BY <2>2, <2>3, WordSame, ZenonT(60)
  <2> QED BY <1>11, <1>16, <2>4
<1>17. t.bo.zero = 1 => start + len < u.size /\ u.data[start + len] = 0
  BY <1>7, <1>14, Zenon
<1>18. u.bo.defined
  BY <1>1, <1>7, Zenon
<1> HIDE DEF len, start
<1> QED BY <1>1, <1>5, <1>7, <1>8, <1>11, <1>15, <1>16, <1>17, <1>18, Zenon DEF Holds, u, set, len, start

(* What the getters find in such a buffer *)
LEMMA HoldsLength ==
  ASSUME NEW t, TagOK(t), NEW o \in Nat, NEW s \in Seq(Buffer!Byte), RegularIn(t.bo, s), NEW u, Holds(u, t, o, s)
  PROVE  Buffer!StringLength(u, o) = Len(s)
<1>1. TagOK(u) /\ u.bo = t.bo /\ Len(s) \in Nat
  BY DEF Holds
<1>2. CASE t.bo.counted = 1
  <2>1. /\ t.bo.count \in {1, 2, 4} /\ o + t.bo.count <= u.size
        /\ Buffer!Word(u, CountOrder(t.bo), o) = Len(s)
    BY <1>2, Zenon DEF Holds
  <2>2. t.bo.count > 1 => 2 * Len(s) < Buffer!Power(t.bo.count)
    BY <1>2, Zenon DEF RegularIn, Buffer!Limit
  <2> QED BY <1>1, <1>2, <2>1, <2>2, CountedLength
<1>3. CASE t.bo.counted # 1
  <2>1. t.bo.counted = 0 /\ t.bo.count = 0 /\ t.bo.zero = 1 /\ t.bo.swapped = 0
    <3>1. t.bo.counted \in {0, 1}
      BY DEF TagOK, Contents, ByteOrders
    <3> QED BY <1>3, <3>1 DEF RegularIn
  <2>2. Start(t, o) = o
    BY <2>1 DEF Start
  <2>3. o + Len(s) < u.size /\ u.data[o + Len(s)] = 0
    BY <2>1, <2>2 DEF Holds
  <2>4. \A i \in 0 .. Len(s) - 1 : u.data[o + i] # 0
    <3>1. TAKE i \in 0 .. Len(s) - 1
    <3>2. Buffer!Swap(t, i) = i
      BY <2>1, SwapFacts, SMTT(30)
    <3>3. u.data[o + i] = s[i + 1]
      BY <2>2, <3>2 DEF Holds
    <3>4. i + 1 \in DOMAIN s
      BY <1>1
    <3>5. s[i + 1] # 0
      BY <3>4 DEF RegularIn
    <3> QED BY <3>3, <3>5
  <2> QED BY <1>1, <2>1, <2>3, <2>4, ZeroLength
<1> QED BY <1>2, <1>3

LEMMA HoldsRoom ==
  ASSUME NEW t, TagOK(t), NEW o \in Nat, NEW s \in Seq(Buffer!Byte), RegularIn(t.bo, s), NEW u, Holds(u, t, o, s)
  PROVE  o + t.bo.count + Len(s) <= u.size /\ u.size > 0
<1> DEFINE len == Len(s)
           start == o + t.bo.count
<1>1. len \in Nat /\ t.bo.count \in Nat /\ u.size \in Nat /\ start \in Nat
  <2>1. TagOK(u)
    BY Zenon DEF Holds
  <2>2. u.size \in Nat
    BY <2>1 DEF TagOK, Contents
  <2>3. t.bo.count \in Nat
    BY SMTT(30) DEF TagOK, Contents, ByteOrders
  <2> QED BY <2>2, <2>3
<1>2. \A i \in 0 .. len - 1 : start + Buffer!Swap(t, i) < u.size
  BY DEF Holds
<1>3. t.bo.counted = 1 => start <= u.size /\ t.bo.count \in {1, 2, 4}
  BY DEF Holds
<1>4. t.bo.counted # 1 => start + len < u.size
  BY DEF Holds, RegularIn
<1>5. t.bo.swapped \in {0, 1}
  BY DEF TagOK, Contents, ByteOrders
<1>6. CASE len = 0
  BY <1>1, <1>3, <1>4, <1>6
<1>7. CASE len > 0
  <2>1. PICK i \in 0 .. len - 1 : Buffer!Swap(t, i) >= len - 1
    <3>1. \A i : Buffer!Swap(t, i) = IF t.bo.swapped = 0 THEN i ELSE IF i % 2 = 1 THEN i - 1 ELSE i + 1
      BY SwapForms
    <3> HIDE DEF len
    <3>2. CASE t.bo.swapped = 0
      <4>1. len - 1 \in 0 .. len - 1 /\ Buffer!Swap(t, len - 1) = len - 1
        BY <1>1, <1>7, <3>1, <3>2
      <4> QED BY <1>1, <4>1
    <3>3. CASE t.bo.swapped = 1 /\ len % 2 = 1
      <4>1. len - 1 \in 0 .. len - 1 /\ (len - 1) % 2 # 1
        BY <1>1, <1>7, <3>3
      <4>2. Buffer!Swap(t, len - 1) = (len - 1) + 1
        BY <3>1, <3>3, <4>1
      <4> QED BY <1>1, <4>1, <4>2
    <3>4. CASE t.bo.swapped = 1 /\ len % 2 = 0
      <4>1. len - 2 \in 0 .. len - 1 /\ (len - 2) % 2 # 1
        BY <1>1, <1>7, <3>4
      <4>2. Buffer!Swap(t, len - 2) = (len - 2) + 1
        BY <3>1, <3>4, <4>1
      <4> QED BY <1>1, <4>1, <4>2
    <3> QED BY <1>1, <1>5, <3>2, <3>3, <3>4
  <2>2. start + Buffer!Swap(t, i) < u.size
    BY <1>2
  <2>3. Buffer!Swap(t, i) \in Nat
    <3>1. i \in Nat
      BY <1>1
    <3> QED BY <3>1, SwapFacts
  <2> HIDE DEF len, start
  <2>4. start + len <= u.size
    BY <1>1, <2>1, <2>2, <2>3
  <2> QED BY <1>1, <1>7, <2>4 DEF len, start
<1> QED BY <1>1, <1>6, <1>7

LEMMA HoldsString ==
  ASSUME NEW t, TagOK(t), NEW o \in Nat, NEW s \in Seq(Buffer!Byte), RegularIn(t.bo, s), NEW u, Holds(u, t, o, s)
  PROVE  /\ Buffer!GetString(u, o, Len(s)).rc = "OK" /\ Buffer!GetString(u, o, Len(s)).val = s
         /\ Buffer!GetStringLength(u, o).val = Len(s)
<1> DEFINE len == Len(s)
           most == IF len < Buffer!StringLength(u, o) THEN len ELSE Buffer!StringLength(u, o)
           read == [i \in 1 .. most |-> u.data[Buffer!CharAt(u, o, i - 1)]]
           r == Buffer!GetString(u, o, len)
           beyond == \E i \in 0 .. most - 1 : Buffer!CharAt(u, o, i) >= u.size
<1>1. Buffer!StringLength(u, o) = len
  BY HoldsLength
<1>2. most = len
  BY <1>1, Zenon
<1>3. o + t.bo.count + len <= u.size /\ u.size > 0
  BY HoldsRoom
<1>4. TagOK(u) /\ u.bo = t.bo /\ u.bit = Buffer!NoBit /\ u.bo.defined
  BY Zenon DEF Holds
<1>5. Buffer!StringsRefused(u) = "OK"
  <2> DEFINE Is(x) == x = "OK"
  <2>1. Is("OK") /\ Buffer!HasData(u)
    BY <1>3 DEF Buffer!HasData
  <2> HIDE DEF Is
  <2>2. Is(Buffer!StringsRefused(u))
    BY <1>4, <2>1, Zenon DEF Buffer!StringsRefused
  <2> QED BY <2>2 DEF Is
<1>6. \A i \in 0 .. len - 1 : Buffer!CharAt(u, o, i) = Start(t, o) + Buffer!Swap(t, i)
  <2>1. \A i : Buffer!Swap(u, i) = Buffer!Swap(t, i)
    BY <1>4, Zenon DEF Buffer!Swap
  <2>2. Start(t, o) = o + u.bo.count
    BY <1>4 DEF Holds
  <2> QED BY <2>1, <2>2, Zenon DEF Buffer!CharAt
<1>7. \A i \in 0 .. len - 1 : /\ Buffer!CharAt(u, o, i) < u.size
                              /\ u.data[Buffer!CharAt(u, o, i)] = s[i + 1]
  BY <1>6, Zenon DEF Holds
<1>8. \A i \in 0 .. len - 1 : ~(Buffer!CharAt(u, o, i) >= u.size)
  <2>1. TAKE i \in 0 .. len - 1
  <2>2. Buffer!CharAt(u, o, i) \in Int
    <3>1. i \in Nat
      OBVIOUS
    <3>2. Buffer!Swap(t, i) \in Nat
      BY <3>1, SwapFacts
    <3>3. Start(t, o) \in Nat
      BY SMTT(30) DEF Start, TagOK, Contents, ByteOrders
    <3> QED BY <1>6, <3>2, <3>3
  <2>3. u.size \in Int
    BY <1>4 DEF TagOK, Contents
  <2> QED BY <1>7, <2>2, <2>3
<1>9. read = s
  <2>1. \A i \in 1 .. len : u.data[Buffer!CharAt(u, o, i - 1)] = s[i]
    <3>1. TAKE i \in 1 .. len
    <3>2. i - 1 \in 0 .. len - 1 /\ (i - 1) + 1 = i
      OBVIOUS
    <3> QED BY <1>7, <3>2
  <2> DEFINE f == [i \in 1 .. len |-> u.data[Buffer!CharAt(u, o, i - 1)]]
  <2>2. s = [i \in 1 .. len |-> s[i]]
    OBVIOUS
  <2>3. f = s
    BY <2>1, <2>2
  <2>4. read = f
    <3> HIDE DEF most
    <3> QED BY <1>2, Zenon
  <2> QED BY <2>3, <2>4, Zenon
<1>10. ~(o + u.bo.count + most > u.size) /\ ~beyond
  <2>1. ~(o + u.bo.count + most > u.size)
    <3>1. o + u.bo.count + len <= u.size /\ u.bo.count \in Nat /\ u.size \in Nat
      <4> HIDE DEF len, most, read, r, beyond
      <4>1. u.bo.count \in Nat /\ u.size \in Nat
        BY <1>4, SMTT(30) DEF TagOK, Contents, ByteOrders
      <4> QED BY <1>3, <1>4, <4>1
    <3>2. ~(o + u.bo.count + len > u.size)
      BY <3>1
    <3> HIDE DEF most
    <3> QED BY <1>2, <3>2, Zenon
  <2>2. ~beyond
    <3> HIDE DEF most
    <3> QED BY <1>2, <1>8, Zenon
  <2> QED BY <2>1, <2>2
<1>11. r = Buffer!Stops(u, "OK", s)
  <2> DEFINE Is(x) == x = Buffer!Stops(u, "OK", s)
  <2>1. Is(Buffer!Stops(u, "OK", read))
    <3> HIDE DEF read
    <3> QED BY <1>9
  <2> HIDE DEF Is
  <2>2. Is(r)
    BY <1>5, <1>10, <2>1, Zenon DEF Buffer!GetString
  <2> QED BY <2>2, Zenon DEF Is
<1>12. r.rc = "OK" /\ r.val = s
  <2> HIDE DEF r
  <2> QED BY <1>11 DEF Buffer!Stops, Buffer!Result
<1>13. Buffer!GetStringLength(u, o).val = len
  BY <1>1, <1>5 DEF Buffer!GetStringLength, Buffer!Result
<1> QED BY <1>12, <1>13

(* The setter reserves what the getters count. *)
MeasuredIn(bo, s) == IF bo.fixed = 1 THEN bo.total = bo.count + bo.cap + bo.zero + bo.pad
                     ELSE ~(bo.swapped = 1 /\ Len(s) % 2 = 1)

LEMMA HoldsTotal ==
  ASSUME NEW t, TagOK(t), NEW o \in Nat, Buffer!StringRoom(t, o), NEW s \in Seq(Buffer!Byte),
         RegularIn(t.bo, s), MeasuredIn(t.bo, s), NEW u, Holds(u, t, o, s)
  PROVE  Buffer!TotalLength(u, o) - Buffer!TotalLength(t, o) = u.size - t.size
<1>1. Buffer!StringLength(u, o) = Len(s)
  BY HoldsLength
<1>2. u.bo = t.bo /\ u.size = t.size + New(t, s) - Old(t, o)
  BY Zenon DEF Holds
<1>3. /\ t.bo.count \in Nat /\ t.bo.total \in Nat /\ t.bo.zero \in Nat /\ t.bo.pad \in Nat /\ t.bo.cap \in Nat
      /\ Len(s) \in Nat /\ t.bo.swapped \in {0, 1} /\ t.size \in Nat
  BY SMTT(30) DEF TagOK, Contents, ByteOrders
<1>4. New(t, s) \in Int /\ Old(t, o) \in Int
  BY NewIsInt, TotalIsInt DEF Old
<1>5. Buffer!TotalLength(u, o) = New(t, s)
  <2>1. CASE t.bo.fixed = 1
    <3>1. New(t, s) = t.bo.total
      BY <2>1 DEF New, Buffer!NewTotalLength
    <3>2. Buffer!TotalLength(u, o) = t.bo.count + t.bo.cap + t.bo.zero + t.bo.pad
      BY <1>2, <2>1, Zenon DEF Buffer!TotalLength
    <3> QED BY <2>1, <3>1, <3>2, Zenon DEF MeasuredIn
  <2>2. CASE t.bo.fixed # 1
    <3> DEFINE odd == IF t.bo.swapped = 1 THEN Len(s) % 2 ELSE 0
    <3>1. New(t, s) = Len(s) + t.bo.count + t.bo.zero + t.bo.pad + odd
      BY <2>2, Zenon DEF New, Buffer!NewTotalLength
    <3>2. odd = 0
      BY <1>3, <2>2 DEF MeasuredIn
    <3>3. Buffer!TotalLength(u, o) = t.bo.count + Len(s) + t.bo.zero + t.bo.pad
      BY <1>1, <1>2, <2>2, Zenon DEF Buffer!TotalLength
    <3> HIDE DEF odd
    <3> QED BY <1>3, <3>1, <3>2, <3>3, SMTT(30)
  <2> QED BY <2>1, <2>2
<1> QED BY <1>2, <1>3, <1>4, <1>5 DEF Old

LEMMA StringsRead ==
  ASSUME BufferInv
  PROVE  Buffer!StringsReadBack
<1> DEFINE Back(o, s) ==
             LET set == Buffer!SetString(tag, o, s, TRUE)
                 get == Buffer!GetString(set.tag, o, Len(s))
             IN  set.rc = "OK" =>
                   /\ get.rc = "OK" /\ get.val = s
                   /\ Buffer!GetStringLength(set.tag, o).val = Len(s)
                   /\ Buffer!Measured(s) => Buffer!TotalLength(set.tag, o) - Buffer!TotalLength(tag, o)
                                              = set.tag.size - tag.size
<1>1. ASSUME Buffer!Made, NEW o \in Offsets, NEW s \in Strings, Buffer!StringRoom(tag, o), Buffer!Regular(s)
      PROVE  Back(o, s)
  <2>1. o \in Nat /\ s \in Seq(Buffer!Byte)
    BY <1>1, DataAssumption DEF Buffer!TagDataAssumption, Buffer!StringRoom
  <2>2. TagOK(tag) /\ RegularIn(tag.bo, s) /\ (Buffer!Measured(s) => MeasuredIn(tag.bo, s))
    BY <1>1, Zenon DEF BufferInv, Buffer!Regular, RegularIn, Buffer!Measured, MeasuredIn
  <2>3. TRUE \in BOOLEAN
    OBVIOUS
  <2>4. ASSUME NEW alloc, Buffer!SetString(tag, o, s, alloc).rc = "OK"
        PROVE  Holds(Buffer!SetString(tag, o, s, alloc).tag, tag, o, s)
    BY <1>1, <2>1, <2>2, <2>4, SetStringHolds
  <2> DEFINE set == Buffer!SetString(tag, o, s, TRUE)
             u   == set.tag
  <2>5. set.rc = "OK" => Holds(u, tag, o, s)
    BY <2>4, Zenon
  <2> HIDE DEF u
  <2>6. Holds(u, tag, o, s) =>
          /\ Buffer!GetString(u, o, Len(s)).rc = "OK" /\ Buffer!GetString(u, o, Len(s)).val = s
          /\ Buffer!GetStringLength(u, o).val = Len(s)
          /\ Buffer!Measured(s) => Buffer!TotalLength(u, o) - Buffer!TotalLength(tag, o) = u.size - tag.size
    BY <1>1, <2>1, <2>2, HoldsString, HoldsTotal
  <2> QED BY <2>5, <2>6, Zenon DEF u
<1> HIDE DEF Back
<1>2. Buffer!Made => \A o \in Offsets, s \in Strings :
        Buffer!StringRoom(tag, o) /\ Buffer!Regular(s) => Back(o, s)
  BY <1>1, Zenon
<1> QED BY <1>2, Zenon DEF Back, Buffer!StringsReadBack

-----------------------------------------------------------------------------
(* The theorems about the buffer *)

(* Whatever the byte order that attributes give, and whatever is stored,   *)
(* resized or refused before, every byte order is a permutation and the    *)
(* buffer has as many bytes as its size says: no accessor (lib.c:2297 to   *)
(* 3306) indexes outside of it.                                            *)
THEOREM BufferTypeOK == Buffer!Spec => []Buffer!TypeOK
<1>1. Buffer!Init => BufferInv
  BY DEF Buffer!Init, BufferInv, Buffer!Made
<1>2. BufferInv => Buffer!TypeOK
  BY BufferTyped
<1> QED BY <1>1, <1>2, BufferInductive, PTL DEF Buffer!Spec

(* Storing a number changes the bytes of that number alone, or one bit; a  *)
(* refused call changes none (lib.c:2229).                                 *)
THEOREM OnlyTheNumberChanges == Buffer!Spec => []Buffer!OnlyTheNumber
<1>1. Buffer!Init => BufferInv
  BY DEF Buffer!Init, BufferInv, Buffer!Made
<1>2. BufferInv => Buffer!OnlyTheNumber
  BY NumbersStay DEF BufferInv
<1> QED BY <1>1, <1>2, BufferInductive, PTL DEF Buffer!Spec

(* Storing a string moves what follows it and keeps it, whatever its       *)
(* layout (lib.c:4543).  Without a capacity the code puts no bound to the  *)
(* characters of a string of fixed length: hence the hypothesis.           *)
THEOREM OnlyItsBytesChange ==
  ASSUME StringsCapped
  PROVE  Buffer!Spec => []OnlyItsBytes
<1>1. Buffer!Init => BufferInv
  BY DEF Buffer!Init, BufferInv, Buffer!Made
<1>2. BufferInv => OnlyItsBytes
  BY NumbersStay, NeighboursStay DEF BufferInv, OnlyItsBytes, Buffer!OnlyItsBytes
<1> QED BY <1>1, <1>2, BufferInductive, PTL DEF Buffer!Spec

(* What was stored is read back, numbers and bits, and of strings all that *)
(* TagData calls regular, whatever the byte order of the tag (lib.c:2349,  *)
(* 3308 and 3396).                                                         *)
THEOREM StoredIsReadBack == Buffer!Spec => []RoundTrip
<1>1. Buffer!Init => BufferInv
  BY DEF Buffer!Init, BufferInv, Buffer!Made
<1>2. BufferInv => RoundTrip
  BY NumbersRead, StringsRead DEF RoundTrip, Buffer!RoundTrip
<1> QED BY <1>1, <1>2, BufferInductive, PTL DEF Buffer!Spec

-----------------------------------------------------------------------------
(* The parts in one specification, as the run checks them: a step of one   *)
(* leaves the others alone.                                                *)
LEMMA PartsNextKeeps ==
  ASSUME ThreadInv, SocketInv, [PartsNext]_partsVars
  PROVE  ThreadInv' /\ SocketInv'
<1>0. Thread!WorkerAssumption
  BY PartsAssumption
<1>1. [Thread!Next]_Thread!vars
  BY DEF PartsNext, Only, partsVars, threadVars, Thread!vars
<1>2. [Socket!Next]_Socket!vars
  BY DEF PartsNext, Only, partsVars, socketVars, Socket!vars, Socket!handler, Socket!app,
     Socket!link
<1> QED BY <1>0, <1>1, <1>2, ThreadNext, SocketNext

(* In the specification of the parts together neither leaves anything      *)
(* behind: session_destroy() no thread and no object, a disconnected PLC   *)
(* no descriptor.                                                          *)
THEOREM PartsLeaveNothing == PartsSpec => [](NothingLeft /\ NothingOpen)
<1>1. PartsInit => ThreadInv /\ SocketInv
  <2>1. Thread!WorkerAssumption
    BY PartsAssumption
  <2> QED BY <2>1, ThreadInit, SocketInit DEF PartsInit
<1>2. (ThreadInv /\ SocketInv) /\ [PartsNext]_partsVars => (ThreadInv /\ SocketInv)'
  BY PartsNextKeeps
<1>3. ThreadInv /\ SocketInv => NothingLeft /\ NothingOpen
  BY ThreadImplies, SocketImplies
<1> QED BY <1>1, <1>2, <1>3, PTL DEF PartsSpec

(* And what is stored in the buffer of a tag is read back, and storing     *)
(* changes nothing else.                                                   *)
LEMMA PartsBuffer == PartsSpec => []BufferInv
<1>1. PartsInit => BufferInv
  BY DEF PartsInit, Buffer!Init, BufferInv, Buffer!Made
<1>2. BufferInv /\ [PartsNext]_partsVars => BufferInv'
  <2>1. [PartsNext]_partsVars => [Buffer!Next]_(Buffer!vars)
    BY DEF PartsNext, Only, partsVars, bufferVars, Buffer!vars
  <2> QED BY <2>1, BufferInductive
<1> QED BY <1>1, <1>2, PTL DEF PartsSpec

(* What was stored is read back, in the specification of all parts          *)
(* (lib.c:2349, 3308 and 3396).                                            *)
THEOREM PartsReadBack == PartsSpec => []RoundTrip
<1>1. BufferInv => RoundTrip
  BY NumbersRead, StringsRead DEF RoundTrip, Buffer!RoundTrip
<1> QED BY <1>1, PartsBuffer, PTL

(* Storing in the buffer of a tag changes only what is stored (lib.c:2229   *)
(* and 4543), under the hypothesis above.                                  *)
THEOREM PartsOnlyItsBytes ==
  ASSUME StringsCapped
  PROVE  PartsSpec => []OnlyItsBytes
<1>1. BufferInv => OnlyItsBytes
  BY NumbersStay, NeighboursStay DEF BufferInv, OnlyItsBytes, Buffer!OnlyItsBytes
<1> QED BY <1>1, PartsBuffer, PTL

=============================================================================
