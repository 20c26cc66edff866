------------------------------ MODULE HashTable ------------------------------
(***************************************************************************)
(* utils/hashtable.c: the table of tag handles.  A key is looked for in    *)
(* MaxIterations places from the one its hash names, a removed entry leaves *)
(* an empty place among them, and a table in which a key finds no place    *)
(* grows until every entry has one, or there is no more memory.            *)
(*                                                                         *)
(* One operation runs at a time, under tag_lookup_mutex; the steps of one  *)
(* that grows the table are told apart here to follow its loops.           *)
(***************************************************************************)
EXTENDS Integers, FiniteSets

CONSTANTS
  Keys,           \* tag handles
  Data,           \* tags
  Null,           \* no tag
  Hashes,         \* the hash functions that a salt can choose
  Capacity,       \* argument of hashtable_create()
  MaxIterations,  \* places looked at for a key
  MaxIncrement,   \* entries by which the table grows at most
  Memory          \* entries that memory can hold

ASSUME HashTableAssumption ==
  /\ Keys \subseteq Nat \ {0} /\ Null \notin Data
  /\ Hashes \subseteq [Keys -> Nat]
  /\ {Capacity, MaxIterations, MaxIncrement} \subseteq Nat \ {0}
  /\ Memory \in Nat

VARIABLES
  hash,     \* the hash of each key, with the salt of this table
  total,    \* table->total_entries
  entries,  \* table->entries: 0 .. total - 1 -> [key, data]
  used,     \* table->used_entries
  result,   \* the operation that was last called and what it returned
  pc,       \* "idle", or where hashtable_put() is
  key,      \* the arguments of hashtable_put()
  data,
  new,      \* expand_table()'s new table: total, entries, used
  next      \* the old entry to copy next

putting == <<key, data>>
table   == <<total, entries, used>>
vars    == <<hash, table, result, pc, putting, new, next>>

Empty     == [key |-> 0, data |-> Null]
Entry     == [key : Keys, data : Data] \cup {Empty}
NotFound  == -1
Places(n) == 0 .. n - 1
Cleared(n) == [p \in Places(n) |-> Empty]
NoTable   == [total |-> 0, entries |-> Cleared(0), used |-> 0]

Init ==
  /\ hash \in Hashes
  /\ total = Capacity /\ entries = Cleared(Capacity) /\ used = 0
  /\ result = <<"create", "OK">>
  /\ pc = "idle" /\ key = 0 /\ data = Null /\ new = NoTable /\ next = 0

-----------------------------------------------------------------------------
(* find_key() and find_empty() *)

Iterations == 0 .. MaxIterations - 1

(* The place looked at in an iteration, with hash function h *)
Slot(h, k, i, n) == (h[k] + i) % n

(* The first of the places wanted that a key reaches *)
First(k, n, wanted) ==
  IF \A i \in Iterations : Slot(hash, k, i, n) \notin wanted THEN NotFound
  ELSE Slot(hash, k, CHOOSE i \in Iterations : /\ Slot(hash, k, i, n) \in wanted
                                         /\ \A j \in 0 .. i - 1 : Slot(hash, k, j, n) \notin wanted, n)

(* Mutant of FindKey: an empty place ends the search. *)
FindKeyStops(k) ==
  LET p == First(k, total, {q \in Places(total) : entries[q].key = k \/ entries[q].data = Null})
  IN  IF p # NotFound /\ entries[p].key = k THEN p ELSE NotFound

FindKey(k) == First(k, total, {p \in Places(total) : entries[p].key = k})

FindEmpty(k, t, n) == First(k, n, {p \in Places(n) : t[p].data = Null})

-----------------------------------------------------------------------------
(* hashtable_put(): a key that the caller has not found gets the first     *)
(* empty place, or the table has to grow first.                            *)

Insert(k, d) ==
  LET p == FindEmpty(k, entries, total)
  IN  IF p = NotFound
        THEN /\ pc' = "expand" /\ key' = k /\ data' = d
             /\ new' = [NoTable EXCEPT !.total = total]
             /\ UNCHANGED <<table, result, next>>
        ELSE /\ entries' = [entries EXCEPT ![p] = [key |-> k, data |-> d]]
             /\ used' = used + 1
             /\ result' = <<"put", "OK">>
             /\ pc' = "idle" /\ key' = 0 /\ data' = Null
             /\ UNCHANGED <<total, new, next>>

Put(k, d) == pc = "idle" /\ FindKey(k) = NotFound /\ Insert(k, d) /\ UNCHANGED hash

PutAgain == pc = "again" /\ Insert(key, data) /\ UNCHANGED hash

(* expand_table(): the next size to try *)
Grown(n) == n + (IF n < MaxIncrement THEN n ELSE MaxIncrement)

Allocate ==
  /\ pc = "expand"
  /\ LET n == Grown(new.total) IN
     IF n > Memory
       THEN /\ pc' = "idle" /\ result' = <<"put", "NO_MEM">>
            /\ key' = 0 /\ data' = Null /\ new' = NoTable
            /\ UNCHANGED next
       ELSE /\ pc' = "copy" /\ new' = [total |-> n, entries |-> Cleared(n), used |-> 0]
            /\ next' = 0
            /\ UNCHANGED <<result, putting>>
  /\ UNCHANGED <<hash, table>>

(* One entry is copied; when it has no place the next size is tried. *)
Copy ==
  /\ pc = "copy" /\ next < total
  /\ IF entries[next].data = Null THEN next' = next + 1 /\ UNCHANGED <<new, pc>>
     ELSE LET p == FindEmpty(entries[next].key, new.entries, new.total)
          IN  IF p = NotFound THEN pc' = "expand" /\ UNCHANGED <<new, next>>
              ELSE /\ new' = [new EXCEPT !.entries = [@ EXCEPT ![p] = entries[next]],
                                         !.used = @ + 1]
                   /\ next' = next + 1
                   /\ UNCHANGED pc
  /\ UNCHANGED <<hash, table, result, putting>>

(* The new table takes the place of the old one. *)
Copied ==
  /\ pc = "copy" /\ next = total
  /\ total' = new.total /\ entries' = new.entries /\ used' = new.used /\ new' = NoTable
  /\ pc' = "again"
  /\ UNCHANGED <<hash, result, putting, next>>

-----------------------------------------------------------------------------
(* The other operations *)

Returns(what, value) ==
  /\ result' = <<what, value>>
  /\ UNCHANGED <<hash, total, pc, putting, new, next>>

DataAt(p) == IF p = NotFound THEN Null ELSE entries[p].data

Get(k) == pc = "idle" /\ Returns("get", DataAt(FindKey(k))) /\ UNCHANGED <<entries, used>>

Remove(k) ==
  /\ pc = "idle"
  /\ LET p == FindKey(k) IN
     /\ Returns("remove", DataAt(p))
     /\ IF p = NotFound THEN UNCHANGED <<entries, used>>
        ELSE entries' = [entries EXCEPT ![p] = Empty] /\ used' = used - 1

(* hashtable_get_index() for every index below hashtable_capacity() *)
Walk ==
  /\ pc = "idle"
  /\ Returns("walk", {entries[p].data : p \in Places(total)} \ {Null})
  /\ UNCHANGED <<entries, used>>

Entries == pc = "idle" /\ Returns("entries", used) /\ UNCHANGED <<entries, used>>

-----------------------------------------------------------------------------
Next == \/ \E k \in Keys, d \in Data : Put(k, d)
        \/ PutAgain \/ Allocate \/ Copy \/ Copied
        \/ \E k \in Keys : Get(k) \/ Remove(k)
        \/ Walk \/ Entries

Spec == Init /\ [][Next]_vars

-----------------------------------------------------------------------------
UsedPlaces(t, n) == {p \in Places(n) : t[p].data # Null}
UsedKeys(t, n)   == {t[p].key : p \in UsedPlaces(t, n)}

(* The map that a table stands for *)
MapOf(t, n) == [k \in UsedKeys(t, n) |-> t[CHOOSE p \in UsedPlaces(t, n) : t[p].key = k].data]

Map == INSTANCE HashMap WITH map <- MapOf(entries, total)

(* The table of handles behaves as a map: whatever was removed and however *)
(* the table has grown, a key is found while it is in the table and not    *)
(* after, nothing is lost or doubled when the table grows, and a put that  *)
(* fails leaves the table as it was.                                       *)
ImplementsMap == Map!Spec

(* A table as the functions above need it: every entry within reach of its *)
(* key's hash, no key twice, no key left in an empty place, all counted.   *)
TableOK(h, t, n, count) ==
  /\ n \in Nat \ {0}
  /\ t \in [Places(n) -> Entry]
  /\ \A p \in UsedPlaces(t, n) : \E i \in Iterations : p = Slot(h, t[p].key, i, n)
  /\ \A p, q \in UsedPlaces(t, n) : t[p].key = t[q].key => p = q
  /\ IsFiniteSet(UsedKeys(t, n)) /\ count = Cardinality(UsedKeys(t, n))

(* The inductive invariant: the table is as it should be, and the one that *)
(* is being filled too, with exactly the entries copied so far.            *)
IInv ==
  /\ hash \in [Keys -> Nat]
  /\ TableOK(hash, entries, total, used)
  /\ pc \in {"idle", "expand", "copy", "again"}
  /\ pc # "idle" => /\ key \in Keys /\ data \in Data
                    /\ key \notin UsedKeys(entries, total)
  /\ pc = "expand" => new.total \in Nat \ {0}
  /\ pc = "copy" =>
       /\ new = [total |-> new.total, entries |-> new.entries, used |-> new.used]
       /\ TableOK(hash, new.entries, new.total, new.used)
       /\ next \in 0 .. total
       /\ {new.entries[p] : p \in UsedPlaces(new.entries, new.total)}
            = {entries[p] : p \in {q \in UsedPlaces(entries, total) : q < next}}

=============================================================================
