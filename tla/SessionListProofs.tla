------------------------- MODULE SessionListProofs -------------------------
(***************************************************************************)
(* Proofs about SessionList, OmronConnList and ModbusPlcList, for any      *)
(* finite set of tags: the reference counts of the sessions are exact, no  *)
(* session is freed while it is listed, held or served, and tags that      *)
(* share a PLC share its session.                                          *)
(***************************************************************************)
EXTENDS ModbusPlcList, FiniteSetTheorems, SequenceTheorems, TLAPS

-----------------------------------------------------------------------------
(* The inductive invariant *)

Types ==
  /\ lock \in Tags \cup {Null} /\ list \in Seq(Tags)
  /\ mem \in [Tags -> {"none", "alive", "freed"}]
  /\ count \in [Tags -> Nat]
  /\ handler \in [Tags -> {"none", "running", "exited"}]
  /\ pc \in [Tags -> Pcs \cup {"crashed"}] /\ at \in [Tags -> Nat \ {0}]
  /\ sess \in [Tags -> Tags \cup {Null}] /\ cand \in [Tags -> Tags \cup {Null}]
  /\ passed \in BOOLEAN

(* Which pointers a tag's thread has at which place. *)
Pointers ==
  \A t \in Tags :
    /\ pc[t] \notin {"init", "giveup", "using"} => sess[t] = Null
    /\ pc[t] \in {"init", "giveup"} => sess[t] = t
    /\ pc[t] = "using" => sess[t] # Null
    /\ pc[t] \in {"match", "remove", "join"} <=> cand[t] # Null

(* Who searches has the mutex; it may be destroying a session meanwhile. *)
Mutex ==
  \A t \in Tags :
    /\ pc[t] \in InSearch => lock = t
    /\ lock = t => pc[t] \in InSearch \cup {"remove", "join"}

(* A tag that has not finished its search has created no session. *)
Unborn ==
  \A t \in Tags :
    \/ pc[t] \in InSearch \cup {"start"}
    \/ pc[t] \in {"remove", "join"} /\ lock = t
    => mem[t] = "none"

(* A session that is being destroyed has no holder, is in memory, is       *)
(* listed until it is removed, and only one thread destroys it.            *)
Dying ==
  \A t \in Tags :
    pc[t] \in {"remove", "join"} =>
      /\ count[cand[t]] = 0 /\ mem[cand[t]] = "alive"
      /\ pc[t] = "remove" <=> Contains(list, cand[t])
      /\ \A u \in Tags : pc[u] \in {"remove", "join"} /\ cand[u] = cand[t] => u = t

(* No session is listed twice, and one that somebody holds is listed. *)
OnList ==
  /\ \A i, j \in 1..Len(list) : list[i] = list[j] => i = j
  /\ \A s \in Tags : count[s] > 0 => Contains(list, s)

(* A session that a sharing tag t should find. *)
Twin(s, t) == count[s] > 0 /\ s \notin failed \cup Private /\ Key[s] = Key[t]

(* A search has passed no session that it should have found. *)
SearchOf(t) ==
  /\ pc[t] = "start" => at[t] = 1
  /\ pc[t] = "match" => at[t] <= Len(list) /\ list[at[t]] = cand[t]
  /\ pc[t] \in {"remove", "join"} /\ lock = t => passed
  /\ ~passed /\ t \notin Private =>
       /\ pc[t] \in {"scan", "match"} =>
            \A i \in 1..Len(list) : i < at[t] => ~Twin(list[i], t)
       /\ pc[t] = "create" => \A i \in 1..Len(list) : ~Twin(list[i], t)

Search == \A t \in Tags : SearchOf(t)

IInv ==
  /\ Types /\ Pointers /\ Mutex /\ Unborn /\ Dying /\ OnList
  /\ CountIsHolders /\ MemorySafe /\ Search /\ OneSession

-----------------------------------------------------------------------------
(* The list *)

LEMMA InToSet ==
  ASSUME NEW l \in Seq(Tags), NEW s
  PROVE  s \in ToSet(l) <=> Contains(l, s)
<1>1. DOMAIN l = 1..Len(l)
  BY LenProperties
<1> QED BY <1>1 DEF ToSet, Contains

LEMMA Appending ==
  ASSUME NEW l \in Seq(Tags), NEW s \in Tags
  PROVE  /\ Append(l, s) \in Seq(Tags)
         /\ \A x : Contains(Append(l, s), x) <=> Contains(l, x) \/ x = s
         /\ \A i \in 1..Len(l) + 1 : Append(l, s)[i] = IF i = Len(l) + 1 THEN s ELSE l[i]
         /\ Len(Append(l, s)) = Len(l) + 1
<1>1. Len(l) \in Nat
  BY LenProperties
<1>2. /\ Append(l, s) \in Seq(Tags) /\ Len(Append(l, s)) = Len(l) + 1
      /\ \A i \in 1..Len(l) : Append(l, s)[i] = l[i]
      /\ Append(l, s)[Len(l) + 1] = s
  BY AppendProperties
<1>3. \A i \in 1..Len(l) + 1 : Append(l, s)[i] = IF i = Len(l) + 1 THEN s ELSE l[i]
  BY <1>1, <1>2
<1>4. ASSUME NEW x PROVE Contains(Append(l, s), x) <=> Contains(l, x) \/ x = s
  BY <1>1, <1>2, <1>3 DEF Contains
<1> QED BY <1>2, <1>3, <1>4

(* find_or_create_plc() puts a PLC in front. *)
LEMMA Prepending ==
  ASSUME NEW l \in Seq(Tags), NEW s \in Tags
  PROVE  /\ <<s>> \o l \in Seq(Tags)
         /\ \A x : Contains(<<s>> \o l, x) <=> Contains(l, x) \/ x = s
         /\ \A i \in 1..Len(l) + 1 : (<<s>> \o l)[i] = IF i = 1 THEN s ELSE l[i - 1]
         /\ Len(<<s>> \o l) = Len(l) + 1
<1> DEFINE w == <<s>> \o l
<1>1. Len(l) \in Nat /\ <<s>> \in Seq(Tags) /\ Len(<<s>>) = 1 /\ <<s>>[1] = s
  BY LenProperties
<1>2. /\ w \in Seq(Tags) /\ Len(w) = Len(l) + 1
      /\ \A i \in 1..Len(l) + 1 : w[i] = IF i <= 1 THEN <<s>>[i] ELSE l[i - 1]
  BY <1>1, ConcatProperties
<1>3. \A i \in 1..Len(l) + 1 : w[i] = IF i = 1 THEN s ELSE l[i - 1]
  BY <1>1, <1>2
<1> HIDE DEF w
<1>4. ASSUME NEW x, Contains(l, x) PROVE Contains(w, x)
  <2>1. PICK i \in 1..Len(l) : l[i] = x
    BY <1>4 DEF Contains
  <2>2. i + 1 \in 1..Len(w) /\ w[i + 1] = x
    BY <1>1, <1>2, <1>3, <2>1
  <2> QED BY <2>2 DEF Contains
<1>5. Contains(w, s)
  BY <1>1, <1>2, <1>3 DEF Contains
<1>6. ASSUME NEW x, Contains(w, x) PROVE Contains(l, x) \/ x = s
  <2>1. PICK i \in 1..Len(w) : w[i] = x
    BY <1>6 DEF Contains
  <2>2. i = 1 \/ (i - 1 \in 1..Len(l) /\ l[i - 1] = x)
    BY <1>1, <1>2, <1>3, <2>1
  <2> QED BY <1>1, <1>2, <1>3, <2>1, <2>2 DEF Contains
<1> QED BY <1>2, <1>3, <1>4, <1>5, <1>6 DEF w

(* remove_session_unsafe() takes one session away and no other. *)
LEMMA Removing ==
  ASSUME NEW l \in Seq(Tags), NEW s, Contains(l, s),
         \A i, j \in 1..Len(l) : l[i] = l[j] => i = j
  PROVE  /\ Without(l, s) \in Seq(Tags)
         /\ \A x : Contains(Without(l, s), x) <=> Contains(l, x) /\ x # s
         /\ \A i, j \in 1..Len(Without(l, s)) : Without(l, s)[i] = Without(l, s)[j] => i = j
<1> DEFINE k == CHOOSE j \in DOMAIN l : l[j] = s
           w == [j \in 1..Len(l) - 1 |-> IF j < k THEN l[j] ELSE l[j + 1]]
<1>1. DOMAIN l = 1..Len(l) /\ Len(l) \in Nat
  BY LenProperties
<1>2. k \in 1..Len(l) /\ l[k] = s
  BY <1>1 DEF Contains
<1>3. Without(l, s) = w
  BY InToSet DEF Without
<1> HIDE DEF k
<1>4. w \in Seq(Tags) /\ Len(w) = Len(l) - 1
  <2>1. Len(l) - 1 \in Nat
    BY <1>1, <1>2
  <2>2. \A j \in 1..Len(l) - 1 : w[j] \in Tags
    BY <1>1, <1>2, ElementOfSeq
  <2>3. w \in [1..Len(l) - 1 -> Tags]
    BY <2>2
  <2>4. w \in Seq(Tags)
    BY <2>1, <2>3, SeqDef
  <2> QED BY <2>1, <2>3, <2>4, LenProperties
<1>5. \A j \in 1..Len(l) - 1 : w[j] = IF j < k THEN l[j] ELSE l[j + 1]
  OBVIOUS
<1> HIDE DEF w
<1>6. \A i, j \in 1..Len(w) : w[i] = w[j] => i = j
  BY <1>1, <1>2, <1>4, <1>5
<1>7. ASSUME NEW x PROVE Contains(w, x) <=> Contains(l, x) /\ x # s
  <2>1. ASSUME NEW i \in 1..Len(w), w[i] = x PROVE Contains(l, x) /\ x # s
    BY <1>1, <1>2, <1>4, <1>5, <2>1 DEF Contains
  <2>2. ASSUME NEW i \in 1..Len(l), l[i] = x, x # s PROVE Contains(w, x)
    <3>1. CASE i < k BY <1>1, <1>2, <1>4, <1>5, <2>2, <3>1 DEF Contains
    <3>2. CASE i > k
      <4>1. i - 1 \in 1..Len(w) /\ w[i - 1] = x
        BY <1>1, <1>2, <1>4, <1>5, <2>2, <3>2
      <4> QED BY <4>1 DEF Contains
    <3> QED BY <1>1, <1>2, <2>2, <3>1, <3>2
  <2> QED BY <2>1, <2>2 DEF Contains
<1> QED BY <1>3, <1>4, <1>6, <1>7

-----------------------------------------------------------------------------
(* Holders and counts *)

LEMMA HoldersFinite == \A s : IsFiniteSet(Holders(s)) /\ Cardinality(Holders(s)) \in Nat
  BY TagAssumption, FS_Subset, FS_CardinalityType DEF Holders

LEMMA CountSame ==
  ASSUME CountIsHolders, \A x, u \in Tags : u \in Holders(x)' <=> u \in Holders(x),
         \A x \in Tags : count'[x] = count[x]
  PROVE  CountIsHolders'
<1>1. \A x \in Tags : Holders(x)' = Holders(x)
  BY DEF Holders
<1> QED BY <1>1 DEF CountIsHolders

(* Thread t takes a reference to s. *)
LEMMA CountTake ==
  ASSUME CountIsHolders, NEW s \in Tags, NEW t \in Tags, t \notin Holders(s),
         \A x, u \in Tags : u \in Holders(x)' <=> u \in Holders(x) \/ (x = s /\ u = t),
         \A x \in Tags : count'[x] = IF x = s THEN count[x] + 1 ELSE count[x]
  PROVE  CountIsHolders'
<1>1. \A x \in Tags : Holders(x)' = IF x = s THEN Holders(x) \cup {t} ELSE Holders(x)
  BY DEF Holders
<1>2. Cardinality(Holders(s) \cup {t}) = Cardinality(Holders(s)) + 1
  BY HoldersFinite, FS_AddElement
<1> QED BY <1>1, <1>2 DEF CountIsHolders

(* Thread t gives its reference to s back. *)
LEMMA CountDrop ==
  ASSUME CountIsHolders, NEW s \in Tags, NEW t \in Tags, t \in Holders(s),
         \A x, u \in Tags : u \in Holders(x)' <=> u \in Holders(x) /\ ~(x = s /\ u = t),
         \A x \in Tags : count'[x] = IF x = s THEN count[x] - 1 ELSE count[x]
  PROVE  CountIsHolders'
<1>1. \A x \in Tags : Holders(x)' = IF x = s THEN Holders(x) \ {t} ELSE Holders(x)
  BY DEF Holders
<1>2. Cardinality(Holders(s) \ {t}) = Cardinality(Holders(s)) - 1
  BY HoldersFinite, FS_RemoveElement
<1> QED BY <1>1, <1>2 DEF CountIsHolders

(* A session with a holder has a count. *)
LEMMA HeldCounts ==
  ASSUME CountIsHolders, NEW s \in Tags, NEW t \in Tags
  PROVE  t \in Holders(s) => count[s] > 0
<1>1. t \in Holders(s) => Cardinality(Holders(s)) # 0
  BY HoldersFinite, FS_EmptySet
<1> QED BY <1>1, HoldersFinite DEF CountIsHolders

LEMMA ListedAlive ==
  ASSUME Types, MemorySafe, NEW s \in Tags, Contains(list, s)
  PROVE  mem[s] = "alive"
  BY InToSet DEF Types, MemorySafe, Listed

LEMMA SoundMonotone ==
  ASSUME OneSession, ~passed' => ~passed, \A x \in Tags : Sound(x)' => Sound(x)
  PROVE  OneSession'
  BY DEF OneSession

-----------------------------------------------------------------------------
(* Steps *)

LEMMA BeginInv ==
  ASSUME IInv, NEW t \in Tags, Begin(t)
  PROVE  IInv'
<1>h. \A x, u \in Tags : u \in Holders(x)' <=> u \in Holders(x)
  BY TagAssumption DEF IInv, Begin, sessions, places, Types, Pointers, Holders
<1>s. \A x \in Tags : Sound(x)' => Sound(x)
  BY TagAssumption DEF IInv, Begin, sessions, places, Types, Sound, Listed
<1>1. Types'
  BY TagAssumption DEF IInv, Begin, sessions, places, Types, Pcs, InSearch
<1>2. Pointers'
  BY TagAssumption DEF IInv, Begin, sessions, places, Types, Pointers, InSearch
<1>3. Mutex'
  BY TagAssumption DEF IInv, Begin, sessions, places, Types, Pointers, Mutex, InSearch
<1>4. Unborn'
  BY TagAssumption DEF IInv, Begin, sessions, places, Types, Pointers, Mutex, Unborn, InSearch
<1>5. Dying'
  BY TagAssumption DEF IInv, Begin, sessions, places, Types, Pointers, Mutex, Unborn, Dying,
         OnList, MemorySafe, InSearch
<1>6. OnList'
  BY TagAssumption DEF IInv, Begin, sessions, places, Types, Pointers, Mutex, Unborn, Dying,
         OnList, InSearch
<1>7. CountIsHolders'
  BY <1>h, TagAssumption, CountSame DEF IInv, Begin, sessions, places, Types
<1>8. MemorySafe'
  BY <1>h, TagAssumption DEF IInv, Begin, sessions, places, Types, Pointers, Unborn, MemorySafe,
         Listed, Holders
<1>9. Search'
  BY TagAssumption DEF IInv, Begin, sessions, places, Types, Pointers, Mutex, Dying, OnList,
         Search, SearchOf, Twin, InSearch
<1>10. OneSession'
  BY <1>s, SoundMonotone DEF IInv, Begin, sessions, places
<1> QED BY <1>1, <1>2, <1>3, <1>4, <1>5, <1>6, <1>7, <1>8, <1>9, <1>10 DEF IInv

LEMMA ScanEndInv ==
  ASSUME IInv, NEW t \in Tags, ScanEnd(t)
  PROVE  IInv'
<1>h. \A x, u \in Tags : u \in Holders(x)' <=> u \in Holders(x)
  BY TagAssumption DEF IInv, ScanEnd, sessions, places, Types, Pointers, Holders
<1>s. \A x \in Tags : Sound(x)' => Sound(x)
  BY TagAssumption DEF IInv, ScanEnd, sessions, places, Types, Sound, Listed
<1>1. Types'
  BY TagAssumption DEF IInv, ScanEnd, sessions, places, Types, Pcs, InSearch
<1>2. Pointers'
  BY TagAssumption DEF IInv, ScanEnd, sessions, places, Types, Pointers, InSearch
<1>3. Mutex'
  BY TagAssumption DEF IInv, ScanEnd, sessions, places, Types, Pointers, Mutex, InSearch
<1>4. Unborn'
  BY TagAssumption DEF IInv, ScanEnd, sessions, places, Types, Pointers, Mutex, Unborn, InSearch
<1>5. Dying'
  BY TagAssumption DEF IInv, ScanEnd, sessions, places, Types, Pointers, Mutex, Unborn, Dying,
         OnList, MemorySafe, InSearch
<1>6. OnList'
  BY TagAssumption DEF IInv, ScanEnd, sessions, places, Types, Pointers, Mutex, Unborn, Dying,
         OnList, InSearch
<1>7. CountIsHolders'
  BY <1>h, TagAssumption, CountSame DEF IInv, ScanEnd, sessions, places, Types
<1>8. MemorySafe'
  BY <1>h, TagAssumption DEF IInv, ScanEnd, sessions, places, Types, Pointers, Unborn, MemorySafe,
         Listed, Holders
<1>9. Search'
  BY TagAssumption DEF IInv, ScanEnd, sessions, places, Types, Pointers, Mutex, Dying, OnList,
         Search, SearchOf, Twin, InSearch
<1>10. OneSession'
  BY <1>s, SoundMonotone DEF IInv, ScanEnd, sessions, places
<1> QED BY <1>1, <1>2, <1>3, <1>4, <1>5, <1>6, <1>7, <1>8, <1>9, <1>10 DEF IInv

LEMMA ScanTakesInv ==
  ASSUME IInv, NEW t \in Tags, Scan(t), NEW s, s = list[at[t]], count[s] > 0
  PROVE  IInv'
<1>a. at[t] \in 1..Len(list) /\ s \in Tags /\ Contains(list, s)
  BY LenProperties, ElementOfSeq, SMTT(30) DEF IInv, Types, Scan, Contains
<1>b. UNCHANGED <<lock, list, mem, handler, failed, sess, passed, at>>
  BY DEF Scan
<1>c. /\ cand' = [cand EXCEPT ![t] = s] /\ pc' = [pc EXCEPT ![t] = "match"]
      /\ count' = [count EXCEPT ![s] = @ + 1] /\ pc[t] = "scan"
  BY DEF Scan
<1>h. \A x, u \in Tags : u \in Holders(x)' <=> u \in Holders(x) \/ (x = s /\ u = t)
  BY TagAssumption, <1>a, <1>b, <1>c DEF IInv, Types, Pointers, Holders
<1>s. \A x \in Tags : Sound(x)' => Sound(x)
  BY TagAssumption, <1>a, <1>b, <1>c DEF IInv, Types, Sound, Listed
<1>t. Types
  BY DEF IInv
<1>1. Types'
  <2>1. pc' \in [Tags -> Pcs \cup {"crashed"}]
    BY <1>t, <1>b, <1>c DEF Types, Pcs, InSearch
  <2>2. count' \in [Tags -> Nat]
    BY <1>t, <1>a, <1>b, <1>c DEF Types
  <2>3. at' \in [Tags -> Nat \ {0}]
    BY <1>t, <1>b, <1>c DEF Types
  <2>4. cand' \in [Tags -> Tags \cup {Null}]
    BY <1>t, <1>a, <1>b, <1>c DEF Types
  <2> QED BY <1>t, <1>b, <1>c, <2>1, <2>2, <2>3, <2>4 DEF Types
<1>2. Pointers'
  BY TagAssumption, <1>a, <1>b, <1>c, ZenonT(60) DEF IInv, Types, Pointers, InSearch
<1>3. Mutex'
  BY TagAssumption, <1>a, <1>b, <1>c DEF IInv, Types, Pointers, Mutex, InSearch
<1>4. Unborn'
  BY TagAssumption, <1>a, <1>b, <1>c DEF IInv, Types, Pointers, Mutex, Unborn, InSearch
<1>5. Dying'
  <2>1. ASSUME NEW u \in Tags PROVE u # t => pc'[u] = pc[u] /\ cand'[u] = cand[u]
    BY <1>c, <1>t DEF Types
  <2>2. pc'[t] = "match" /\ \A x \in Tags : x # s => count'[x] = count[x]
    BY <1>c, <1>t DEF Types
  <2>3. ASSUME NEW u \in Tags, pc'[u] \in {"remove", "join"}
        PROVE  u # t /\ pc[u] \in {"remove", "join"} /\ cand[u] \in Tags \ {s}
    <3>1. u # t /\ pc[u] \in {"remove", "join"} /\ cand[u] \in Tags \cup {Null}
      BY <2>1, <2>2, <2>3, <1>t DEF Types
    <3>2. cand[u] # Null /\ count[cand[u]] = 0
      BY <3>1 DEF IInv, Pointers, Dying
    <3> QED BY <1>a, <3>1, <3>2
  <2> QED BY <1>b, <2>1, <2>2, <2>3 DEF IInv, Dying
<1>6. OnList'
  BY TagAssumption, <1>a, <1>b, <1>c DEF IInv, Types, Pointers, Mutex, Unborn, Dying, OnList,
         InSearch
<1>7. CountIsHolders'
  <2>1. t \notin Holders(s)
    BY <1>a, <1>c, TagAssumption DEF IInv, Types, Pointers, Holders
  <2>2. \A x \in Tags : count'[x] = IF x = s THEN count[x] + 1 ELSE count[x]
    BY <1>a, <1>c DEF IInv, Types
  <2> QED BY <1>a, <1>h, <2>1, <2>2, CountTake DEF IInv
<1>8. MemorySafe'
  <2>1. mem[s] = "alive"
    BY <1>a, ListedAlive DEF IInv
  <2> QED BY <1>h, <1>b, <1>c, <2>1 DEF IInv, MemorySafe, Listed, Holders
<1>9. Search'
  <2>1. count[s] > 0 /\ \A x \in Tags : count'[x] > 0 <=> count[x] > 0
    BY <1>a, <1>c, <1>t, SMTT(30) DEF Types
  <2>2. \A i \in 1..Len(list) : list[i] \in Tags
    BY <1>t, ElementOfSeq DEF Types
  <2>3. \A u \in Tags, i \in 1..Len(list) : Twin(list[i], u)' <=> Twin(list[i], u)
    BY <1>b, <2>1, <2>2 DEF Twin
  <2>4. SearchOf(t)'
    <3>1. pc'[t] = "match" /\ cand'[t] = s /\ pc[t] = "scan"
      BY <1>c, <1>t DEF Types
    <3>2. SearchOf(t)
      BY DEF IInv, Search
    <3>3. at[t] <= Len(list) /\ list[at[t]] = s
      BY <1>a
    <3> QED BY <1>b, <2>3, <3>1, <3>2, <3>3 DEF SearchOf
  <2>5. ASSUME NEW u \in Tags, u # t PROVE SearchOf(u)'
    <3>1. pc'[u] = pc[u] /\ cand'[u] = cand[u]
      BY <1>c, <2>5, <1>t DEF Types
    <3>2. SearchOf(u)
      BY DEF IInv, Search
    <3> QED BY <1>b, <2>3, <3>1, <3>2 DEF SearchOf
  <2> QED BY <2>4, <2>5 DEF Search
<1>10. OneSession'
  BY <1>s, <1>a, <1>b, <1>c, SoundMonotone DEF IInv
<1> QED BY <1>1, <1>2, <1>3, <1>4, <1>5, <1>6, <1>7, <1>8, <1>9, <1>10 DEF IInv

LEMMA ScanPassesInv ==
  ASSUME IInv, NEW t \in Tags, Scan(t), NEW s, s = list[at[t]], count[s] = 0
  PROVE  IInv'
<1>a. at[t] \in 1..Len(list) /\ s \in Tags /\ Contains(list, s)
  BY LenProperties, ElementOfSeq, SMTT(30) DEF IInv, Types, Scan, Contains
<1>b. UNCHANGED <<lock, list, mem, handler, failed, sess, passed, count, cand, pc>>
  BY DEF Scan
<1>c. at' = [at EXCEPT ![t] = @ + 1] /\ pc[t] = "scan"
  BY DEF Scan
<1>h. \A x, u \in Tags : u \in Holders(x)' <=> u \in Holders(x)
  BY TagAssumption, <1>a, <1>b, <1>c DEF IInv, Types, Pointers, Holders
<1>s. \A x \in Tags : Sound(x)' => Sound(x)
  BY TagAssumption, <1>a, <1>b, <1>c DEF IInv, Types, Sound, Listed
<1>t. Types
  BY DEF IInv
<1>1. Types'
  <2>1. pc' \in [Tags -> Pcs \cup {"crashed"}]
    BY <1>t, <1>b, <1>c DEF Types, Pcs, InSearch
  <2>2. count' \in [Tags -> Nat]
    BY <1>t, <1>a, <1>b, <1>c DEF Types
  <2>3. at' \in [Tags -> Nat \ {0}]
    BY <1>t, <1>b, <1>c DEF Types
  <2>4. cand' \in [Tags -> Tags \cup {Null}]
    BY <1>t, <1>a, <1>b, <1>c DEF Types
  <2> QED BY <1>t, <1>b, <1>c, <2>1, <2>2, <2>3, <2>4 DEF Types
<1>2. Pointers'
  BY TagAssumption, <1>a, <1>b, <1>c DEF IInv, Types, Pointers, InSearch
<1>3. Mutex'
  BY TagAssumption, <1>a, <1>b, <1>c DEF IInv, Types, Pointers, Mutex, InSearch
<1>4. Unborn'
  BY TagAssumption, <1>a, <1>b, <1>c DEF IInv, Types, Pointers, Mutex, Unborn, InSearch
<1>5. Dying'
  BY TagAssumption, <1>a, <1>b, <1>c DEF IInv, Types, Pointers, Mutex, Unborn, Dying, OnList,
         MemorySafe, InSearch
<1>6. OnList'
  BY TagAssumption, <1>a, <1>b, <1>c DEF IInv, Types, Pointers, Mutex, Unborn, Dying, OnList,
         InSearch
<1>7. CountIsHolders'
  BY <1>h, TagAssumption, <1>a, <1>b, <1>c, CountSame DEF IInv, Types
<1>8. MemorySafe'
  BY <1>h, TagAssumption, <1>a, <1>b, <1>c DEF IInv, Types, Pointers, Unborn, MemorySafe, Listed,
         Holders
<1>9. Search'
  <2>1. SearchOf(t)'
    <3>1. SearchOf(t) /\ at \in [Tags -> Nat \ {0}] /\ Len(list) \in Nat
      BY LenProperties DEF IInv, Types, Search
    <3>2. at'[t] = at[t] + 1 /\ at[t] \in Nat
      BY <1>c, <3>1
    <3>3. \A i \in 1..Len(list) : Twin(list[i], t)' <=> Twin(list[i], t)
      BY <1>b DEF Twin
    <3>4. ~Twin(list[at[t]], t)
      BY DEF Twin
    <3>5. ASSUME ~passed, t \notin Private, NEW i \in 1..Len(list), i < at[t] + 1
          PROVE  ~Twin(list[i], t)
      <4>1. CASE i = at[t] BY <4>1, <3>4
      <4>2. CASE i < at[t] BY <4>2, <3>1, <3>5, <1>c DEF SearchOf
      <4> QED BY <4>1, <4>2, <3>2, <3>5
    <3> QED BY <1>b, <1>c, <3>1, <3>2, <3>3, <3>5 DEF SearchOf
  <2>2. ASSUME NEW u \in Tags, u # t PROVE SearchOf(u)'
    <3>1. at'[u] = at[u]
      BY <1>c, <2>2 DEF IInv, Types
    <3> QED BY <1>b, <2>2, <3>1 DEF IInv, Search, SearchOf, Twin
  <2> QED BY <2>1, <2>2 DEF Search
<1>10. OneSession'
  BY <1>s, <1>a, <1>b, <1>c, SoundMonotone DEF IInv
<1> QED BY <1>1, <1>2, <1>3, <1>4, <1>5, <1>6, <1>7, <1>8, <1>9, <1>10 DEF IInv

LEMMA ReuseInv ==
  ASSUME IInv, NEW t \in Tags, Reuse(t)
  PROVE  IInv'
<1>h. \A x, u \in Tags : u \in Holders(x)' <=> u \in Holders(x)
  <2>1. sess[t] = Null /\ pc[t] = "match" /\ pc'[t] = "using" /\ sess'[t] = cand[t]
    BY DEF IInv, Reuse, Types, Pointers
  <2>2. ASSUME NEW u \in Tags, u # t
        PROVE  sess'[u] = sess[u] /\ pc'[u] = pc[u] /\ cand'[u] = cand[u]
    BY <2>2 DEF IInv, Reuse, Types
  <2> QED BY TagAssumption, <2>1, <2>2 DEF Holders
<1>s. \A x \in Tags : Sound(x)' => Sound(x)
  BY TagAssumption DEF IInv, Reuse, sessions, Types, Sound, Listed
<1>1. Types'
  BY TagAssumption DEF IInv, Reuse, sessions, Types, Pcs, InSearch
<1>2. Pointers'
  BY TagAssumption DEF IInv, Reuse, sessions, Types, Pointers, InSearch
<1>3. Mutex'
  BY TagAssumption DEF IInv, Reuse, sessions, Types, Pointers, Mutex, InSearch
<1>4. Unborn'
  BY TagAssumption DEF IInv, Reuse, sessions, Types, Pointers, Mutex, Unborn, InSearch
<1>5. Dying'
  BY TagAssumption DEF IInv, Reuse, sessions, Types, Pointers, Mutex, Unborn, Dying, OnList,
         MemorySafe, InSearch
<1>6. OnList'
  BY TagAssumption DEF IInv, Reuse, sessions, Types, Pointers, Mutex, Unborn, Dying, OnList,
         InSearch
<1>7. CountIsHolders'
  BY <1>h, TagAssumption, CountSame DEF IInv, Reuse, sessions, Types
<1>8. MemorySafe'
  BY <1>h, TagAssumption DEF IInv, Reuse, sessions, Types, Pointers, Unborn, MemorySafe, Listed,
         Holders
<1>9. Search'
  BY TagAssumption DEF IInv, Reuse, sessions, Types, Pointers, Mutex, Dying, OnList, Search,
         SearchOf, Twin, InSearch
<1>10. OneSession'
  BY <1>s, SoundMonotone DEF IInv, Reuse, sessions
<1> QED BY <1>1, <1>2, <1>3, <1>4, <1>5, <1>6, <1>7, <1>8, <1>9, <1>10 DEF IInv

LEMMA CreateFailInv ==
  ASSUME IInv, NEW t \in Tags, CreateFail(t)
  PROVE  IInv'
<1>h. \A x, u \in Tags : u \in Holders(x)' <=> u \in Holders(x)
  BY TagAssumption DEF IInv, CreateFail, sessions, places, Types, Pointers, Holders
<1>s. \A x \in Tags : Sound(x)' => Sound(x)
  BY TagAssumption DEF IInv, CreateFail, sessions, places, Types, Sound, Listed
<1>1. Types'
  BY TagAssumption DEF IInv, CreateFail, sessions, places, Types, Pcs, InSearch
<1>2. Pointers'
  BY TagAssumption DEF IInv, CreateFail, sessions, places, Types, Pointers, InSearch
<1>3. Mutex'
  BY TagAssumption DEF IInv, CreateFail, sessions, places, Types, Pointers, Mutex, InSearch
<1>4. Unborn'
  BY TagAssumption DEF IInv, CreateFail, sessions, places, Types, Pointers, Mutex, Unborn,
         InSearch
<1>5. Dying'
  BY TagAssumption DEF IInv, CreateFail, sessions, places, Types, Pointers, Mutex, Unborn, Dying,
         OnList, MemorySafe, InSearch
<1>6. OnList'
  BY TagAssumption DEF IInv, CreateFail, sessions, places, Types, Pointers, Mutex, Unborn, Dying,
         OnList, InSearch
<1>7. CountIsHolders'
  BY <1>h, TagAssumption, CountSame DEF IInv, CreateFail, sessions, places, Types
<1>8. MemorySafe'
  BY <1>h, TagAssumption DEF IInv, CreateFail, sessions, places, Types, Pointers, Unborn,
         MemorySafe, Listed, Holders
<1>9. Search'
  BY TagAssumption DEF IInv, CreateFail, sessions, places, Types, Pointers, Mutex, Dying, OnList,
         Search, SearchOf, Twin, InSearch
<1>10. OneSession'
  BY <1>s, SoundMonotone DEF IInv, CreateFail, sessions, places
<1> QED BY <1>1, <1>2, <1>3, <1>4, <1>5, <1>6, <1>7, <1>8, <1>9, <1>10 DEF IInv

LEMMA StartInv ==
  ASSUME IInv, NEW t \in Tags, Start(t)
  PROVE  IInv'
<1>h. \A x, u \in Tags : u \in Holders(x)' <=> u \in Holders(x)
  BY TagAssumption DEF IInv, Start, places, Types, Pointers, Holders
<1>s. \A x \in Tags : Sound(x)' => Sound(x)
  BY TagAssumption DEF IInv, Start, places, Types, Sound, Listed
<1>1. Types'
  BY TagAssumption DEF IInv, Start, places, Types, Pcs, InSearch
<1>2. Pointers'
  BY TagAssumption DEF IInv, Start, places, Types, Pointers, InSearch
<1>3. Mutex'
  BY TagAssumption DEF IInv, Start, places, Types, Pointers, Mutex, InSearch
<1>4. Unborn'
  BY TagAssumption DEF IInv, Start, places, Types, Pointers, Mutex, Unborn, InSearch
<1>5. Dying'
  BY TagAssumption DEF IInv, Start, places, Types, Pointers, Mutex, Unborn, Dying, OnList,
         MemorySafe, InSearch
<1>6. OnList'
  BY TagAssumption DEF IInv, Start, places, Types, Pointers, Mutex, Unborn, Dying, OnList,
         InSearch
<1>7. CountIsHolders'
  BY <1>h, TagAssumption, CountSame DEF IInv, Start, places, Types
<1>8. MemorySafe'
  BY <1>h, TagAssumption DEF IInv, Start, places, Types, Pointers, Unborn, MemorySafe, Listed,
         Holders
<1>9. Search'
  BY TagAssumption DEF IInv, Start, places, Types, Pointers, Mutex, Dying, OnList, Search,
         SearchOf, Twin, InSearch
<1>10. OneSession'
  BY <1>s, SoundMonotone DEF IInv, Start, places
<1> QED BY <1>1, <1>2, <1>3, <1>4, <1>5, <1>6, <1>7, <1>8, <1>9, <1>10 DEF IInv

LEMMA StartFailInv ==
  ASSUME IInv, NEW t \in Tags, StartFail(t)
  PROVE  IInv'
<1>h. \A x, u \in Tags : u \in Holders(x)' <=> u \in Holders(x)
  BY TagAssumption DEF IInv, StartFail, places, Types, Pointers, Holders
<1>s. \A x \in Tags : Sound(x)' => Sound(x)
  BY TagAssumption DEF IInv, StartFail, places, Types, Sound, Listed
<1>1. Types'
  BY TagAssumption DEF IInv, StartFail, places, Types, Pcs, InSearch
<1>2. Pointers'
  BY TagAssumption DEF IInv, StartFail, places, Types, Pointers, InSearch
<1>3. Mutex'
  BY TagAssumption DEF IInv, StartFail, places, Types, Pointers, Mutex, InSearch
<1>4. Unborn'
  BY TagAssumption DEF IInv, StartFail, places, Types, Pointers, Mutex, Unborn, InSearch
<1>5. Dying'
  BY TagAssumption DEF IInv, StartFail, places, Types, Pointers, Mutex, Unborn, Dying, OnList,
         MemorySafe, InSearch
<1>6. OnList'
  BY TagAssumption DEF IInv, StartFail, places, Types, Pointers, Mutex, Unborn, Dying, OnList,
         InSearch
<1>7. CountIsHolders'
  BY <1>h, TagAssumption, CountSame DEF IInv, StartFail, places, Types
<1>8. MemorySafe'
  BY <1>h, TagAssumption DEF IInv, StartFail, places, Types, Pointers, Unborn, MemorySafe, Listed,
         Holders
<1>9. Search'
  <2>1. \A x, u \in Tags : Twin(x, u)' => Twin(x, u)
    BY TagAssumption DEF IInv, StartFail, places, Types, Twin
  <2>2. \A i \in 1..Len(list) : list[i] \in Tags
    BY ElementOfSeq DEF IInv, Types
  <2>3. ASSUME NEW u \in Tags PROVE SearchOf(u)'
    BY TagAssumption, <2>1, <2>2
    DEF IInv, StartFail, places, Types, Pointers, Mutex, Search, SearchOf, InSearch
  <2> QED BY <2>3 DEF Search
<1>10. OneSession'
  BY <1>s, SoundMonotone DEF IInv, StartFail, places
<1> QED BY <1>1, <1>2, <1>3, <1>4, <1>5, <1>6, <1>7, <1>8, <1>9, <1>10 DEF IInv

(* The handler threads and the end of the library. *)
LEMMA QuietInv ==
  ASSUME IInv, UNCHANGED <<lock, list, mem, count, failed, pc, at, sess, cand, passed>>,
         \/ handler' = handler
         \/ \E s \in Tags : handler[s] = "running" /\ handler' = [handler EXCEPT ![s] = "exited"]
  PROVE  IInv'
<1>h. \A x, u \in Tags : u \in Holders(x)' <=> u \in Holders(x)
  BY TagAssumption DEF IInv, Types, Pointers, Holders
<1>s. \A x \in Tags : Sound(x)' => Sound(x)
  BY TagAssumption DEF IInv, Types, Sound, Listed
<1>1. Types'
  BY TagAssumption DEF IInv, Types, Pcs, InSearch
<1>2. Pointers'
  BY TagAssumption DEF IInv, Types, Pointers, InSearch
<1>3. Mutex'
  BY TagAssumption DEF IInv, Types, Pointers, Mutex, InSearch
<1>4. Unborn'
  BY TagAssumption DEF IInv, Types, Pointers, Mutex, Unborn, InSearch
<1>5. Dying'
  BY TagAssumption DEF IInv, Types, Pointers, Mutex, Unborn, Dying, OnList, MemorySafe, InSearch
<1>6. OnList'
  BY TagAssumption DEF IInv, Types, Pointers, Mutex, Unborn, Dying, OnList, InSearch
<1>7. CountIsHolders'
  BY <1>h, TagAssumption, CountSame DEF IInv, Types
<1>8. MemorySafe'
  BY <1>h, TagAssumption DEF IInv, Types, Pointers, Unborn, MemorySafe, Listed, Holders
<1>9. Search'
  <2>1. \A x, u \in Tags : Twin(x, u)' => Twin(x, u)
    BY TagAssumption DEF IInv, Types, Twin
  <2>2. \A i \in 1..Len(list) : list[i] \in Tags
    BY ElementOfSeq DEF IInv, Types
  <2>3. ASSUME NEW u \in Tags PROVE SearchOf(u)'
    BY TagAssumption, <2>1, <2>2
    DEF IInv, Types, Pointers, Mutex, Search, SearchOf, InSearch
  <2> QED BY <2>3 DEF Search
<1>10. OneSession'
  BY <1>s, SoundMonotone DEF IInv
<1> QED BY <1>1, <1>2, <1>3, <1>4, <1>5, <1>6, <1>7, <1>8, <1>9, <1>10 DEF IInv

LEMMA SkipInv ==
  ASSUME IInv, NEW t \in Tags, Skip(t), NEW s, s = cand[t]
  PROVE  IInv'
<1>b. UNCHANGED <<lock, list, mem, handler, failed, sess>>
  BY DEF Skip
<1>c. /\ pc[t] = "match" /\ ~Matches(s, t)
      /\ count' = [count EXCEPT ![s] = @ - 1]
      /\ cand' = [cand EXCEPT ![t] = IF count[s] = 1 THEN s ELSE Null]
      /\ pc' = [pc EXCEPT ![t] = IF count[s] = 1 THEN "remove" ELSE "scan"]
      /\ at' = [at EXCEPT ![t] = @ + 1]
      /\ passed' = (passed \/ count[s] = 1)
  BY DEF Skip, Drop
<1>a. s \in Tags /\ t \in Holders(s) /\ count[s] \in Nat \ {0} /\ Contains(list, s)
  BY <1>c, TagAssumption, HeldCounts DEF IInv, Types, Pointers, Holders, OnList
<1>d. mem[s] = "alive"
  BY <1>a, ListedAlive DEF IInv
<1>h. \A x, u \in Tags : u \in Holders(x)' <=> u \in Holders(x) /\ ~(x = s /\ u = t)
  <2>1. sess[t] = Null /\ pc'[t] # "match" /\ sess'[t] = Null
    BY <1>b, <1>c, TagAssumption DEF IInv, Types, Pointers
  <2>2. ASSUME NEW u \in Tags, u # t
        PROVE  sess'[u] = sess[u] /\ pc'[u] = pc[u] /\ cand'[u] = cand[u]
    BY <1>b, <1>c, <2>2 DEF IInv, Types
  <2> QED BY <1>a, <1>c, <2>1, <2>2, TagAssumption DEF Holders
<1>s. \A x \in Tags : Sound(x)' => Sound(x)
  BY TagAssumption, <1>b, <1>c, <1>a, <1>d DEF IInv, Types, Sound, Listed
<1>t. Types
  BY DEF IInv
<1>1. Types'
  <2>1. pc' \in [Tags -> Pcs \cup {"crashed"}]
    BY <1>t, <1>b, <1>c DEF Types, Pcs, InSearch
  <2>2. count' \in [Tags -> Nat]
    BY <1>t, <1>a, <1>b, <1>c DEF Types
  <2>3. at' \in [Tags -> Nat \ {0}]
    BY <1>t, <1>b, <1>c DEF Types
  <2>4. cand' \in [Tags -> Tags \cup {Null}]
    BY <1>t, <1>a, <1>b, <1>c DEF Types
  <2> QED BY <1>t, <1>b, <1>c, <2>1, <2>2, <2>3, <2>4 DEF Types
<1>2. Pointers'
  BY TagAssumption, <1>b, <1>c, <1>a, <1>d DEF IInv, Types, Pointers, InSearch
<1>3. Mutex'
  BY TagAssumption, <1>b, <1>c, <1>a, <1>d DEF IInv, Types, Pointers, Mutex, InSearch
<1>4. Unborn'
  BY TagAssumption, <1>b, <1>c, <1>a, <1>d DEF IInv, Types, Pointers, Mutex, Unborn, InSearch
<1>5. Dying'
  BY TagAssumption, <1>b, <1>c, <1>a, <1>d DEF IInv, Types, Pointers, Mutex, Unborn, Dying,
         OnList, MemorySafe, InSearch
<1>6. OnList'
  BY TagAssumption, <1>b, <1>c, <1>a, <1>d DEF IInv, Types, Pointers, Mutex, Unborn, Dying,
         OnList, InSearch
<1>7. CountIsHolders'
  <2>1. \A x \in Tags : count'[x] = IF x = s THEN count[x] - 1 ELSE count[x]
    BY <1>a, <1>c DEF IInv, Types
  <2> QED BY <1>a, <1>h, <2>1, CountDrop DEF IInv
<1>8. MemorySafe'
  BY <1>h, TagAssumption, <1>b, <1>c, <1>a, <1>d DEF IInv, Types, Pointers, Unborn, MemorySafe,
         Listed, Holders
<1>9. Search'
  <2>1. \A x, u \in Tags : Twin(x, u)' => Twin(x, u)
    BY TagAssumption, <1>a, <1>b, <1>c DEF IInv, Types, Twin
  <2>2. \A i \in 1..Len(list) : list[i] \in Tags
    BY ElementOfSeq DEF IInv, Types
  <2>3. SearchOf(t)'
    <3>1. \A i \in 1..Len(list) : i < at[t] + 1 => i < at[t] \/ list[i] = s
      BY <1>c, LenProperties, SMTT(30) DEF IInv, Types, Search, SearchOf
    <3>2. ~Twin(s, t)
      BY <1>c DEF Twin, Matches
    <3>3. passed' \/ pc'[t] = "scan"
      BY <1>a, <1>c DEF IInv, Types
    <3>4. at'[t] = at[t] + 1 /\ at[t] \in Nat \ {0} /\ pc[t] = "match"
      BY <1>a, <1>b, <1>c DEF IInv, Types
    <3> QED BY <1>a, <1>b, <1>c, <2>1, <2>2, <3>1, <3>2, <3>3, <3>4, ZenonT(60)
            DEF IInv, Types, Search, SearchOf
  <2>4. ASSUME NEW u \in Tags, u # t PROVE SearchOf(u)'
    <3>1. pc'[u] = pc[u] /\ cand'[u] = cand[u] /\ at'[u] = at[u]
      BY <1>b, <1>c, <2>4 DEF IInv, Types
    <3>2. SearchOf(u)
      BY DEF IInv, Search
    <3> QED BY <1>b, <1>c, <2>1, <2>2, <2>4, <3>1, <3>2 DEF SearchOf
  <2> QED BY <2>3, <2>4 DEF Search
<1>10. OneSession'
  BY <1>s, <1>b, <1>c, <1>a, <1>d, SoundMonotone DEF IInv
<1> QED BY <1>1, <1>2, <1>3, <1>4, <1>5, <1>6, <1>7, <1>8, <1>9, <1>10 DEF IInv

(* A tag that goes, or whose session did not start. *)
LEMMA LeaveInv ==
  ASSUME IInv, NEW t \in Tags, NEW s, s = sess[t],
         pc[t] \in {"giveup", "using"}, Drop(t, s, "gone"), sess' = [sess EXCEPT ![t] = Null],
         UNCHANGED <<lock, list, mem, handler, failed, at, passed>>
  PROVE  IInv'
<1>a. s \in Tags /\ t \in Holders(s) /\ count[s] \in Nat \ {0} /\ Contains(list, s)
  BY TagAssumption, HeldCounts DEF IInv, Types, Pointers, Holders, OnList
<1>c. /\ count' = [count EXCEPT ![s] = @ - 1]
      /\ cand' = [cand EXCEPT ![t] = IF count[s] = 1 THEN s ELSE Null]
      /\ pc' = [pc EXCEPT ![t] = IF count[s] = 1 THEN "remove" ELSE "gone"]
  BY DEF Drop
<1>d. mem[s] = "alive"
  BY <1>a, ListedAlive DEF IInv
<1>h. \A x, u \in Tags : u \in Holders(x)' <=> u \in Holders(x) /\ ~(x = s /\ u = t)
  BY TagAssumption, <1>a, <1>c, <1>d DEF IInv, Types, Pointers, Holders
<1>s. \A x \in Tags : Sound(x)' => Sound(x)
  BY TagAssumption, <1>a, <1>c, <1>d DEF IInv, Types, Sound, Listed
<1>1. Types'
  BY TagAssumption, <1>a, <1>c, <1>d DEF IInv, Types, Pcs, InSearch
<1>2. Pointers'
  BY TagAssumption, <1>a, <1>c, <1>d DEF IInv, Types, Pointers, InSearch
<1>3. Mutex'
  BY TagAssumption, <1>a, <1>c, <1>d DEF IInv, Types, Pointers, Mutex, InSearch
<1>4. Unborn'
  BY TagAssumption, <1>a, <1>c, <1>d DEF IInv, Types, Pointers, Mutex, Unborn, InSearch
<1>5. Dying'
  BY TagAssumption, <1>a, <1>c, <1>d DEF IInv, Types, Pointers, Mutex, Unborn, Dying, OnList,
         MemorySafe, InSearch
<1>6. OnList'
  BY TagAssumption, <1>a, <1>c, <1>d DEF IInv, Types, Pointers, Mutex, Unborn, Dying, OnList,
         InSearch
<1>7. CountIsHolders'
  <2>1. \A x \in Tags : count'[x] = IF x = s THEN count[x] - 1 ELSE count[x]
    BY <1>a, <1>c DEF IInv, Types
  <2> QED BY <1>a, <1>h, <2>1, CountDrop DEF IInv
<1>8. MemorySafe'
  BY <1>h, TagAssumption, <1>a, <1>c, <1>d DEF IInv, Types, Pointers, Unborn, MemorySafe, Listed,
         Holders
<1>9. Search'
  <2>1. \A x, u \in Tags : Twin(x, u)' => Twin(x, u)
    BY TagAssumption, <1>a, <1>c DEF IInv, Types, Twin
  <2>2. \A i \in 1..Len(list) : list[i] \in Tags
    BY ElementOfSeq DEF IInv, Types
  <2>3. ASSUME NEW u \in Tags PROVE SearchOf(u)'
    BY <1>c, <2>1, <2>2 DEF IInv, Types, Mutex, InSearch, Search, SearchOf
  <2> QED BY <2>3 DEF Search
<1>10. OneSession'
  BY <1>s, <1>a, <1>c, <1>d, SoundMonotone DEF IInv
<1> QED BY <1>1, <1>2, <1>3, <1>4, <1>5, <1>6, <1>7, <1>8, <1>9, <1>10 DEF IInv

LEMMA CreateInv ==
  ASSUME IInv, NEW t \in Tags, Create(t)
  PROVE  IInv'
<1>b. UNCHANGED <<handler, failed, at, cand, passed>>
  BY DEF Create
<1>c. /\ pc[t] = "create" /\ list' = Append(list, t) /\ lock' = Null
      /\ mem' = [mem EXCEPT ![t] = "alive"] /\ count' = [count EXCEPT ![t] = 1]
      /\ sess' = [sess EXCEPT ![t] = t] /\ pc' = [pc EXCEPT ![t] = "init"]
  BY DEF Create
<1>a. mem[t] = "none" /\ ~Contains(list, t) /\ Holders(t) = {} /\ handler[t] = "none"
  BY <1>c, ListedAlive DEF IInv, InSearch, Unborn, MemorySafe
<1>d. count[t] = 0
  BY <1>a, FS_EmptySet DEF IInv, CountIsHolders
<1>e. /\ list' \in Seq(Tags) /\ Len(list') = Len(list) + 1 /\ Len(list) \in Nat
      /\ \A x : Contains(list', x) <=> Contains(list, x) \/ x = t
      /\ \A i \in 1..Len(list) + 1 : list'[i] = IF i = Len(list) + 1 THEN t ELSE list[i]
  BY <1>c, Appending, LenProperties DEF IInv, Types
<1>h. \A x, u \in Tags : u \in Holders(x)' <=> u \in Holders(x) \/ (x = t /\ u = t)
  <2>1. \A x \in Tags : t \in Holders(x)' <=> x = t
    BY <1>b, <1>c, TagAssumption DEF IInv, Types, Holders
  <2>2. \A x \in Tags : t \notin Holders(x)
    BY <1>c, TagAssumption DEF IInv, Pointers, Holders
  <2>3. ASSUME NEW u \in Tags, u # t
        PROVE  sess'[u] = sess[u] /\ pc'[u] = pc[u] /\ cand'[u] = cand[u]
    BY <1>b, <1>c, <2>3 DEF IInv, Types
  <2> QED BY <2>1, <2>2, <2>3 DEF Holders
<1>1. Types'
  BY TagAssumption, <1>b, <1>c, <1>a, <1>d, <1>e DEF IInv, Types, Pcs, InSearch
<1>2. Pointers'
  BY TagAssumption, <1>b, <1>c, <1>a, <1>d, <1>e DEF IInv, Types, Pointers, InSearch
<1>3. Mutex'
  BY TagAssumption, <1>b, <1>c, <1>a, <1>d, <1>e DEF IInv, Types, Pointers, Mutex, InSearch
<1>4. Unborn'
  BY TagAssumption, <1>b, <1>c, <1>a, <1>d, <1>e DEF IInv, Types, Pointers, Mutex, Unborn,
         InSearch
<1>5. Dying'
  BY TagAssumption, <1>b, <1>c, <1>a, <1>d, <1>e DEF IInv, Types, Pointers, Mutex, Unborn, Dying,
         OnList, MemorySafe, InSearch
<1>6. OnList'
  <2>1. \A i, j \in 1..Len(list') : list'[i] = list'[j] => i = j
    BY <1>a, <1>e DEF IInv, OnList, Contains
  <2>2. \A x \in Tags : count'[x] > 0 => Contains(list', x)
    BY <1>c, <1>e DEF IInv, Types, OnList
  <2> QED BY <2>1, <2>2 DEF OnList
<1>7. CountIsHolders'
  <2>1. \A x \in Tags : count'[x] = IF x = t THEN count[x] + 1 ELSE count[x]
    BY <1>c, <1>d DEF IInv, Types
  <2> QED BY <1>a, <1>h, <2>1, CountTake DEF IInv
<1>8. MemorySafe'
  <2>1. \A x \in Tags : Listed(x)' => Listed(x) \/ x = t
    BY <1>e, InToSet DEF IInv, Types, Listed
  <2>2. \A x \in Tags : mem'[x] = IF x = t THEN "alive" ELSE mem[x]
    BY <1>c DEF IInv, Types
  <2>3. \A x \in Tags : Holders(x)' # {} => Holders(x) # {} \/ x = t
    BY <1>h DEF Holders
  <2> QED BY <1>b, <2>1, <2>2, <2>3 DEF IInv, MemorySafe
<1>9. Search'
  <2>1. ASSUME NEW u \in Tags PROVE pc'[u] \notin {"scan", "match", "create"}
    BY <1>c, <2>1, TagAssumption DEF IInv, Types, Mutex, InSearch
  <2> QED BY <1>b, <1>c, <2>1, TagAssumption DEF IInv, Types, Search, SearchOf
<1>10. OneSession'
  <2>1. \A x \in Tags : Sound(x)' => (x = t \/ Sound(x)) /\ x \notin Private
    BY <1>b, <1>c, <1>e, InToSet DEF IInv, Types, Sound, Listed
  <2>2. ASSUME ~passed, t \notin Private, NEW x \in Tags, Sound(x) PROVE Key[x] # Key[t]
    <3>1. Contains(list, x)
      BY <2>2, InToSet DEF IInv, Types, Sound, Listed
    <3>2. PICK i \in 1..Len(list) : list[i] = x
      BY <3>1 DEF Contains
    <3>3. ~Twin(x, t)
      BY <1>c, <2>2, <3>2 DEF IInv, Search, SearchOf
    <3> QED BY <2>2, <3>3 DEF Twin, Sound
  <2> QED BY <1>b, <2>1, <2>2 DEF IInv, OneSession
<1> QED BY <1>1, <1>2, <1>3, <1>4, <1>5, <1>6, <1>7, <1>8, <1>9, <1>10 DEF IInv

LEMMA RemoveInv ==
  ASSUME IInv, NEW t \in Tags, RemoveSession(t), NEW s, s = cand[t]
  PROVE  IInv'
<1>b. UNCHANGED <<lock, mem, count, handler, failed, at, sess, cand, passed>>
  BY DEF RemoveSession, places
<1>c. /\ pc[t] = "remove" /\ lock \in {Null, t}
      /\ list' = Without(list, s) /\ pc' = [pc EXCEPT ![t] = "join"]
  BY DEF RemoveSession
<1>a. s \in Tags /\ Contains(list, s) /\ count[s] = 0
  BY <1>c, TagAssumption DEF IInv, Types, Pointers, Dying
<1>e. /\ list' \in Seq(Tags)
      /\ \A x : Contains(list', x) <=> Contains(list, x) /\ x # s
      /\ \A i, j \in 1..Len(list') : list'[i] = list'[j] => i = j
  <2>1. list \in Seq(Tags) /\ \A i, j \in 1..Len(list) : list[i] = list[j] => i = j
    BY DEF IInv, Types, OnList
  <2>2. Contains(list, s)
    BY <1>a
  <2>3. /\ Without(list, s) \in Seq(Tags)
        /\ \A x : Contains(Without(list, s), x) <=> Contains(list, x) /\ x # s
        /\ \A i, j \in 1..Len(Without(list, s)) :
             Without(list, s)[i] = Without(list, s)[j] => i = j
    BY <2>1, <2>2, Removing
  <2> QED BY <1>c, <2>3
<1>l. \A x \in Tags : Listed(x)' => Listed(x)
  BY <1>e, InToSet DEF IInv, Types, Listed
<1>h. \A x, u \in Tags : u \in Holders(x)' <=> u \in Holders(x)
  BY TagAssumption, <1>b, <1>c, <1>a, <1>e, <1>l DEF IInv, Types, Pointers, Holders
<1>s. \A x \in Tags : Sound(x)' => Sound(x)
  BY TagAssumption, <1>b, <1>c, <1>a, <1>e, <1>l DEF IInv, Types, Sound, Listed
<1>1. Types'
  BY TagAssumption, <1>b, <1>c, <1>a, <1>e, <1>l DEF IInv, Types, Pcs, InSearch
<1>2. Pointers'
  BY TagAssumption, <1>b, <1>c, <1>a, <1>e, <1>l DEF IInv, Types, Pointers, InSearch
<1>3. Mutex'
  BY TagAssumption, <1>b, <1>c, <1>a, <1>e, <1>l DEF IInv, Types, Pointers, Mutex, InSearch
<1>4. Unborn'
  BY TagAssumption, <1>b, <1>c, <1>a, <1>e, <1>l DEF IInv, Types, Pointers, Mutex, Unborn,
         InSearch
<1>5. Dying'
  BY TagAssumption, <1>b, <1>c, <1>a, <1>e, <1>l DEF IInv, Types, Pointers, Mutex, Unborn, Dying,
         OnList, MemorySafe, InSearch
<1>6. OnList'
  BY TagAssumption, <1>b, <1>c, <1>a, <1>e, <1>l DEF IInv, Types, Pointers, Mutex, Unborn, Dying,
         OnList, InSearch
<1>7. CountIsHolders'
  BY <1>h, TagAssumption, <1>b, <1>c, <1>a, <1>e, <1>l, CountSame DEF IInv, Types
<1>8. MemorySafe'
  BY <1>b, <1>c, <1>h, <1>l DEF IInv, Types, MemorySafe, Holders
<1>9. Search'
  <2>1. ASSUME NEW u \in Tags PROVE pc'[u] \notin {"scan", "match", "create"}
    BY <1>c, <2>1, TagAssumption DEF IInv, Types, Mutex, InSearch
  <2> QED BY <1>b, <1>c, <2>1 DEF IInv, Types, Search, SearchOf
<1>10. OneSession'
  BY <1>s, <1>b, <1>c, <1>a, <1>e, <1>l, SoundMonotone DEF IInv
<1> QED BY <1>1, <1>2, <1>3, <1>4, <1>5, <1>6, <1>7, <1>8, <1>9, <1>10 DEF IInv

LEMMA FreeInv ==
  ASSUME IInv, NEW t \in Tags, Free(t), NEW s, s = cand[t]
  PROVE  IInv'
<1>b. UNCHANGED <<lock, list, count, failed, at, sess, passed>>
  BY DEF Free
<1>c. /\ pc[t] = "join" /\ handler' = [handler EXCEPT ![s] = "none"]
      /\ mem' = [mem EXCEPT ![s] = "freed"] /\ cand' = [cand EXCEPT ![t] = Null]
      /\ pc' = [pc EXCEPT ![t] = IF lock = t THEN "scan" ELSE "gone"]
  BY DEF Free
<1>a. s \in Tags /\ ~Contains(list, s) /\ count[s] = 0 /\ mem[s] = "alive"
  BY <1>c, TagAssumption DEF IInv, Types, Pointers, Dying
<1>h. \A x, u \in Tags : u \in Holders(x)' <=> u \in Holders(x)
  BY TagAssumption, <1>b, <1>c, <1>a DEF IInv, Types, Pointers, Holders
<1>s. \A x \in Tags : Sound(x)' => Sound(x)
  BY TagAssumption, <1>b, <1>c, <1>a DEF IInv, Types, Sound, Listed
<1>1. Types'
  BY TagAssumption, <1>b, <1>c, <1>a DEF IInv, Types, Pcs, InSearch
<1>2. Pointers'
  BY TagAssumption, <1>b, <1>c, <1>a DEF IInv, Types, Pointers, InSearch
<1>3. Mutex'
  BY TagAssumption, <1>b, <1>c, <1>a DEF IInv, Types, Pointers, Mutex, InSearch
<1>4. Unborn'
  BY TagAssumption, <1>b, <1>c, <1>a DEF IInv, Types, Pointers, Mutex, Unborn, InSearch
<1>5. Dying'
  BY TagAssumption, <1>b, <1>c, <1>a DEF IInv, Types, Pointers, Mutex, Unborn, Dying, OnList,
         MemorySafe, InSearch
<1>6. OnList'
  BY TagAssumption, <1>b, <1>c, <1>a DEF IInv, Types, Pointers, Mutex, Unborn, Dying, OnList,
         InSearch
<1>7. CountIsHolders'
  BY <1>h, TagAssumption, <1>b, <1>c, <1>a, CountSame DEF IInv, Types
<1>8. MemorySafe'
  <2>1. ~Listed(s) /\ Holders(s) = {}
    BY <1>a, InToSet, HeldCounts DEF IInv, Types, Listed, Holders
  <2>2. \A x \in Tags : Listed(x)' = Listed(x) /\ (Holders(x)' # {} => Holders(x) # {})
    BY <1>b, <1>h DEF Listed, Holders
  <2>3. \A x \in Tags : mem'[x] = IF x = s THEN "freed" ELSE mem[x]
    BY <1>c DEF IInv, Types
  <2>4. \A x \in Tags : handler'[x] = IF x = s THEN "none" ELSE handler[x]
    BY <1>c DEF IInv, Types
  <2> QED BY <2>1, <2>2, <2>3, <2>4 DEF IInv, MemorySafe
<1>9. Search'
  BY TagAssumption, <1>b, <1>c, <1>a DEF IInv, Types, Pointers, Mutex, Dying, OnList, Search,
         SearchOf, Twin, InSearch
<1>10. OneSession'
  BY <1>s, <1>b, <1>c, <1>a, SoundMonotone DEF IInv
<1> QED BY <1>1, <1>2, <1>3, <1>4, <1>5, <1>6, <1>7, <1>8, <1>9, <1>10 DEF IInv

LEMMA StartFailQuietInv ==
  ASSUME IInv, NEW t \in Tags, StartFailQuiet(t)
  PROVE  IInv'
<1>h. \A x, u \in Tags : u \in Holders(x)' <=> u \in Holders(x)
  BY TagAssumption DEF IInv, StartFailQuiet, sessions, places, Types, Pointers, Holders
<1>s. \A x \in Tags : Sound(x)' => Sound(x)
  BY TagAssumption DEF IInv, StartFailQuiet, sessions, places, Types, Sound, Listed
<1>1. Types'
  BY TagAssumption DEF IInv, StartFailQuiet, sessions, places, Types, Pcs, InSearch
<1>2. Pointers'
  BY TagAssumption DEF IInv, StartFailQuiet, sessions, places, Types, Pointers, InSearch
<1>3. Mutex'
  BY TagAssumption DEF IInv, StartFailQuiet, sessions, places, Types, Pointers, Mutex, InSearch
<1>4. Unborn'
  BY TagAssumption DEF IInv, StartFailQuiet, sessions, places, Types, Pointers, Mutex, Unborn,
         InSearch
<1>5. Dying'
  BY TagAssumption DEF IInv, StartFailQuiet, sessions, places, Types, Pointers, Mutex, Unborn,
         Dying, OnList, MemorySafe, InSearch
<1>6. OnList'
  BY TagAssumption DEF IInv, StartFailQuiet, sessions, places, Types, Pointers, Mutex, Unborn,
         Dying, OnList, InSearch
<1>7. CountIsHolders'
  BY <1>h, TagAssumption, CountSame DEF IInv, StartFailQuiet, sessions, places, Types
<1>8. MemorySafe'
  BY <1>h, TagAssumption DEF IInv, StartFailQuiet, sessions, places, Types, Pointers, Unborn,
         MemorySafe, Listed, Holders
<1>9. Search'
  BY TagAssumption DEF IInv, StartFailQuiet, sessions, places, Types, Pointers, Mutex, Dying,
         OnList, Search, SearchOf, Twin, InSearch
<1>10. OneSession'
  BY <1>s, SoundMonotone DEF IInv, StartFailQuiet, sessions, places
<1> QED BY <1>1, <1>2, <1>3, <1>4, <1>5, <1>6, <1>7, <1>8, <1>9, <1>10 DEF IInv

LEMMA FindDyingPlcInv ==
  ASSUME IInv, NEW t \in Tags, FindDyingPlc(t)
  PROVE  IInv'
<1>h. \A x, u \in Tags : u \in Holders(x)' <=> u \in Holders(x)
  BY TagAssumption DEF IInv, FindDyingPlc, sessions, places, Types, Pointers, Holders
<1>s. \A x \in Tags : Sound(x)' => Sound(x)
  BY TagAssumption DEF IInv, FindDyingPlc, sessions, places, Types, Sound, Listed
<1>1. Types'
  BY TagAssumption DEF IInv, FindDyingPlc, sessions, places, Types, Pcs, InSearch
<1>2. Pointers'
  BY TagAssumption DEF IInv, FindDyingPlc, sessions, places, Types, Pointers, InSearch
<1>3. Mutex'
  BY TagAssumption DEF IInv, FindDyingPlc, sessions, places, Types, Pointers, Mutex, InSearch
<1>4. Unborn'
  BY TagAssumption DEF IInv, FindDyingPlc, sessions, places, Types, Pointers, Mutex, Unborn,
         InSearch
<1>5. Dying'
  BY TagAssumption DEF IInv, FindDyingPlc, sessions, places, Types, Pointers, Mutex, Unborn,
         Dying, OnList, MemorySafe, InSearch
<1>6. OnList'
  BY TagAssumption DEF IInv, FindDyingPlc, sessions, places, Types, Pointers, Mutex, Unborn,
         Dying, OnList, InSearch
<1>7. CountIsHolders'
  BY <1>h, TagAssumption, CountSame DEF IInv, FindDyingPlc, sessions, places, Types
<1>8. MemorySafe'
  BY <1>h, TagAssumption DEF IInv, FindDyingPlc, sessions, places, Types, Pointers, Unborn,
         MemorySafe, Listed, Holders
<1>9. Search'
  BY TagAssumption DEF IInv, FindDyingPlc, sessions, places, Types, Pointers, Mutex, Dying,
         OnList, Search, SearchOf, Twin, InSearch
<1>10. OneSession'
  BY <1>s, SoundMonotone DEF IInv, FindDyingPlc, sessions, places
<1> QED BY <1>1, <1>2, <1>3, <1>4, <1>5, <1>6, <1>7, <1>8, <1>9, <1>10 DEF IInv

LEMMA CreatePlcFailInv ==
  ASSUME IInv, NEW t \in Tags, CreatePlcFail(t)
  PROVE  IInv'
<1>h. \A x, u \in Tags : u \in Holders(x)' <=> u \in Holders(x)
  BY TagAssumption DEF IInv, CreatePlcFail, sessions, places, Types, Pointers, Holders
<1>s. \A x \in Tags : Sound(x)' => Sound(x)
  BY TagAssumption DEF IInv, CreatePlcFail, sessions, places, Types, Sound, Listed
<1>1. Types'
  BY TagAssumption DEF IInv, CreatePlcFail, sessions, places, Types, Pcs, InSearch
<1>2. Pointers'
  BY TagAssumption DEF IInv, CreatePlcFail, sessions, places, Types, Pointers, InSearch
<1>3. Mutex'
  BY TagAssumption DEF IInv, CreatePlcFail, sessions, places, Types, Pointers, Mutex, InSearch
<1>4. Unborn'
  BY TagAssumption DEF IInv, CreatePlcFail, sessions, places, Types, Pointers, Mutex, Unborn,
         InSearch
<1>5. Dying'
  BY TagAssumption DEF IInv, CreatePlcFail, sessions, places, Types, Pointers, Mutex, Unborn,
         Dying, OnList, MemorySafe, InSearch
<1>6. OnList'
  BY TagAssumption DEF IInv, CreatePlcFail, sessions, places, Types, Pointers, Mutex, Unborn,
         Dying, OnList, InSearch
<1>7. CountIsHolders'
  BY <1>h, TagAssumption, CountSame DEF IInv, CreatePlcFail, sessions, places, Types
<1>8. MemorySafe'
  BY <1>h, TagAssumption DEF IInv, CreatePlcFail, sessions, places, Types, Pointers, Unborn,
         MemorySafe, Listed, Holders
<1>9. Search'
  BY TagAssumption DEF IInv, CreatePlcFail, sessions, places, Types, Pointers, Mutex, Dying,
         OnList, Search, SearchOf, Twin, InSearch
<1>10. OneSession'
  BY <1>s, SoundMonotone DEF IInv, CreatePlcFail, sessions, places
<1> QED BY <1>1, <1>2, <1>3, <1>4, <1>5, <1>6, <1>7, <1>8, <1>9, <1>10 DEF IInv

(* find_or_create_plc() finds the PLC s. *)
LEMMA FindPlcInv ==
  ASSUME IInv, NEW t \in Tags, NEW s \in ToSet(list), count[s] > 0, pc[t] = "start",
         count' = [count EXCEPT ![s] = @ + 1], sess' = [sess EXCEPT ![t] = s],
         pc' = [pc EXCEPT ![t] = "using"],
         UNCHANGED <<lock, list, mem, handler, failed, at, cand, passed>>
  PROVE  IInv'
<1>a. s \in Tags /\ Contains(list, s)
  <2>1. Contains(list, s)
    BY InToSet DEF IInv, Types
  <2>2. PICK i \in 1..Len(list) : list[i] = s
    BY <2>1 DEF Contains
  <2> QED BY <2>1, <2>2, ElementOfSeq DEF IInv, Types
<1>b. mem[s] = "alive"
  BY <1>a, ListedAlive DEF IInv
<1>h. \A x, u \in Tags : u \in Holders(x)' <=> u \in Holders(x) \/ (x = s /\ u = t)
  <2>1. sess[t] = Null /\ sess'[t] = s /\ pc'[t] = "using"
    BY <1>a DEF IInv, Types, Pointers
  <2>2. ASSUME NEW u \in Tags, u # t PROVE sess'[u] = sess[u] /\ pc'[u] = pc[u]
    BY <2>2 DEF IInv, Types
  <2> QED BY TagAssumption, <1>a, <2>1, <2>2 DEF Holders
<1>s. \A x \in Tags : Sound(x)' => Sound(x)
  BY TagAssumption, <1>a, <1>b DEF IInv, Types, Sound, Listed
<1>1. Types'
  BY TagAssumption, <1>a, <1>b DEF IInv, Types, Pcs, InSearch
<1>2. Pointers'
  BY TagAssumption, <1>a, <1>b DEF IInv, Types, Pointers, InSearch
<1>3. Mutex'
  BY TagAssumption, <1>a, <1>b DEF IInv, Types, Pointers, Mutex, InSearch
<1>4. Unborn'
  BY TagAssumption, <1>a, <1>b DEF IInv, Types, Pointers, Mutex, Unborn, InSearch
<1>5. Dying'
  BY TagAssumption, <1>a, <1>b DEF IInv, Types, Pointers, Mutex, Unborn, Dying, OnList,
         MemorySafe, InSearch
<1>6. OnList'
  BY TagAssumption, <1>a, <1>b DEF IInv, Types, Pointers, Mutex, Unborn, Dying, OnList, InSearch
<1>7. CountIsHolders'
  <2>1. t \notin Holders(s)
    BY <1>a, TagAssumption DEF IInv, Types, Pointers, Holders
  <2>2. \A x \in Tags : count'[x] = IF x = s THEN count[x] + 1 ELSE count[x]
    BY <1>a DEF IInv, Types
  <2> QED BY <1>a, <1>h, <2>1, <2>2, CountTake DEF IInv
<1>8. MemorySafe'
  <2> QED BY <1>h, <1>b DEF IInv, MemorySafe, Listed, Holders
<1>9. Search'
  <2>1. \A x, u \in Tags : Twin(x, u)' => Twin(x, u)
    BY TagAssumption, <1>a DEF IInv, Types, Twin
  <2>2. \A i \in 1..Len(list) : list[i] \in Tags
    BY ElementOfSeq DEF IInv, Types
  <2>3. ASSUME NEW u \in Tags PROVE SearchOf(u)'
    BY <2>1, <2>2 DEF IInv, Types, Mutex, InSearch, Search, SearchOf
  <2> QED BY <2>3 DEF Search
<1>10. OneSession'
  BY <1>s, <1>a, <1>b, SoundMonotone DEF IInv
<1> QED BY <1>1, <1>2, <1>3, <1>4, <1>5, <1>6, <1>7, <1>8, <1>9, <1>10 DEF IInv

LEMMA CreatePlcInv ==
  ASSUME IInv, NEW t \in Tags, CreatePlc(t), lock = Null
  PROVE  IInv'
<1>b. UNCHANGED <<lock, handler, failed, at, cand, passed>>
  BY DEF CreatePlc
<1>c. /\ pc[t] = "start" /\ list' = <<t>> \o list
      /\ mem' = [mem EXCEPT ![t] = "alive"] /\ count' = [count EXCEPT ![t] = 1]
      /\ sess' = [sess EXCEPT ![t] = t] /\ pc' = [pc EXCEPT ![t] = "init"]
  BY DEF CreatePlc
<1>k. \A s \in ToSet(list) : Key[s] # Key[t]
  BY DEF CreatePlc, Wanted
<1>a. mem[t] = "none" /\ ~Contains(list, t) /\ Holders(t) = {} /\ handler[t] = "none"
  BY <1>c, ListedAlive DEF IInv, Unborn, MemorySafe
<1>d. count[t] = 0
  BY <1>a, FS_EmptySet DEF IInv, CountIsHolders
<1>e. /\ list' \in Seq(Tags) /\ Len(list') = Len(list) + 1 /\ Len(list) \in Nat
      /\ \A x : Contains(list', x) <=> Contains(list, x) \/ x = t
      /\ \A i \in 1..Len(list) + 1 : list'[i] = IF i = 1 THEN t ELSE list[i - 1]
  BY <1>c, Prepending, LenProperties DEF IInv, Types
<1>h. \A x, u \in Tags : u \in Holders(x)' <=> u \in Holders(x) \/ (x = t /\ u = t)
  <2>1. \A x \in Tags : t \in Holders(x)' <=> x = t
    BY <1>b, <1>c, TagAssumption DEF IInv, Types, Holders
  <2>2. \A x \in Tags : t \notin Holders(x)
    BY <1>c, TagAssumption DEF IInv, Pointers, Holders
  <2>3. ASSUME NEW u \in Tags, u # t
        PROVE  sess'[u] = sess[u] /\ pc'[u] = pc[u] /\ cand'[u] = cand[u]
    BY <1>b, <1>c, <2>3 DEF IInv, Types
  <2> QED BY <2>1, <2>2, <2>3 DEF Holders
<1>1. Types'
  BY TagAssumption, <1>b, <1>c, <1>k, <1>a, <1>d, <1>e DEF IInv, Types, Pcs, InSearch
<1>2. Pointers'
  BY TagAssumption, <1>b, <1>c, <1>k, <1>a, <1>d, <1>e DEF IInv, Types, Pointers, InSearch
<1>3. Mutex'
  BY TagAssumption, <1>b, <1>c, <1>k, <1>a, <1>d, <1>e DEF IInv, Types, Pointers, Mutex, InSearch
<1>4. Unborn'
  BY TagAssumption, <1>b, <1>c, <1>k, <1>a, <1>d, <1>e DEF IInv, Types, Pointers, Mutex, Unborn,
         InSearch
<1>5. Dying'
  <2>1. ASSUME NEW u \in Tags, pc'[u] \in {"remove", "join"}
        PROVE  /\ pc[u] = pc'[u] /\ cand[u] \in Tags /\ cand'[u] = cand[u]
               /\ count'[cand[u]] = 0 /\ mem'[cand[u]] = "alive" /\ cand[u] # t
    <3>1. pc[u] = pc'[u] /\ cand[u] \in Tags
      BY <1>c, <2>1, TagAssumption DEF IInv, Types, Pointers
    <3>2. mem[cand[u]] = "alive" /\ count[cand[u]] = 0
      BY <2>1, <3>1 DEF IInv, Dying
    <3> QED BY <1>a, <1>b, <1>c, <3>1, <3>2 DEF IInv, Types
  <2>2. \A x \in Tags : x # t => (Contains(list', x) <=> Contains(list, x))
    BY <1>e
  <2> QED BY <1>b, <2>1, <2>2 DEF IInv, Dying
<1>6. OnList'
  <2>1. ASSUME NEW i \in 1..Len(list'), NEW j \in 1..Len(list'), list'[i] = list'[j]
        PROVE  i = j
    <3>1. \A k \in 1..Len(list) : list[k] # t
      BY <1>a DEF Contains
    <3>2. i \in 1..Len(list) + 1 /\ j \in 1..Len(list) + 1
      BY <1>e
    <3>3. CASE i = 1 BY <1>e, <2>1, <3>1, <3>2, <3>3
    <3>4. CASE j = 1 BY <1>e, <2>1, <3>1, <3>2, <3>4
    <3>5. CASE i # 1 /\ j # 1
      <4>1. list[i - 1] = list[j - 1] /\ i - 1 \in 1..Len(list) /\ j - 1 \in 1..Len(list)
        BY <1>e, <2>1, <3>2, <3>5
      <4> QED BY <3>2, <4>1 DEF IInv, OnList
    <3> QED BY <3>3, <3>4, <3>5
  <2>2. \A x \in Tags : count'[x] > 0 => Contains(list', x)
    BY <1>c, <1>e DEF IInv, Types, OnList
  <2> QED BY <2>1, <2>2 DEF OnList
<1>7. CountIsHolders'
  <2>1. \A x \in Tags : count'[x] = IF x = t THEN count[x] + 1 ELSE count[x]
    BY <1>c, <1>d DEF IInv, Types
  <2> QED BY <1>a, <1>h, <2>1, CountTake DEF IInv
<1>8. MemorySafe'
  <2>1. \A x \in Tags : Listed(x)' => Listed(x) \/ x = t
    BY <1>e, InToSet DEF IInv, Types, Listed
  <2>2. \A x \in Tags : mem'[x] = IF x = t THEN "alive" ELSE mem[x]
    BY <1>c DEF IInv, Types
  <2>3. \A x \in Tags : Holders(x)' # {} => Holders(x) # {} \/ x = t
    BY <1>h DEF Holders
  <2> QED BY <1>b, <2>1, <2>2, <2>3 DEF IInv, MemorySafe
<1>9. Search'
  <2>1. ASSUME NEW u \in Tags PROVE pc'[u] \notin {"scan", "match", "create"}
    BY <1>c, <2>1, TagAssumption DEF IInv, Types, Mutex, InSearch
  <2> QED BY <1>b, <1>c, <2>1, TagAssumption DEF IInv, Types, Search, SearchOf
<1>10. OneSession'
  <2>1. \A x \in Tags : Sound(x)' => (x = t \/ Sound(x)) /\ x \notin Private
    BY <1>b, <1>c, <1>e, InToSet DEF IInv, Types, Sound, Listed
  <2>2. ASSUME ~passed, t \notin Private, NEW x \in Tags, Sound(x) PROVE Key[x] # Key[t]
    BY <1>k, <2>2 DEF Sound, Listed
  <2> QED BY <1>b, <2>1, <2>2 DEF IInv, OneSession
<1> QED BY <1>1, <1>2, <1>3, <1>4, <1>5, <1>6, <1>7, <1>8, <1>9, <1>10 DEF IInv

LEMMA InitInv ==
  ASSUME Init
  PROVE  IInv
<1>1. Types
  <2>1. <<>> \in Seq(Tags)
    BY EmptySeq
  <2>2. pc \in [Tags -> Pcs \cup {"crashed"}] /\ at \in [Tags -> Nat \ {0}]
    BY DEF Init, Pcs
  <2>3. /\ mem \in [Tags -> {"none", "alive", "freed"}] /\ count \in [Tags -> Nat]
        /\ handler \in [Tags -> {"none", "running", "exited"}]
    BY DEF Init
  <2>4. sess \in [Tags -> Tags \cup {Null}] /\ cand \in [Tags -> Tags \cup {Null}]
    BY DEF Init
  <2> QED BY <2>1, <2>2, <2>3, <2>4 DEF Init, Types
<1>2. Len(list) = 0
  BY EmptySeq DEF Init
<1>3. \A s \in Tags : Holders(s) = {} /\ ~Listed(s) /\ ~Contains(list, s)
  <2>1. \A s \in Tags : Holders(s) = {}
    BY TagAssumption DEF Init, Holders
  <2>2. \A s : ~Contains(list, s)
    BY <1>2 DEF Contains
  <2> QED BY <1>1, <2>1, <2>2, InToSet DEF Types, Listed
<1>4. Pointers /\ Mutex /\ Unborn /\ Dying
  BY TagAssumption DEF Init, Pointers, Mutex, Unborn, Dying, InSearch
<1>5. OnList
  BY <1>2, <1>3 DEF Init, OnList
<1>6. CountIsHolders
  BY <1>3, FS_EmptySet DEF Init, CountIsHolders
<1>7. MemorySafe /\ OneSession
  BY <1>3 DEF Init, MemorySafe, OneSession, Sound
<1>8. Search
  BY <1>2, TagAssumption DEF Init, Search, SearchOf
<1> QED BY <1>1, <1>4, <1>5, <1>6, <1>7, <1>8 DEF IInv

LEMMA NextInv ==
  ASSUME IInv, [Next]_vars
  PROVE  IInv'
<1>1. ASSUME NEW t \in Tags, Begin(t) PROVE IInv'
  BY <1>1, BeginInv
<1>2. ASSUME NEW t \in Tags, Scan(t) PROVE IInv'
  <2>1. at[t] \in 1..Len(list) /\ list[at[t]] \in Tags
    BY <1>2, LenProperties, ElementOfSeq DEF IInv, Types, Scan
  <2>2. count[list[at[t]]] \in Nat
    BY <2>1 DEF IInv, Types
  <2>3. CASE count[list[at[t]]] = 0 BY <1>2, <2>3, ScanPassesInv
  <2>4. CASE count[list[at[t]]] > 0 BY <1>2, <2>4, ScanTakesInv
  <2> QED BY <2>2, <2>3, <2>4
<1>3. ASSUME NEW t \in Tags, ScanEnd(t) \/ Reuse(t) \/ Skip(t) PROVE IInv'
  BY <1>3, ScanEndInv, ReuseInv, SkipInv
<1>4. ASSUME NEW t \in Tags, Create(t) \/ CreateFail(t) PROVE IInv'
  BY <1>4, CreateInv, CreateFailInv
<1>5. ASSUME NEW t \in Tags, Start(t) \/ StartFail(t) PROVE IInv'
  BY <1>5, StartInv, StartFailInv
<1>6. ASSUME NEW t \in Tags, GiveUp(t) PROVE IInv'
  <2>1. sess[t] = t
    BY <1>6 DEF IInv, Pointers, GiveUp
  <2> QED BY <1>6, <2>1, LeaveInv DEF GiveUp
<1>7. ASSUME NEW t \in Tags, Leave(t) PROVE IInv'
  BY <1>7, LeaveInv DEF Leave
<1>8. ASSUME NEW t \in Tags, RemoveSession(t) \/ Free(t) PROVE IInv'
  BY <1>8, RemoveInv, FreeInv
<1>9. ASSUME NEW t \in Tags, HandlerExit(t) PROVE IInv'
  BY <1>9, QuietInv DEF HandlerExit, places
<1>10. CASE Shutdown \/ MarkAll \/ TeardownEnd
  BY <1>10, QuietInv DEF Shutdown, MarkAll, TeardownEnd, sessions, places
<1>11. CASE UNCHANGED vars
  BY <1>11, QuietInv DEF vars, sessions, places
<1> QED BY <1>1, <1>2, <1>3, <1>4, <1>5, <1>6, <1>7, <1>8, <1>9, <1>10, <1>11 DEF Next, Inside

(* A list of any kind; only searches of the other two kinds keep the mutex.*)
ListInv == IInv /\ (kind = "modbus" => lock = Null)

LEMMA ConnTeardownInv ==
  ASSUME IInv, ConnTeardown
  PROVE  IInv'
  BY QuietInv DEF ConnTeardown, TeardownEnd, sessions, places

LEMMA PlcNextInv ==
  ASSUME IInv, lock = Null, PlcNext
  PROVE  IInv' /\ lock' = Null
<1>1. ASSUME NEW t \in Tags, FindPlc(t) PROVE IInv' /\ lock' = Null
  <2>1. PICK s \in ToSet(list) : /\ count[s] > 0 /\ count' = [count EXCEPT ![s] = @ + 1]
                                 /\ sess' = [sess EXCEPT ![t] = s]
    BY <1>1 DEF FindPlc
  <2> QED BY <1>1, <2>1, FindPlcInv DEF FindPlc
<1>2. ASSUME NEW t \in Tags, FindDyingPlc(t) PROVE IInv' /\ lock' = Null
  BY <1>2, FindDyingPlcInv DEF FindDyingPlc
<1>3. ASSUME NEW t \in Tags, CreatePlc(t) PROVE IInv' /\ lock' = Null
  BY <1>3, CreatePlcInv DEF CreatePlc
<1>4. ASSUME NEW t \in Tags, CreatePlcFail(t) PROVE IInv' /\ lock' = Null
  BY <1>4, CreatePlcFailInv DEF CreatePlcFail
<1>5. ASSUME NEW t \in Tags, InitPlc(t) PROVE IInv' /\ lock' = Null
  BY <1>5, StartInv, StartFailQuietInv DEF InitPlc, Start, StartFailQuiet
<1>6. ASSUME NEW t \in Tags, GiveUp(t) \/ Leave(t) \/ HandlerExit(t) PROVE IInv' /\ lock' = Null
  <2>1. IInv'
    BY <1>6, NextInv DEF Next, Inside
  <2> QED BY <1>6, <2>1 DEF GiveUp, Leave, HandlerExit
<1>7. ASSUME NEW t \in Tags, DestroyPlc(t) PROVE IInv' /\ lock' = Null
  BY <1>7, RemoveInv, FreeInv DEF DestroyPlc, RemoveSession, Free
<1>8. CASE Shutdown
  BY <1>8, NextInv DEF Next, Shutdown
<1>9. CASE ConnTeardown
  BY <1>9, ConnTeardownInv DEF ConnTeardown, TeardownEnd
<1> QED BY <1>1, <1>2, <1>3, <1>4, <1>5, <1>6, <1>7, <1>8, <1>9 DEF PlcNext, PlcInside

LEMMA ListInvInit == ListInit => ListInv
  BY InitInv DEF ListInit, ListInv, Init

LEMMA ListInvNext ==
  ASSUME ListInv, [ListNext]_listVars
  PROVE  ListInv'
<1>1. CASE kind = "ab" /\ Next /\ UNCHANGED kind
  BY <1>1, NextInv DEF ListInv
<1>2. CASE kind = "omron" /\ ConnNext /\ UNCHANGED kind
  <2>1. CASE ConnTeardown BY <1>2, <2>1, ConnTeardownInv DEF ListInv
  <2>2. CASE Next BY <1>2, <2>2, NextInv DEF ListInv
  <2> QED BY <1>2, <2>1, <2>2 DEF ConnNext, ConnFindOrCreate, ConnScan, ConnMatch, ConnCreate,
                                  ConnInit, ConnRemove, ConnFree, Next, Inside
<1>3. CASE kind = "modbus" /\ PlcNext /\ UNCHANGED kind
  BY <1>3, PlcNextInv DEF ListInv
<1>4. CASE UNCHANGED listVars
  BY <1>4, NextInv DEF ListInv, listVars, vars
<1> QED BY <1>1, <1>2, <1>3, <1>4 DEF ListNext

THEOREM Invariant == Spec => []IInv
  BY InitInv, NextInv, PTL DEF Spec

THEOREM ListInvariant == ListSpec => []IInv
<1>1. ListInv => IInv
  BY DEF ListInv
<1> QED BY <1>1, ListInvInit, ListInvNext, PTL DEF ListSpec

(* In a list of any of the three kinds the count of a session is the       *)
(* number of its holders, whatever searches, failures and departures       *)
(* overlap (session_find_or_create(), conn_find_or_create(),               *)
(* find_or_create_plc(), rc_inc() and rc_dec()).                           *)
THEOREM CountsExact == ListSpec => []CountIsHolders
<1>1. IInv => CountIsHolders
  BY DEF IInv
<1> QED BY <1>1, ListInvariant, PTL

(* A session, a connection or a PLC is freed neither while it is listed    *)
(* nor while it has a holder or a handler thread (session_destroy(),       *)
(* conn_destroy(), modbus_plc_destructor()).                               *)
THEOREM SessionsSafe == ListSpec => []MemorySafe
<1>1. IInv => MemorySafe
  BY DEF IInv
<1> QED BY <1>1, ListInvariant, PTL

(* Tags that share a PLC share one session, unless a search has destroyed  *)
(* another session on its way (find_session_by_host_unsafe()).             *)
THEOREM PlcShared == ListSpec => []OneSession
<1>1. IInv => OneSession
  BY DEF IInv
<1> QED BY <1>1, ListInvariant, PTL

=============================================================================
