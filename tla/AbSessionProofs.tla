-------------------------- MODULE AbSessionProofs --------------------------
(* Proofs about AbSession and OmronConn: the counts of requests, the       *)
(* replies they are given, and that a session of either kind is the        *)
(* first-in first-out queue of RequestFifo, for any requests, packet sizes *)
(* and failures.                                                           *)
EXTENDS OmronConn, SequenceTheorems, WellFoundedInduction, FiniteSetTheorems, TLAPS

-----------------------------------------------------------------------------
(* Induction, and what Without leaves of a sequence.  The induction        *)
(* theorems of the library speak of an operator P(_); this one, of a set,  *)
(* follows from the least element that a set of numbers has.               *)

LEMMA NatInduct ==
  ASSUME NEW S, 0 \in S, \A n \in Nat : n \in S => n + 1 \in S
  PROVE  Nat \subseteq S
<1> DEFINE T == Nat \ S
<1> SUFFICES ASSUME T # {} PROVE FALSE
  OBVIOUS
<1>1. PICK m \in T : \A y \in T : ~ (<<y, m>> \in OpToRel(<, Nat))
  BY NatLessThanWellFounded, WFMin
<1>2. \A y \in T : ~ (y < m)
  BY <1>1 DEF OpToRel
<1>3. m # 0 /\ m - 1 \in Nat /\ m - 1 \notin T
  BY <1>2
<1> QED BY <1>3

(* A property of sequences that appending an element keeps *)
LEMMA SeqInduct ==
  ASSUME NEW T, NEW P, <<>> \in P,
         \A q \in Seq(T) : \A x \in T : q \in P => Append(q, x) \in P
  PROVE  Seq(T) \subseteq P
<1> DEFINE S == {n \in Nat : \A q \in Seq(T) : Len(q) = n => q \in P}
<1>1. 0 \in S
  BY EmptySeq
<1>2. ASSUME NEW n \in Nat, n \in S PROVE n + 1 \in S
  <2> SUFFICES ASSUME NEW q \in Seq(T), Len(q) = n + 1 PROVE q \in P
    OBVIOUS
  <2> DEFINE p == SubSeq(q, 1, n)
  <2>1. \A i \in 1..(n + 1) : q[i] \in T
    BY ElementOfSeq
  <2>2. p \in Seq(T) /\ Len(p) = n /\ \A i \in 1..n : p[i] = q[i]
    BY <2>1
  <2>3. p \in P
    BY <1>2, <2>2
  <2> HIDE DEF p
  <2>4. q = Append(p, q[n + 1])
    <3>1. Append(p, q[n + 1]) \in Seq(T) /\ Len(Append(p, q[n + 1])) = n + 1
      BY <2>1, <2>2
    <3>2. \A i \in 1..(n + 1) : Append(p, q[n + 1])[i] = q[i]
      BY <2>2
    <3> QED BY <3>1, <3>2, SeqEqual
  <2>5. q[n + 1] \in T
    BY <2>1
  <2> QED BY ONLY <2>2, <2>3, <2>4, <2>5, \A s \in Seq(T) : \A x \in T : s \in P => Append(s, x) \in P
<1> HIDE DEF S
<1>3. Nat \subseteq S
  BY <1>1, <1>2, NatInduct
<1> QED BY <1>3 DEF S

IsKeeping(f, q, S, n) ==
  f = [i \in 0..n |-> IF i = 0 THEN <<>>
                      ELSE IF q[i] \in S THEN f[i - 1] ELSE Append(f[i - 1], q[i])]

LEMMA KeepingStep ==
  ASSUME NEW q, NEW S, NEW n \in Nat, NEW f, IsKeeping(f, q, S, n)
  PROVE  /\ DOMAIN f = 0..n
         /\ f[0] = <<>>
         /\ \A i \in 1..n : f[i] = IF q[i] \in S THEN f[i - 1] ELSE Append(f[i - 1], q[i])
<1> DEFINE v(i) == IF i = 0 THEN <<>>
                   ELSE IF q[i] \in S THEN f[i - 1] ELSE Append(f[i - 1], q[i])
           h == [i \in 0..n |-> v(i)]
<1>1. f = h
  BY DEF IsKeeping
<1>2. DOMAIN h = 0..n /\ \A i \in 0..n : h[i] = v(i)
  OBVIOUS
<1> HIDE DEF h
<1>3. DOMAIN f = 0..n
  BY <1>1, <1>2
<1>4. ASSUME NEW i \in 0..n PROVE f[i] = v(i)
  <2>1. f[i] = h[i]
    BY <1>1
  <2>2. h[i] = v(i)
    BY <1>2
  <2> HIDE DEF v
  <2> QED BY <2>1, <2>2
<1>5. f[0] = v(0)
  <2> HIDE DEF v
  <2> QED BY <1>4
<1>6. ASSUME NEW i \in 1..n
      PROVE  f[i] = IF q[i] \in S THEN f[i - 1] ELSE Append(f[i - 1], q[i])
  <2>1. f[i] = v(i)
    <3> HIDE DEF v
    <3> QED BY <1>4
  <2> QED BY ONLY <2>1, i \in 1..n, n \in Nat
<1> QED BY ONLY <1>3, <1>5, <1>6

(* The recursive definition defines a function. *)
LEMMA KeepingExists ==
  ASSUME NEW q, NEW S, NEW n \in Nat
  PROVE  \E f : IsKeeping(f, q, S, n)
<1> DEFINE G == {m \in Nat : \E f : IsKeeping(f, q, S, m)}
<1>1. 0 \in G
  <2>1. IsKeeping([i \in 0..0 |-> <<>>], q, S, 0)
    BY DEF IsKeeping
  <2> QED BY <2>1
<1>2. ASSUME NEW m \in Nat, m \in G PROVE m + 1 \in G
  <2>1. PICK f : IsKeeping(f, q, S, m)
    BY <1>2
  <2>2. f[0] = <<>> /\ \A i \in 1..m : f[i] = IF q[i] \in S THEN f[i - 1]
                                                         ELSE Append(f[i - 1], q[i])
    BY <2>1, KeepingStep, SMTT(30)
  <2> DEFINE g == [i \in 0..(m + 1) |-> IF i <= m THEN f[i]
                      ELSE IF q[m + 1] \in S THEN f[m] ELSE Append(f[m], q[m + 1])]
  <2>3. \A i \in 0..(m + 1) : g[i] = IF i = 0 THEN <<>>
                      ELSE IF q[i] \in S THEN g[i - 1] ELSE Append(g[i - 1], q[i])
    <3> TAKE i \in 0..(m + 1)
    <3>1. CASE i = m + 1
      <4>1. g[m] = f[m] /\ i - 1 = m
        BY <3>1
      <4> QED BY <3>1, <4>1
    <3>2. CASE i \in 1..m
      <4>1. g[i] = f[i] /\ g[i - 1] = f[i - 1]
        BY <3>2
      <4>2. i # 0 /\ f[i] = IF q[i] \in S THEN f[i - 1] ELSE Append(f[i - 1], q[i])
        BY ONLY <2>2, <3>2
      <4> HIDE DEF g
      <4> QED BY <4>1, <4>2
    <3>3. CASE i = 0
      BY <3>3, <2>2
    <3> QED BY <3>1, <3>2, <3>3
  <2>4. IsKeeping(g, q, S, m + 1)
    BY <2>3 DEF IsKeeping
  <2> QED BY <2>4
<1> HIDE DEF G
<1>3. Nat \subseteq G
  BY <1>1, <1>2, NatInduct
<1> QED BY <1>3 DEF G

LEMMA KeepingDef ==
  ASSUME NEW T, NEW q \in Seq(T), NEW S
  PROVE  /\ Keeping(q, S)[0] = <<>>
         /\ \A i \in 1..Len(q) : Keeping(q, S)[i] = IF q[i] \in S THEN Keeping(q, S)[i - 1]
                                                   ELSE Append(Keeping(q, S)[i - 1], q[i])
<1>1. Len(q) \in Nat
  OBVIOUS
<1>2. \E f : IsKeeping(f, q, S, Len(q))
  BY <1>1, KeepingExists
<1>3. Keeping(q, S) = CHOOSE f : IsKeeping(f, q, S, Len(q))
  BY DEF Keeping, IsKeeping
<1>4. IsKeeping(Keeping(q, S), q, S, Len(q))
  BY <1>2, <1>3
<1>5. PICK n \in Nat : n = Len(q)
  BY <1>1
<1>6. PICK f : f = Keeping(q, S)
  OBVIOUS
<1>7. IsKeeping(f, q, S, n)
  BY <1>4, <1>5, <1>6
<1>8. /\ f[0] = <<>>
      /\ \A i \in 1..n : f[i] = IF q[i] \in S THEN f[i - 1] ELSE Append(f[i - 1], q[i])
  BY ONLY <1>7, KeepingStep
<1> QED BY ONLY <1>5, <1>6, <1>8

LEMMA WithoutEmpty ==
  ASSUME NEW S
  PROVE  Without(<<>>, S) = <<>>
<1>1. <<>> \in Seq({}) /\ Len(<<>>) = 0
  BY EmptySeq
<1> QED BY <1>1, KeepingDef, ZenonT(60) DEF Without

(* Without can be built by appending: it looks at one element at a time.   *)
LEMMA WithoutAppend ==
  ASSUME NEW T, NEW q \in Seq(T), NEW x \in T, NEW S
  PROVE  Without(Append(q, x), S) = IF x \in S THEN Without(q, S) ELSE Append(Without(q, S), x)
<1> DEFINE p == Append(q, x)
           f == Keeping(q, S)
           g == Keeping(p, S)
           G == {n \in Nat : n <= Len(q) => g[n] = f[n]}
<1>1. /\ p \in Seq(T) /\ Len(p) = Len(q) + 1 /\ Len(q) \in Nat /\ p[Len(q) + 1] = x
      /\ \A i \in 1..Len(q) : p[i] = q[i]
  OBVIOUS
<1>2. /\ f[0] = <<>>
      /\ \A i \in 1..Len(q) : f[i] = IF q[i] \in S THEN f[i - 1] ELSE Append(f[i - 1], q[i])
  BY KeepingDef
<1>3. /\ g[0] = <<>>
      /\ \A i \in 1..(Len(q) + 1) : g[i] = IF p[i] \in S THEN g[i - 1] ELSE Append(g[i - 1], p[i])
  <2> HIDE DEF p
  <2> QED BY <1>1, KeepingDef
<1> HIDE DEF p, f, g
<1>4. 0 \in G
  BY <1>2, <1>3
<1>5. ASSUME NEW n \in Nat, n \in G PROVE n + 1 \in G
  <2> SUFFICES ASSUME n + 1 <= Len(q) PROVE g[n + 1] = f[n + 1]
    OBVIOUS
  <2>1. n + 1 \in 1..Len(q) /\ n + 1 \in 1..(Len(q) + 1) /\ (n + 1) - 1 = n
    BY <1>1
  <2>2. f[n + 1] = IF q[n + 1] \in S THEN f[n] ELSE Append(f[n], q[n + 1])
    BY <1>2, <2>1
  <2>3. g[n + 1] = IF p[n + 1] \in S THEN g[n] ELSE Append(g[n], p[n + 1])
    BY <1>3, <2>1
  <2>4. g[n] = f[n] /\ p[n + 1] = q[n + 1]
    BY <1>1, <1>5, <2>1
  <2> QED BY ONLY <2>2, <2>3, <2>4
<1> HIDE DEF G
<1>6. Nat \subseteq G
  BY <1>4, <1>5, NatInduct
<1>7. g[Len(q)] = f[Len(q)]
  BY <1>1, <1>6 DEF G
<1>8. g[Len(q) + 1] = IF x \in S THEN g[Len(q)] ELSE Append(g[Len(q)], x)
  <2>1. Len(q) + 1 \in 1..(Len(q) + 1) /\ (Len(q) + 1) - 1 = Len(q)
    BY <1>1
  <2> QED BY <1>1, <1>3, <2>1
<1> QED BY <1>1, <1>7, <1>8 DEF Without, p, f, g

LEMMA SingletonFacts ==
  ASSUME NEW T, NEW x \in T
  PROVE  /\ <<x>> \in Seq(T) /\ Len(<<x>>) = 1 /\ <<x>>[1] = x /\ <<x>> # <<>>
         /\ Head(<<x>>) = x /\ Tail(<<x>>) = <<>> /\ Append(<<>>, x) = <<x>>
         /\ Range(<<x>>) = {x}
<1>1. /\ <<x>> \in Seq(T) /\ Len(<<x>>) = 1 /\ <<x>>[1] = x /\ DOMAIN <<x>> = {1}
      /\ Head(<<x>>) = x /\ <<x>> # <<>>
  OBVIOUS
<1>2. Tail(<<x>>) = <<>>
  <2>1. Tail(<<x>>) \in Seq(T) /\ Len(Tail(<<x>>)) = 0
    BY <1>1, HeadTailProperties
  <2> QED BY <2>1, EmptySeq
<1>3. Append(<<>>, x) = <<x>>
  <2>1. <<>> \in Seq(T) /\ Len(<<>>) = 0
    BY EmptySeq
  <2>2. /\ Append(<<>>, x) \in Seq(T) /\ Len(Append(<<>>, x)) = 1 /\ Append(<<>>, x)[1] = x
    BY <2>1
  <2> QED BY <1>1, <2>2, SeqEqual
<1> QED BY <1>1, <1>2, <1>3 DEF Range

(* Range and Single of sequences made from others *)
LEMMA AppendFacts ==
  ASSUME NEW T, NEW q \in Seq(T), NEW x \in T
  PROVE  /\ Range(Append(q, x)) = Range(q) \cup {x}
         /\ Single(Append(q, x)) <=> Single(q) /\ (x = Null \/ x \notin Range(q))
<1> DEFINE p == Append(q, x)
<1>1. /\ DOMAIN p = 1..(Len(q) + 1) /\ DOMAIN q = 1..Len(q) /\ Len(q) \in Nat
      /\ p[Len(q) + 1] = x /\ \A i \in 1..Len(q) : p[i] = q[i]
  OBVIOUS
<1> HIDE DEF p
<1>2. Range(p) = Range(q) \cup {x}
  <2>1. ASSUME NEW i \in DOMAIN p PROVE p[i] \in Range(q) \cup {x}
    BY <1>1 DEF Range
  <2>2. ASSUME NEW i \in DOMAIN q PROVE q[i] \in Range(p)
    BY <1>1 DEF Range
  <2>3. x \in Range(p)
    BY <1>1 DEF Range
  <2> QED BY <2>1, <2>2, <2>3 DEF Range
<1>3. ASSUME Single(p) PROVE Single(q) /\ (x = Null \/ x \notin Range(q))
  BY <1>1, <1>3 DEF Single, Range
<1>4. ASSUME Single(q), x = Null \/ x \notin Range(q) PROVE Single(p)
  BY <1>1, <1>4 DEF Single, Range
<1> QED BY <1>2, <1>3, <1>4 DEF p

LEMMA EmptyFacts ==
  /\ Range(<<>>) = {} /\ Single(<<>>)
  /\ \A T : <<>> \in Seq(T)
<1>1. DOMAIN <<>> = {}
  OBVIOUS
<1>2. \A T : <<>> \in Seq(T)
  BY EmptySeq
<1> QED BY <1>1, <1>2 DEF Range, Single

LEMMA FirstThenRest ==
  ASSUME NEW T, NEW q \in Seq(T), NEW h \in Seq(T), NEW t \in Seq(T), Len(q) \in Nat \ {0},
         Len(h) = 1, h[1] = q[1], Len(t) = Len(q) - 1,
         \A i \in 1..(Len(q) - 1) : t[i] = q[i + 1]
  PROVE  h \o t = q
<1> DEFINE s == h \o t
<1>1. /\ s \in Seq(T) /\ Len(s) = Len(h) + Len(t)
      /\ \A i \in 1..(Len(h) + Len(t)) : s[i] = IF i <= Len(h) THEN h[i] ELSE t[i - Len(h)]
  BY ConcatProperties, ZenonT(60)
<1> HIDE DEF s
<1>2. Len(s) = Len(q)
  BY <1>1
<1>3. \A i \in 1..Len(q) : s[i] = q[i]
  BY <1>1
<1> QED BY <1>1, <1>2, <1>3, SeqEqual DEF s

LEMMA TailFacts ==
  ASSUME NEW T, NEW q \in Seq(T), q # <<>>
  PROVE  /\ Head(q) \in T /\ Head(q) = q[1] /\ Len(q) \in Nat \ {0}
         /\ Tail(q) \in Seq(T) /\ Len(Tail(q)) = Len(q) - 1
         /\ \A i \in 1..(Len(q) - 1) : Tail(q)[i] = q[i + 1]
         /\ Len(q) = 1 <=> Tail(q) = <<>>
         /\ q = <<Head(q)>> \o Tail(q)
<1>1. /\ Head(q) \in T /\ Head(q) = q[1] /\ Tail(q) \in Seq(T) /\ Len(Tail(q)) = Len(q) - 1
      /\ \A i \in 1..(Len(q) - 1) : Tail(q)[i] = q[i + 1]
  BY HeadTailProperties
<1>2. Len(q) \in Nat \ {0}
  BY EmptySeq
<1>3. Len(q) = 1 <=> Tail(q) = <<>>
  BY <1>1, <1>2, EmptySeq, SMTT(30)
<1>4. q = <<Head(q)>> \o Tail(q)
  <2> DEFINE h == <<Head(q)>>
             t == Tail(q)
  <2>1. h \in Seq(T) /\ Len(h) = 1 /\ h[1] = q[1]
    BY <1>1, SingletonFacts
  <2>2. t \in Seq(T) /\ Len(t) = Len(q) - 1 /\ \A i \in 1..(Len(q) - 1) : t[i] = q[i + 1]
    BY <1>1
  <2> HIDE DEF h, t
  <2>5. h \o t = q
    BY <1>2, <2>1, <2>2, FirstThenRest
  <2> QED BY <2>5 DEF h, t
<1> QED BY <1>1, <1>2, <1>3, <1>4

LEMMA ConcatAt ==
  ASSUME NEW T, NEW p \in Seq(T), NEW q \in Seq(T)
  PROVE  /\ p \o q \in Seq(T) /\ Len(p \o q) = Len(p) + Len(q)
         /\ \A i \in 1..(Len(p) + Len(q)) : (p \o q)[i] = IF i <= Len(p) THEN p[i] ELSE q[i - Len(p)]
BY ConcatProperties

LEMMA FirstOf ==
  ASSUME NEW T, NEW x \in T, NEW w \in Seq(T)
  PROVE  <<x>> \o w # <<>> /\ Head(<<x>> \o w) = x /\ Tail(<<x>> \o w) = w
<1> DEFINE h == <<x>>
           s == h \o w
<1>1. h \in Seq(T) /\ Len(h) = 1 /\ h[1] = x
  BY SingletonFacts
<1> HIDE DEF h
<1>2. /\ s \in Seq(T) /\ Len(s) = 1 + Len(w) /\ Len(w) \in Nat
      /\ \A i \in 1..(1 + Len(w)) : s[i] = IF i <= 1 THEN h[i] ELSE w[i - 1]
  <2>1. /\ s \in Seq(T) /\ Len(s) = Len(h) + Len(w)
        /\ \A i \in 1..(Len(h) + Len(w)) : s[i] = IF i <= Len(h) THEN h[i] ELSE w[i - Len(h)]
    BY ONLY <1>1, w \in Seq(T), ConcatAt
  <2> HIDE DEF s
  <2> QED BY <1>1, <2>1
<1> HIDE DEF s
<1>3. s # <<>>
  <2>1. Len(<<>>) # Len(s)
    <3>1. Len(<<>>) = 0
      BY EmptySeq
    <3> QED BY ONLY <1>2, <3>1
  <2> QED BY ONLY <2>1, Zenon
<1>4. /\ Head(s) = s[1] /\ Tail(s) \in Seq(T) /\ Len(Tail(s)) = Len(s) - 1
      /\ \A i \in 1..(Len(s) - 1) : Tail(s)[i] = s[i + 1]
  BY <1>2, <1>3, TailFacts
<1> DEFINE t == Tail(s)
<1>5. t \in Seq(T) /\ Len(t) = Len(w) /\ \A i \in 1..Len(w) : t[i] = w[i]
  BY <1>2, <1>4
<1> HIDE DEF t
<1>6. t = w
  BY <1>5, SeqEqual
<1> QED BY <1>1, <1>2, <1>3, <1>4, <1>6 DEF s, h, t

LEMMA ConcatFacts ==
  ASSUME NEW T, NEW p \in Seq(T), NEW q \in Seq(T)
  PROVE  /\ p \o q \in Seq(T) /\ Len(p \o q) = Len(p) + Len(q)
         /\ Range(p \o q) = Range(p) \cup Range(q)
         /\ Single(p \o q) <=> /\ Single(p) /\ Single(q)
                               /\ \A x \in Range(p) \cap Range(q) : x = Null
<1> DEFINE s == p \o q
<1>1. /\ s \in Seq(T) /\ Len(s) = Len(p) + Len(q) /\ Len(p) \in Nat /\ Len(q) \in Nat
      /\ DOMAIN s = 1..(Len(p) + Len(q)) /\ DOMAIN p = 1..Len(p) /\ DOMAIN q = 1..Len(q)
      /\ \A i \in 1..(Len(p) + Len(q)) : s[i] = IF i <= Len(p) THEN p[i] ELSE q[i - Len(p)]
  BY ConcatProperties
<1> HIDE DEF s
<1>2. /\ \A i \in DOMAIN p : i \in DOMAIN s /\ s[i] = p[i]
      /\ \A i \in DOMAIN q : i + Len(p) \in DOMAIN s /\ s[i + Len(p)] = q[i]
      /\ \A i \in DOMAIN s : \/ i \in DOMAIN p
                             \/ i - Len(p) \in DOMAIN q /\ s[i] = q[i - Len(p)] /\ i \in Nat
  BY <1>1, SMTT(30)
<1>3. Range(s) = Range(p) \cup Range(q)
  <2>1. ASSUME NEW x \in Range(s) PROVE x \in Range(p) \cup Range(q)
    BY <1>2 DEF Range
  <2>2. ASSUME NEW x \in Range(p) \cup Range(q) PROVE x \in Range(s)
    BY <1>2 DEF Range
  <2> QED BY <2>1, <2>2
<1>4. ASSUME Single(s) PROVE Single(p) /\ Single(q) /\ \A x \in Range(p) \cap Range(q) : x = Null
  <2>1. Single(p)
    BY <1>2, <1>4 DEF Single
  <2>2. Single(q)
    <3> SUFFICES ASSUME NEW i \in DOMAIN q, NEW j \in DOMAIN q, q[i] = q[j], q[i] # Null
                 PROVE  i = j
      BY DEF Single
    <3>1. i + Len(p) = j + Len(p) /\ i \in Nat /\ j \in Nat
      BY <1>1, <1>2, <1>4 DEF Single
    <3> QED BY <1>1, <3>1
  <2>3. ASSUME NEW i \in DOMAIN p, NEW j \in DOMAIN q, p[i] = q[j] PROVE p[i] = Null
    <3>1. i # j + Len(p)
      BY <1>1
    <3> QED BY <1>2, <1>4, <2>3, <3>1 DEF Single
  <2> QED BY <2>1, <2>2, <2>3 DEF Range
<1>5. ASSUME Single(p), Single(q), \A x \in Range(p) \cap Range(q) : x = Null PROVE Single(s)
  <2> SUFFICES ASSUME NEW i \in DOMAIN s, NEW j \in DOMAIN s, s[i] = s[j], s[i] # Null
               PROVE  i = j
    BY DEF Single
  <2>1. CASE i \in DOMAIN p /\ j \in DOMAIN p
    BY <1>2, <1>5, <2>1 DEF Single
  <2>2. CASE i \notin DOMAIN p /\ j \notin DOMAIN p
    <3>1. i - Len(p) = j - Len(p) /\ i \in Nat /\ j \in Nat
      BY <1>2, <1>5, <2>2 DEF Single
    <3> QED BY <1>1, <3>1
  <2>3. CASE (i \in DOMAIN p) # (j \in DOMAIN p)
    <3>1. s[i] \in Range(p) \cap Range(q)
      BY <1>2, <2>3 DEF Range
    <3> QED BY <1>5, <3>1
  <2> QED BY <2>1, <2>2, <2>3
<1> QED BY <1>1, <1>3, <1>4, <1>5 DEF s

(* What Without leaves: the other elements, each as often as before. *)
LEMMA WithoutFacts ==
  ASSUME NEW T, NEW q \in Seq(T), NEW S
  PROVE  /\ Without(q, S) \in Seq(T)
         /\ Range(Without(q, S)) = Range(q) \ S
         /\ Single(q) => Single(Without(q, S))
<1> DEFINE W(p) == /\ Without(p, S) \in Seq(T)
                   /\ Range(Without(p, S)) = Range(p) \ S
                   /\ Single(p) => Single(Without(p, S))
           P == {p \in Seq(T) : W(p)}
<1>1. <<>> \in P
  BY WithoutEmpty, EmptyFacts
<1>2. ASSUME NEW p \in Seq(T), NEW x \in T, p \in P PROVE Append(p, x) \in P
  <2>1. Append(p, x) \in Seq(T)
    OBVIOUS
  <2>2. W(p)
    BY <1>2
  <2>3. /\ Range(Append(p, x)) = Range(p) \cup {x}
        /\ Single(Append(p, x)) <=> Single(p) /\ (x = Null \/ x \notin Range(p))
    BY AppendFacts
  <2>4. CASE x \in S
    <3>1. Without(Append(p, x), S) = Without(p, S)
      BY <2>4, WithoutAppend
    <3> QED BY <2>1, <2>2, <2>3, <2>4, <3>1
  <2>5. CASE x \notin S
    <3> DEFINE w == Without(p, S)
    <3>1. Without(Append(p, x), S) = Append(w, x) /\ w \in Seq(T) /\ Append(w, x) \in Seq(T)
      BY <2>2, <2>5, WithoutAppend
    <3> HIDE DEF w
    <3>2. /\ Range(Append(w, x)) = Range(w) \cup {x}
          /\ Single(Append(w, x)) <=> Single(w) /\ (x = Null \/ x \notin Range(w))
      BY <3>1, AppendFacts
    <3>3. Range(w) = Range(p) \ S /\ (Single(p) => Single(w))
      BY <2>2 DEF w
    <3>4. W(Append(p, x))
      BY <2>3, <2>5, <3>1, <3>2, <3>3
    <3> QED BY <2>1, <3>4
  <2> QED BY <2>4, <2>5
<1> HIDE DEF P
<1>3. Seq(T) \subseteq P
  BY <1>1, <1>2, SeqInduct
<1> QED BY <1>3 DEF P

LEMMA WithoutConcat ==
  ASSUME NEW T, NEW p \in Seq(T), NEW q \in Seq(T), NEW S
  PROVE  Without(p \o q, S) = Without(p, S) \o Without(q, S)
<1> DEFINE P == {s \in Seq(T) : Without(p \o s, S) = Without(p, S) \o Without(s, S)}
<1>1. Without(p, S) \in Seq(T)
  BY WithoutFacts
<1>2. <<>> \in P
  BY <1>1, WithoutEmpty, ConcatEmptySeq
<1>3. ASSUME NEW s \in Seq(T), NEW x \in T, s \in P PROVE Append(s, x) \in P
  <2> DEFINE w == Without(p, S)
             v == Without(s, S)
  <2>1. /\ p \o Append(s, x) = Append(p \o s, x) /\ p \o s \in Seq(T) /\ Append(s, x) \in Seq(T)
        /\ Without(p \o s, S) = w \o v
    BY <1>3
  <2>2. w \in Seq(T) /\ v \in Seq(T)
    BY WithoutFacts
  <2>3. Without(Append(p \o s, x), S) = IF x \in S THEN w \o v ELSE Append(w \o v, x)
    <3> DEFINE u == p \o s
    <3>1. u \in Seq(T) /\ Without(u, S) = w \o v
      BY <2>1
    <3> HIDE DEF u, w, v
    <3>2. Without(Append(u, x), S) = IF x \in S THEN Without(u, S) ELSE Append(Without(u, S), x)
      BY ONLY <3>1, x \in T, WithoutAppend, ZenonT(60)
    <3> QED BY <3>1, <3>2 DEF u
  <2>4. Without(Append(s, x), S) = IF x \in S THEN v ELSE Append(v, x)
    BY WithoutAppend
  <2> HIDE DEF w, v
  <2>5. w \o Append(v, x) = Append(w \o v, x)
    BY <2>2
  <2>6. Without(p \o Append(s, x), S) = w \o Without(Append(s, x), S)
    BY <2>1, <2>3, <2>4, <2>5
  <2> QED BY <2>1, <2>6 DEF w
<1> HIDE DEF P
<1>4. Seq(T) \subseteq P
  BY <1>2, <1>3, SeqInduct
<1> QED BY <1>4 DEF P

LEMMA WithoutTwice ==
  ASSUME NEW T, NEW q \in Seq(T), NEW S, NEW R
  PROVE  Without(Without(q, S), R) = Without(q, S \cup R)
<1> DEFINE P == {s \in Seq(T) : Without(Without(s, S), R) = Without(s, S \cup R)}
<1>1. <<>> \in P
  BY WithoutEmpty
<1>2. ASSUME NEW s \in Seq(T), NEW x \in T, s \in P PROVE Append(s, x) \in P
  <2> DEFINE w == Without(s, S)
  <2>1. w \in Seq(T) /\ Append(s, x) \in Seq(T)
    BY WithoutFacts
  <2>2. Without(w, R) = Without(s, S \cup R)
    BY <1>2
  <2>3. Without(Append(s, x), S) = IF x \in S THEN w ELSE Append(w, x)
    BY WithoutAppend
  <2>4. Without(Append(s, x), S \cup R) = IF x \in S \cup R THEN Without(s, S \cup R)
                                                       ELSE Append(Without(s, S \cup R), x)
    BY WithoutAppend
  <2> HIDE DEF w
  <2>5. Without(Append(w, x), R) = IF x \in R THEN Without(w, R) ELSE Append(Without(w, R), x)
    BY <2>1, WithoutAppend
  <2> QED BY <2>1, <2>2, <2>3, <2>4, <2>5
<1> HIDE DEF P
<1>3. Seq(T) \subseteq P
  BY <1>1, <1>2, SeqInduct
<1> QED BY <1>3 DEF P

-----------------------------------------------------------------------------
(* The requests' places and their counts *)

LEMMA LineFacts ==
  ASSUME Types
  PROVE  /\ bundle \in Seq(Slots) /\ queue \in Seq(Slots) /\ line \in Seq(Slots)
         /\ Range(line) = Range(bundle) \cup Range(queue)
         /\ Range(bundle) \subseteq Requests /\ Null \notin Requests
         /\ Single(line) => /\ Single(bundle) /\ Single(queue)
                            /\ \A x \in Range(bundle) \cap Range(queue) : x = Null
<1>1. bundle \in Seq(Slots) /\ queue \in Seq(Slots)
  BY SeqMonotonic DEF Types, Slots
<1>2. Range(bundle) \subseteq Requests
  BY DEF Types, Range
<1> QED BY <1>1, <1>2, ConcatFacts, RequestAssumption DEF line

LEMMA PlacesCount ==
  ASSUME NEW T, NEW q \in Seq(T), Single(q), NEW r, r # Null
  PROVE  Cardinality({i \in DOMAIN q : q[i] = r}) = IF r \in Range(q) THEN 1 ELSE 0
<1> DEFINE I == {i \in DOMAIN q : q[i] = r}
<1>1. CASE r \in Range(q)
  <2>1. PICK i \in DOMAIN q : q[i] = r
    BY <1>1 DEF Range
  <2>2. I = {i}
    BY <2>1 DEF Single
  <2> QED BY <1>1, <2>2, FS_Singleton
<1>2. CASE r \notin Range(q)
  <2>1. I = {}
    BY <1>2 DEF Range
  <2> QED BY <1>2, <2>1, FS_EmptySet
<1> QED BY <1>1, <1>2

(* Each request has one place at most, so its owners are easily counted.   *)
LEMMA HoldersAreOwners ==
  ASSUME Types, Placed, NEW r \in Requests
  PROVE  Holders(r) = Owners(r)
<1>1. /\ Single(bundle) /\ Single(queue) /\ bundle \in Seq(Slots) /\ queue \in Seq(Slots)
      /\ Range(line) = Range(bundle) \cup Range(queue) /\ r # Null
      /\ \A x \in Range(bundle) \cap Range(queue) : x = Null
  BY LineFacts DEF Placed
<1>2. /\ Cardinality({i \in DOMAIN bundle : bundle[i] = r}) = IF r \in Range(bundle) THEN 1 ELSE 0
      /\ Cardinality({i \in DOMAIN queue : queue[i] = r}) = IF r \in Range(queue) THEN 1 ELSE 0
  BY <1>1, PlacesCount
<1> QED BY <1>1, <1>2 DEF Holders, Owners

(* The counts, the places and the answers *)
Data == Placed /\ Given /\ Counted /\ AnswerMatches

(* Steps that move requests at most from the bundle to the queue or back *)
LEMMA SameData ==
  ASSUME Data, line' = line, UNCHANGED <<submitted, held, aborted, got, refs, stop>>
  PROVE  Data'
BY DEF Data, Placed, Given, Counted, AnswerMatches, Owners

(* purge_aborted_requests_unsafe(), and a bundle taken from what it leaves *)
LEMMA PurgedData ==
  ASSUME Types, Data, line' = bundle \o Purged, refs' = PurgedRefs,
         UNCHANGED <<submitted, held, aborted, got, stop>>
  PROVE  Data' /\ refs' \in [Requests -> Nat] /\ Purged \in Seq(Slots)
<1>1. /\ bundle \in Seq(Slots) /\ queue \in Seq(Slots) /\ Null \notin Requests
      /\ Range(line) = Range(bundle) \cup Range(queue)
      /\ Single(bundle) /\ Single(queue) /\ Single(line)
      /\ \A x \in Range(bundle) \cap Range(queue) : x = Null
  BY LineFacts DEF Data, Placed
<1>2. /\ Purged \in Seq(Slots) /\ Range(Purged) = Range(queue) \ aborted /\ Single(Purged)
  BY <1>1, WithoutFacts DEF Purged
<1>3. /\ Range(line') = Range(bundle) \cup (Range(queue) \ aborted)
      /\ Single(line')
  <2>1. \A x \in Range(bundle) \cap Range(Purged) : x = Null
    BY <1>1, <1>2
  <2> HIDE DEF Purged
  <2> QED BY <1>1, <1>2, <2>1, ConcatFacts
<1>4. Placed' /\ Given' /\ AnswerMatches'
  <2>1. Range(line') \subseteq Range(line)
    BY <1>1, <1>3
  <2> QED BY <1>3, <2>1 DEF Data, Placed, Given, AnswerMatches
<1>5. ASSUME NEW r \in Requests
      PROVE  /\ refs'[r] \in Nat /\ refs'[r] >= Owners(r)'
             /\ ~PushBackRace /\ ~UnpackFails => refs'[r] = Owners(r)'
  <2>1. /\ refs[r] \in Nat /\ refs[r] >= Owners(r)
        /\ ~PushBackRace /\ ~UnpackFails => refs[r] = Owners(r)
    BY DEF Types, Data, Counted
  <2>2. refs'[r] = IF r \in Range(queue) \cap aborted THEN refs[r] - 1 ELSE refs[r]
    BY DEF PurgedRefs
  <2>3. CASE r \in Range(queue) \cap aborted
    <3>1. r \in Range(line) /\ r \notin Range(line')
      BY <1>1, <1>3, <2>3
    <3>2. Owners(r)' = Owners(r) - 1 /\ Owners(r) \in Nat /\ Owners(r) > 0
      BY <3>1 DEF Owners
    <3> HIDE DEF Owners
    <3> QED BY <2>1, <2>2, <2>3, <3>2
  <2>4. CASE r \notin Range(queue) \cap aborted
    <3>1. r \in Range(line) <=> r \in Range(line')
      BY <1>1, <1>3, <2>4
    <3>2. Owners(r)' = Owners(r)
      BY <3>1 DEF Owners
    <3> QED BY <2>1, <2>2, <2>4, <3>2
  <2> QED BY <2>3, <2>4
<1>6. refs' \in [Requests -> Nat]
  <2>1. refs' = [r \in Requests |-> refs'[r]]
    BY DEF PurgedRefs
  <2> QED BY <1>5, <2>1
<1> QED BY <1>2, <1>4, <1>5, <1>6 DEF Data, Counted

-----------------------------------------------------------------------------
(* The handler's steps *)

LEMMA StateSets ==
  /\ LoopStates \cap ({"send", "receive", "unpack"} \cup Pushing) = {}
  /\ LoopStates \subseteq States /\ ProcessStates \subseteq States /\ Closings \subseteq States
  /\ "take" \notin {"send", "receive", "unpack"} \cup Closings
  /\ "silent" \notin {"send", "receive", "unpack"} \cup Closings
BY DEF LoopStates, ProcessStates, States, Pushing, Closings

(* A turn of the loop purges the queue and may close the socket. *)
LEMMA PurgeKeeps ==
  ASSUME IInv, state \in LoopStates, Purge, UNCHANGED <<bundle, submitted, held, aborted, got, stop>>,
         state' \in LoopStates \cup {"silent", "take", "exited"},
         wire' \in {wire, <<>>}, wire' # <<>> => state' \in Closings
  PROVE  IInv'
<1>1. Types /\ Data
  BY DEF IInv, Data
<1>2. line' = bundle \o Purged /\ refs' = PurgedRefs /\ queue' = Purged
  BY DEF Purge, line
<1>3. Data' /\ refs' \in [Requests -> Nat] /\ queue' \in Seq(Slots)
  <2> HIDE DEF Purged, PurgedRefs
  <2> QED BY <1>1, <1>2, PurgedData
<1>4. bundle' = <<>>
  BY StateSets DEF IInv, Bundled
<1>5. Bundled' /\ Wired'
  BY <1>4 DEF Bundled, Wired, LoopStates, Pushing, Closings
<1>6. Types'
  <2>1. wire' \in Seq(Seq(Requests))
    BY <1>1, EmptySeq DEF Types
  <2>2. state' \in States
    BY DEF States, LoopStates, ProcessStates
  <2> QED BY <1>1, <1>3, <2>1, <2>2 DEF Types
<1> QED BY <1>3, <1>5, <1>6 DEF IInv, Data

LEMMA TurnKeeps ==
  ASSUME IInv, NEW s \in LoopStates, NEW t \in LoopStates \cup {"silent", "take"}, Turn(s, t),
         wire' = wire, t \in Closings \/ s \notin Closings
  PROVE  IInv'
<1>1. /\ state = s /\ state' = t /\ Purge
      /\ UNCHANGED <<bundle, submitted, held, aborted, got, stop>>
  BY DEF Turn, tags
<1>2. wire' # <<>> => state' \in Closings
  BY <1>1 DEF IInv, Wired, LoopStates
<1> QED BY <1>1, <1>2, PurgeKeeps

LEMMA LoopKeeps ==
  ASSUME IInv,
         \/ OpenSocket \/ Register \/ SendForwardOpen \/ ForwardOpened \/ ForwardOpenTooLarge
         \/ ForwardOpenUnsupported \/ ForwardOpenRefused \/ ForwardOpenSilent \/ Idle
         \/ Disconnect \/ Retry \/ WaitReconnect
  PROVE  IInv'
<1> DEFINE Open == {"OPEN_SOCKET_START", "OPEN_SOCKET_WAIT", "REGISTER", "SEND_FORWARD_OPEN",
                    "RECEIVE_FORWARD_OPEN", "IDLE", "START_RETRY", "WAIT_RETRY", "WAIT_RECONNECT"}
           Close == {"UNREGISTER", "CLOSE_SOCKET"}
<1>1. /\ \A s \in Open : s \in LoopStates /\ s \notin Closings
      /\ \A s \in Close : s \in LoopStates /\ s \in Closings
      /\ "DISCONNECT" \in LoopStates
  BY DEF LoopStates, Closings, Pushing
<1>2. CASE \E s \in Open, t \in Open \cup Close \cup {"silent", "take"} : Turn(s, t) /\ wire' = wire
  BY <1>1, <1>2, TurnKeeps
<1>3. CASE (Turn("DISCONNECT", "UNREGISTER") \/ Turn("UNREGISTER", "CLOSE_SOCKET")) /\ wire' = wire
  BY <1>1, <1>3, TurnKeeps
<1>4. CASE OpenSocket
  BY <1>2, <1>4 DEF OpenSocket
<1>5. CASE Register
  <2>1. PICK t \in {"SEND_FORWARD_OPEN", "IDLE", "CLOSE_SOCKET"} : Turn("REGISTER", t) /\ wire' = wire
    BY <1>5 DEF Register
  <2> QED BY <1>2, <2>1
<1>6. CASE SendForwardOpen
  BY <1>2, <1>6 DEF SendForwardOpen
<1>7. CASE ForwardOpened \/ ForwardOpenTooLarge \/ ForwardOpenRefused
  BY <1>2, <1>7 DEF ForwardOpened, ForwardOpenTooLarge, ForwardOpenRefused, link
<1>8. CASE ForwardOpenUnsupported
  <2>1. PICK t \in {"UNREGISTER", "SEND_FORWARD_OPEN"} :
          Turn("RECEIVE_FORWARD_OPEN", t) /\ wire' = wire
    BY <1>8 DEF ForwardOpenUnsupported
  <2> QED BY <1>2, <2>1
<1>9. CASE ForwardOpenSilent
  BY <1>2, <1>9 DEF ForwardOpenSilent
<1>10. CASE Idle
  BY <1>2, <1>10 DEF Idle
<1>11. CASE Disconnect
  BY <1>3, <1>11 DEF Disconnect
<1>12. CASE Retry
  BY <1>2, <1>12 DEF Retry
<1>13. CASE WaitReconnect
  <2>1. PICK t \in {"WAIT_RECONNECT", "OPEN_SOCKET_START"} :
          Turn("WAIT_RECONNECT", t) /\ wire' = wire
    BY <1>13 DEF WaitReconnect
  <2> QED BY <1>2, <2>1
<1> QED BY <1>4, <1>5, <1>6, <1>7, <1>8, <1>9, <1>10, <1>11, <1>12, <1>13

LEMMA ClosingKeeps ==
  ASSUME IInv, CloseSocket \/ Exit
  PROVE  IInv'
<1>1. CASE CloseSocket
  <2>1. /\ state = "CLOSE_SOCKET" /\ state' \in {"WAIT_RECONNECT", "START_RETRY"} /\ Purge
        /\ UNCHANGED <<bundle, submitted, held, aborted, got, stop>> /\ wire' = <<>>
    BY <1>1 DEF CloseSocket, Turn, tags
  <2> QED BY <2>1, PurgeKeeps DEF LoopStates
<1>2. CASE Exit
  <2>1. /\ state \in LoopStates /\ state' = "exited" /\ Purge
        /\ UNCHANGED <<bundle, submitted, held, aborted, got, stop>> /\ wire' = wire
    BY <1>2 DEF Exit, tags
  <2> QED BY <2>1, PurgeKeeps DEF Closings
<1> QED BY <1>1, <1>2

(* Steps in which no request moves and no count changes *)
LEMMA StillKeeps ==
  ASSUME IInv, UNCHANGED <<queue, bundle, submitted, held, aborted, got, refs, stop>>,
         state' \in States, wire' \in Seq(Seq(Requests)), Bundled', Wired'
  PROVE  IInv'
<1>1. line' = line
  BY DEF line
<1>2. Data'
  BY <1>1, SameData DEF IInv, Data
<1> QED BY <1>2 DEF IInv, Data, Types

LEMMA StopWaitingKeeps ==
  ASSUME IInv, StopWaiting
  PROVE  IInv'
<1>1. /\ state = "silent" /\ state' = "UNREGISTER" /\ wire' = wire /\ bundle' = bundle
      /\ UNCHANGED <<queue, submitted, held, aborted, got, refs, stop>>
  BY DEF StopWaiting, tags
<1>2. Bundled' /\ Wired'
  BY <1>1 DEF IInv, Bundled, Wired, Closings, Pushing
<1>3. state' \in States /\ wire' \in Seq(Seq(Requests))
  BY <1>1 DEF IInv, Types, States, LoopStates
<1> QED BY <1>1, <1>2, <1>3, StillKeeps

(* IdleEnd: the loop goes on or closes the connection. *)
LEMMA IdleEndStates ==
  ASSUME NEW ok, IdleEnd(ok)
  PROVE  /\ state' \in LoopStates
         /\ ~ok => state' \in Closings
BY DEF IdleEnd, Closing, LoopStates, Closings

(* The first block of process_requests(), for packets of any length, and   *)
(* so for those of both kinds of session                                   *)
TakeSome ==
  /\ state = "take" /\ refs' = PurgedRefs
  /\ UNCHANGED <<expired, oldOnly, guess, payload, wire, tags, got, stop, faults>>
  /\ \/ IdleEnd(TRUE) /\ queue' = Purged /\ bundle' = bundle
     \/ \E n \in 1..Len(Purged) :
          /\ Fits(SubSeq(Purged, 1, n))
          /\ bundle' = SubSeq(Purged, 1, n)
          /\ queue' = SubSeq(Purged, n + 1, Len(Purged))
          /\ state' = "send"

LEMMA BothTakeSome ==
  ASSUME Take \/ ConnTake
  PROVE  TakeSome
<1>1. CASE Take
  BY <1>1 DEF Take, TakeSome
<1>2. CASE ConnTake
  BY <1>2 DEF ConnTake, ConnFits, TakeSome
<1> QED BY <1>1, <1>2

LEMMA TakeKeeps ==
  ASSUME IInv, TakeSome
  PROVE  IInv' /\ line' = bundle \o Purged
<1>1. /\ Types /\ Data /\ state = "take" /\ bundle = <<>> /\ wire = <<>> /\ wire' = wire
      /\ UNCHANGED <<submitted, held, aborted, got, stop>> /\ refs' = PurgedRefs
  BY DEF IInv, TakeSome, Data, Bundled, Wired, Pushing, Closings, tags
<1>2. Purged \in Seq(Slots)
  BY <1>1, LineFacts, WithoutFacts DEF Purged
<1>3. CASE IdleEnd(TRUE) /\ queue' = Purged /\ bundle' = bundle
  <2>1. line' = bundle \o Purged
    BY <1>3 DEF line
  <2>2. Data' /\ refs' \in [Requests -> Nat]
    BY <1>1, <2>1, PurgedData
  <2>3. state' \in LoopStates
    BY <1>3, IdleEndStates
  <2>4. Bundled' /\ Wired' /\ state' \in States
    BY <1>1, <1>3, <2>3 DEF Bundled, Wired, LoopStates, States, Pushing, Closings
  <2>5. Types'
    BY <1>1, <1>2, <1>3, <2>2, <2>4 DEF Types
  <2> QED BY <2>1, <2>2, <2>4, <2>5 DEF IInv, Data
<1>4. CASE \E n \in 1..Len(Purged) : /\ Fits(SubSeq(Purged, 1, n))
                                     /\ bundle' = SubSeq(Purged, 1, n)
                                     /\ queue' = SubSeq(Purged, n + 1, Len(Purged))
                                     /\ state' = "send"
  <2>1. PICK n \in 1..Len(Purged) : /\ Fits(SubSeq(Purged, 1, n))
                                    /\ bundle' = SubSeq(Purged, 1, n)
                                    /\ queue' = SubSeq(Purged, n + 1, Len(Purged))
                                    /\ state' = "send"
    BY <1>4
  <2> DEFINE q == Purged
             b == SubSeq(q, 1, n)
  <2>2. q \in Seq(Slots) /\ n \in 1..Len(q) /\ Len(q) \in Nat
    BY <1>2
  <2> HIDE DEF q
  <2>3. /\ b \in Seq(Slots) /\ Len(b) = n /\ \A i \in 1..n : b[i] = q[i] /\ q[i] \in Slots
    BY <2>2
  <2>4. SubSeq(q, n + 1, Len(q)) \in Seq(Slots)
    BY <2>2, ElementOfSeq, SubSeqProperties
  <2>5. b \o SubSeq(q, n + 1, Len(q)) = q
    BY <2>2, ConcatAdjacentSubSeq, SubSeqFull
  <2>6. \A i \in 1..n : b[i] \in Requests
    <3>1. bundle' = b /\ Fits(b)
      BY <2>1 DEF q
    <3> HIDE DEF b
    <3>2. CASE n = 1 /\ b[1] # Null
      BY <2>3, <3>2 DEF Slots
    <3>3. CASE Range(b) \subseteq Packable
      <4>1. \A i \in 1..n : b[i] \in Range(b)
        BY <2>3 DEF Range
      <4> QED BY <3>3, <4>1, RequestAssumption
    <3> QED BY <2>3, <3>1, <3>2, <3>3 DEF Fits
  <2>7. b \in Seq(Requests) /\ b # <<>>
    <3> HIDE DEF b
    <3>1. b \in [1..n -> Requests]
      BY <2>3, <2>6
    <3> QED BY <2>2, <2>3, <3>1, SeqDef
  <2>8. bundle' = b /\ queue' = SubSeq(q, n + 1, Len(q)) /\ state' = "send"
    BY <2>1 DEF q
  <2>9. line' = bundle \o Purged
    <3>1. line' = q
      BY <2>5, <2>8 DEF line
    <3>2. bundle \o q = q
      BY <1>1, <2>2
    <3> QED BY <3>1, <3>2 DEF q
  <2> HIDE DEF b
  <2>10. Data' /\ refs' \in [Requests -> Nat]
    BY <1>1, <2>9, PurgedData
  <2>11. Bundled' /\ Wired' /\ state' \in States
    BY <1>1, <2>7, <2>8 DEF Bundled, Wired, States, ProcessStates, Pushing, Closings
  <2>12. Types'
    BY <1>1, <2>4, <2>7, <2>8, <2>10, <2>11 DEF Types
  <2> QED BY <2>9, <2>10, <2>11, <2>12 DEF IInv, Data
<1> QED BY <1>3, <1>4 DEF TakeSome

LEMMA SendKeeps ==
  ASSUME IInv, Send
  PROVE  IInv'
<1>1. /\ bundle \in Seq(Requests) /\ bundle # <<>> /\ wire = <<>> /\ wire \in Seq(Seq(Requests))
      /\ UNCHANGED <<queue, bundle, submitted, held, aborted, got, refs, stop>>
      /\ state' = "receive" => wire' = Append(wire, bundle)
      /\ state' \in {"receive", "push"} /\ wire' \in {wire, Append(wire, bundle)}
  BY DEF IInv, Types, Bundled, Wired, Send, Pushing, Closings, tags
<1>2. wire' \in Seq(Seq(Requests)) /\ Append(wire, bundle) = <<bundle>> /\ <<bundle>> # <<>>
  <2>1. Append(<<>>, bundle) = <<bundle>> /\ <<bundle>> # <<>> /\ <<bundle>> \in Seq(Seq(Requests))
    BY <1>1, SingletonFacts
  <2>2. wire' \in {<<>>, Append(<<>>, bundle)}
    BY <1>1
  <2>3. <<>> \in Seq(Seq(Requests))
    BY EmptySeq
  <2> QED BY ONLY <1>1, <2>1, <2>2, <2>3
<1>3. Bundled' /\ Wired'
  BY <1>1, <1>2 DEF Bundled, Wired, Pushing, Closings
<1>4. state' \in States
  BY <1>1 DEF States, ProcessStates
<1> QED BY <1>1, <1>2, <1>3, <1>4, StillKeeps

LEMMA ReceiveKeeps ==
  ASSUME IInv, Receive
  PROVE  IInv'
<1>1. bundle \in Seq(Requests) /\ bundle # <<>> /\ wire = <<bundle>>
  BY DEF IInv, Types, Bundled, Wired, Receive
<1>2. /\ wire \in Seq(Seq(Requests)) /\ Len(wire) = 1 /\ wire[1] = bundle /\ wire # <<>>
      /\ Tail(wire) = <<>> /\ Len(bundle) \in Nat /\ <<>> \in Seq(Seq(Requests))
  BY <1>1, SingletonFacts, EmptySeq
<1>5. /\ UNCHANGED <<queue, bundle, submitted, held, aborted, got, refs, stop>>
      /\ state' = "unpack" => wire' = wire
      /\ state' \in {"unpack", "push"} /\ wire' \in {wire, <<>>}
  BY <1>2 DEF Receive, tags
<1>3. Bundled' /\ Wired'
  BY <1>1, <1>2, <1>5 DEF Bundled, Wired, Pushing, Closings
<1>4. state' \in States /\ wire' \in Seq(Seq(Requests))
  BY <1>2, <1>5 DEF States, ProcessStates
<1> QED BY <1>3, <1>4, <1>5, StillKeeps

(* The next request of the bundle gets its part of the reply. *)
LEMMA UnpackKeeps ==
  ASSUME IInv, Unpack
  PROVE  /\ IInv'
         /\ Head(bundle) \in submitted /\ got' = [got EXCEPT ![Head(bundle)] = Head(bundle)]
         /\ line = <<Head(bundle)>> \o line' /\ line' \in Seq(Slots)
         /\ UNCHANGED <<submitted, held, aborted>>
<1> DEFINE r == Head(bundle)
<1>1. /\ Types /\ Data /\ state = "unpack" /\ bundle # <<>> /\ bundle \in Seq(Requests)
      /\ Len(wire) = 1 /\ wire \in Seq(Seq(Requests)) /\ Len(bundle) <= Len(wire[1])
      /\ \A i \in 1..Len(bundle) : bundle[i] = wire[1][Len(wire[1]) - Len(bundle) + i]
  BY DEF IInv, Data, Unpack, Bundled, Wired, Types
<1>2. /\ r \in Requests /\ r = bundle[1] /\ Len(bundle) \in Nat \ {0} /\ Tail(bundle) \in Seq(Requests)
      /\ Len(Tail(bundle)) = Len(bundle) - 1 /\ Head(wire) = wire[1] /\ Tail(wire) = <<>>
      /\ \A i \in 1..(Len(bundle) - 1) : Tail(bundle)[i] = bundle[i + 1]
      /\ Len(bundle) = 1 <=> Tail(bundle) = <<>>
      /\ bundle = <<r>> \o Tail(bundle)
  <2>1. wire # <<>>
    <3>1. Len(<<>>) # Len(wire)
      <4>1. Len(<<>>) = 0
        BY EmptySeq
      <4>2. Len(wire) = 1
        BY <1>1
      <4> QED BY ONLY <4>1, <4>2
    <3> QED BY ONLY <3>1, Zenon
  <2>2. Head(wire) = wire[1] /\ Tail(wire) = <<>>
    BY ONLY <1>1, <2>1, TailFacts
  <2>3. /\ Head(bundle) \in Requests /\ Head(bundle) = bundle[1] /\ Len(bundle) \in Nat \ {0}
        /\ Tail(bundle) \in Seq(Requests) /\ Len(Tail(bundle)) = Len(bundle) - 1
        /\ \A i \in 1..(Len(bundle) - 1) : Tail(bundle)[i] = bundle[i + 1]
        /\ Len(bundle) = 1 <=> Tail(bundle) = <<>>
        /\ bundle = <<Head(bundle)>> \o Tail(bundle)
    BY ONLY <1>1, TailFacts
  <2> QED BY ONLY <2>2, <2>3
<1>3. /\ got' = [got EXCEPT ![r] = r] /\ refs' = [refs EXCEPT ![r] = @ - 1]
      /\ bundle' = Tail(bundle) /\ UNCHANGED <<queue, submitted, held, aborted, stop>>
      /\ IF Len(bundle) = 1 THEN IdleEnd(TRUE) /\ wire' = Tail(wire) ELSE UNCHANGED <<state, wire>>
  <2>1. wire[1][Len(wire[1]) - Len(bundle) + 1] = r
    BY <1>1, <1>2
  <2> QED BY <1>2, <2>1 DEF Unpack, tags
<1> HIDE DEF r
<1>4. /\ line = <<r>> \o line' /\ line' \in Seq(Slots) /\ r # Null
  <2>1. /\ queue \in Seq(Slots) /\ bundle \in Seq(Slots) /\ Null \notin Requests
    BY <1>1, LineFacts
  <2>2. bundle = <<r>> \o Tail(bundle) /\ Tail(bundle) \in Seq(Slots) /\ r \in Slots
    BY <1>2, SeqMonotonic DEF Slots
  <2>3. line' = Tail(bundle) \o queue /\ line' \in Seq(Slots)
    BY <1>3, <2>1, <2>2 DEF line
  <2>4. (<<r>> \o Tail(bundle)) \o queue = <<r>> \o (Tail(bundle) \o queue)
    <3>1. <<r>> \in Seq(Slots)
      BY <2>2
    <3> QED BY <2>1, <2>2, <3>1, ConcatAssociative
  <2> QED BY <1>2, <2>1, <2>2, <2>3, <2>4 DEF line
<1>5. /\ Range(line) = {r} \cup Range(line') /\ Single(line') /\ r \notin Range(line')
  <2> DEFINE l == line'
  <2>1. l \in Seq(Slots) /\ line = <<r>> \o l /\ <<r>> \in Seq(Slots)
    BY <1>2, <1>4 DEF Slots
  <2> HIDE DEF l
  <2>2. Range(<<r>>) = {r}
    BY SingletonFacts
  <2>3. /\ Range(line) = Range(<<r>>) \cup Range(l)
        /\ Single(line) => Single(l) /\ \A x \in Range(<<r>>) \cap Range(l) : x = Null
    BY <2>1, ConcatFacts, ZenonT(60)
  <2>4. Range(line) = {r} \cup Range(l) /\ Single(l) /\ r \notin Range(l)
    BY <1>1, <1>4, <2>2, <2>3 DEF Data, Placed
  <2> QED BY <2>4 DEF l
<1>6. Placed' /\ Given' /\ r \in submitted
  <2>1. r \in submitted
    BY <1>1, <1>4, <1>5 DEF Data, Placed
  <2> QED BY <1>1, <1>3, <1>5, <2>1 DEF Data, Placed, Given, Types
<1>7. AnswerMatches'
  BY <1>1, <1>3 DEF Data, AnswerMatches, Types
<1>8. ASSUME NEW x \in Requests
      PROVE  /\ refs'[x] \in Nat /\ refs'[x] >= Owners(x)'
             /\ ~PushBackRace /\ ~UnpackFails => refs'[x] = Owners(x)'
  <2>1. /\ refs[x] \in Nat /\ refs[x] >= Owners(x)
        /\ ~PushBackRace /\ ~UnpackFails => refs[x] = Owners(x)
    BY <1>1 DEF Types, Data, Counted
  <2>2. refs'[x] = IF x = r THEN refs[x] - 1 ELSE refs[x]
    BY <1>1, <1>3 DEF Types
  <2>3. /\ Owners(x)' = IF x = r THEN Owners(x) - 1 ELSE Owners(x)
        /\ Owners(x) \in Nat /\ (x = r => Owners(x) > 0)
    BY <1>3, <1>5 DEF Owners
  <2> HIDE DEF Owners
  <2> QED BY <2>1, <2>2, <2>3
<1>9. Types' /\ Bundled' /\ Wired'
  <2>1. refs' \in [Requests -> Nat] /\ got' \in [Requests -> Slots]
    BY <1>1, <1>2, <1>3, <1>8 DEF Types, Slots
  <2>2. CASE Len(bundle) = 1
    <3>1. state' \in LoopStates /\ wire' = <<>> /\ bundle' = <<>>
      BY <1>2, <1>3, <2>2, IdleEndStates
    <3>2. wire' \in Seq(Seq(Requests)) /\ bundle' \in Seq(Requests)
      BY <3>1
    <3> QED BY <1>1, <1>3, <2>1, <3>1, <3>2, StateSets DEF Types, Bundled, Wired, LoopStates, Pushing, Closings
  <2>3. CASE Len(bundle) # 1
    <3>1. state' = "unpack" /\ wire' = wire
      BY <1>1, <1>3, <2>3
    <3>2. bundle' # <<>> /\ bundle' \in Seq(Requests) /\ Len(bundle') = Len(bundle) - 1
      BY <1>2, <1>3, <2>3, EmptySeq
    <3>3. Len(wire[1]) \in Nat
      <4>1. wire[1] \in Seq(Requests)
        <5>1. 1 \in 1..Len(wire)
          BY <1>1
        <5> QED BY ONLY <1>1, <5>1, ElementOfSeq
      <4> QED BY ONLY <4>1, LenProperties
    <3>4. \A i \in 1..(Len(bundle) - 1) :
             bundle'[i] = wire[1][Len(wire[1]) - (Len(bundle) - 1) + i]
      <4> TAKE i \in 1..(Len(bundle) - 1)
      <4>1. i + 1 \in 1..Len(bundle) /\ bundle'[i] = bundle[i + 1]
        BY <1>2, <1>3
      <4>2. PICK m \in Nat, k \in Nat : m = Len(wire[1]) /\ k = Len(bundle)
        BY <1>2, <3>3
      <4>3. m - k + (i + 1) = m - (k - 1) + i
        <5>1. i \in Int
          BY <1>2
        <5> QED BY ONLY <5>1, m \in Nat, k \in Nat
      <4> QED BY <1>1, <4>1, <4>2, <4>3
    <3>5. Types'
      BY <1>1, <1>3, <2>1, <3>1, <3>2 DEF Types
    <3>6. Bundled'
      BY <3>1, <3>2 DEF Bundled, Pushing
    <3>7. Wired'
      BY <1>1, <1>2, <3>1, <3>2, <3>3, <3>4 DEF Wired
    <3> QED BY <3>5, <3>6, <3>7
  <2> QED BY <2>2, <2>3
<1> QED BY <1>3, <1>4, <1>6, <1>7, <1>8, <1>9 DEF IInv, Counted, r

(* A reply that does not fit drops what is left of the bundle. *)
LEMMA UnpackFailKeeps ==
  ASSUME IInv, UnpackFail
  PROVE  IInv'
<1>1. /\ Types /\ Data /\ UnpackFails /\ bundle' = <<>> /\ wire' = Tail(wire)
      /\ UNCHANGED <<queue, submitted, held, aborted, got, refs, stop>> /\ state' \in LoopStates
  BY IdleEndStates DEF IInv, Data, UnpackFail, tags
<1>2. wire' = <<>>
  <2>1. wire \in Seq(Seq(Requests)) /\ Len(wire) = 1
    BY DEF IInv, Types, Wired, UnpackFail
  <2>2. Len(<<>>) # Len(wire)
    <3>1. Len(<<>>) = 0
      BY EmptySeq
    <3> QED BY ONLY <2>1, <3>1
  <2>3. wire # <<>>
    BY ONLY <2>2, Zenon
  <2> QED BY ONLY <1>1, <2>1, <2>3, TailFacts
<1>3. /\ queue \in Seq(Slots) /\ Range(queue) \subseteq Range(line) /\ Single(queue)
  BY <1>1, LineFacts DEF Data, Placed
<1>4. line' = queue
  <2>1. <<>> \o queue = queue
    BY <1>3, ConcatEmptySeq
  <2> QED BY <1>1, <2>1 DEF line
<1>5. Placed' /\ Given' /\ AnswerMatches'
  BY <1>1, <1>3, <1>4 DEF Data, Placed, Given, AnswerMatches
<1>6. Counted'
  <2> SUFFICES ASSUME NEW r \in Requests PROVE refs'[r] >= Owners(r)'
    BY <1>1 DEF Counted
  <2>1. refs[r] >= Owners(r) /\ refs[r] \in Nat
    BY <1>1 DEF Data, Counted, Types
  <2>2. Owners(r) \in Nat /\ Owners(r)' \in Nat /\ Owners(r)' <= Owners(r)
    BY <1>1, <1>3, <1>4 DEF Owners
  <2> HIDE DEF Owners
  <2> QED BY <1>1, <2>1, <2>2
<1>7. Types' /\ Bundled' /\ Wired'
  <2>1. <<>> \in Seq(Requests) /\ <<>> \in Seq(Seq(Requests))
    BY EmptySeq
  <2> QED BY <1>1, <1>2, <2>1, StateSets DEF Types, Bundled, Wired, LoopStates, Pushing, Closings
<1> QED BY <1>5, <1>6, <1>7 DEF IInv

LEMMA FrontLastFacts ==
  ASSUME NEW T, NEW q \in Seq(T), q # <<>>
  PROVE  /\ Front(q) \in Seq(T) /\ Last(q) \in T /\ Front(q) \o <<Last(q)>> = q
<1>1. Len(q) \in Nat \ {0} /\ \A i \in 1..Len(q) : q[i] \in T
  BY EmptySeq, ElementOfSeq
<1> DEFINE p == SubSeq(q, 1, Len(q) - 1)
           x == q[Len(q)]
<1>2. /\ p \in Seq(T) /\ Len(p) = Len(q) - 1 /\ \A i \in 1..(Len(q) - 1) : p[i] = q[i]
      /\ x \in T
  <2>1. PICK n \in Nat : n = Len(q) - 1
    BY <1>1
  <2> DEFINE b == SubSeq(q, 1, n)
  <2>2. b \in Seq(T) /\ Len(b) = n /\ \A i \in 1..n : b[i] = q[i]
    BY <1>1, <2>1
  <2>3. b = p
    BY <2>1
  <2> HIDE DEF b, p
  <2> QED BY <1>1, <2>1, <2>2, <2>3
<1>3. Front(q) = p /\ Last(q) = x
  BY DEF Front, Last
<1> HIDE DEF p
<1>4. Append(p, x) = q
  <2>1. Append(p, x) \in Seq(T) /\ Len(Append(p, x)) = Len(q)
    BY <1>1, <1>2
  <2>2. \A i \in 1..Len(q) : Append(p, x)[i] = q[i]
    BY <1>1, <1>2
  <2> QED BY <2>1, <2>2, SeqEqual
<1> HIDE DEF x
<1>5. p \o <<x>> = Append(p, x)
  BY <1>2
<1> QED BY <1>2, <1>3, <1>4, <1>5

(* The last request of the bundle becomes the first of the queue. *)
LEMMA PushBackLine ==
  ASSUME Types, PushBack
  PROVE  /\ line' = line /\ queue' # <<>>
         /\ bundle' \in Seq(Requests) /\ queue' \in Seq(Slots)
<1> DEFINE b == Front(bundle)
           x == Last(bundle)
<1>1. /\ b \in Seq(Slots) /\ x \in Requests /\ b \in Seq(Requests) /\ bundle = b \o <<x>>
      /\ queue \in Seq(Slots) /\ queue' = <<x>> \o queue /\ bundle' = b
  <2>1. bundle \in Seq(Requests) /\ bundle # <<>> /\ queue \in Seq(Slots)
    BY DEF Types, PushBack
  <2>2. b \in Seq(Requests) /\ x \in Requests /\ b \o <<x>> = bundle
    BY <2>1, FrontLastFacts
  <2>3. b \in Seq(Slots)
    BY <2>2, SeqMonotonic DEF Slots
  <2> QED BY <2>1, <2>2, <2>3 DEF PushBack
<1> HIDE DEF b, x
<1>2. <<x>> \in Seq(Slots) /\ Len(<<x>>) = 1
  BY <1>1, SingletonFacts DEF Slots
<1>3. line' = line
  <2>1. (b \o <<x>>) \o queue = b \o (<<x>> \o queue)
    BY <1>1, <1>2, ConcatAssociative
  <2> QED BY <1>1, <2>1 DEF line
<1>4. queue' \in Seq(Slots) /\ Len(queue') = 1 + Len(queue) /\ Len(queue) \in Nat
  BY <1>1, <1>2, ConcatProperties
<1>5. Len(<<>>) # Len(queue')
  <2>1. Len(<<>>) = 0
    BY EmptySeq
  <2> QED BY ONLY <1>4, <2>1
<1>6. queue' # <<>>
  BY ONLY <1>5, Zenon
<1> QED BY <1>1, <1>3, <1>4, <1>6

LEMMA PushBackKeeps ==
  ASSUME IInv, PushBack
  PROVE  IInv'
<1>1. /\ Types /\ Data /\ state = "push" /\ state' = "inserting" /\ wire' = wire
      /\ UNCHANGED <<submitted, held, aborted, got, refs, stop>>
  BY DEF IInv, Data, PushBack, tags
<1>2. /\ line' = line /\ queue' # <<>> /\ bundle' \in Seq(Requests) /\ queue' \in Seq(Slots)
  BY <1>1, PushBackLine
<1>3. Data'
  BY <1>1, <1>2, SameData
<1>4. Bundled' /\ Wired'
  BY <1>1, <1>2 DEF Bundled, Wired, Pushing, Closings
<1>5. Types'
  BY <1>1, <1>2 DEF Types, States, ProcessStates
<1> QED BY <1>3, <1>4, <1>5 DEF IInv, Data

(* The request goes to the end of the queue, or over the last one. *)
LEMMA InsertedKeeps ==
  ASSUME IInv, Inserted
  PROVE  IInv'
<1>1. /\ Types /\ Data /\ state \in Pushing /\ state' = "push" /\ bundle' = bundle /\ wire' = wire
      /\ UNCHANGED <<submitted, held, aborted, got, refs, stop>>
  BY DEF IInv, Data, Inserted, tags, Pushing
<1>2. Bundled' /\ Wired'
  BY <1>1 DEF IInv, Bundled, Wired, Pushing, Closings
<1>3. state' \in States
  BY <1>1 DEF States, ProcessStates
<1>4. CASE queue' = queue
  <2>1. wire' \in Seq(Seq(Requests))
    BY <1>1 DEF Types
  <2> QED BY <1>1, <1>2, <1>3, <1>4, <2>1, StillKeeps
<1>5. CASE queue' = Append(queue, Null)
  <2>1. /\ bundle \in Seq(Slots) /\ queue \in Seq(Slots) /\ line \in Seq(Slots) /\ Null \notin Requests
        /\ Null \in Slots
    BY <1>1, LineFacts DEF Slots
  <2>2. queue' \in Seq(Slots) /\ line' = Append(line, Null)
    <3>1. bundle \o Append(queue, Null) = Append(bundle \o queue, Null)
      BY <2>1
    <3> QED BY <1>1, <1>5, <2>1, <3>1 DEF line
  <2>3. Range(line') = Range(line) \cup {Null} /\ (Single(line) => Single(line'))
    BY <2>1, <2>2, AppendFacts
  <2>4. Placed' /\ Given' /\ AnswerMatches'
    <3>1. state = "raced" => PushBackRace
      BY DEF IInv, Bundled
    <3>2. PushBackRace \/ queue' = queue
      BY <3>1 DEF Inserted
    <3>3. PushBackRace \/ line' = line
      BY <1>1, <3>2 DEF line
    <3> QED BY <1>1, <2>3, <3>3 DEF Data, Placed, Given, AnswerMatches
  <2>5. \A r \in Requests : Owners(r)' = Owners(r)
    BY <1>1, <2>1, <2>3 DEF Owners
  <2>6. Counted'
    BY <1>1, <2>5 DEF Data, Counted
  <2>7. Types'
    BY <1>1, <1>3, <2>2 DEF Types
  <2> QED BY <1>2, <2>4, <2>6, <2>7 DEF IInv
<1> QED BY <1>4, <1>5 DEF Inserted

LEMMA PushedBackKeeps ==
  ASSUME IInv, PushedBack
  PROVE  IInv'
<1>1. /\ Types /\ bundle = <<>> /\ IdleEnd(FALSE) /\ wire' = wire
      /\ UNCHANGED <<queue, bundle, submitted, held, aborted, got, refs, stop>>
  BY DEF IInv, PushedBack, tags
<1>2. state' \in LoopStates /\ state' \in Closings
  BY <1>1, IdleEndStates
<1>3. Bundled' /\ Wired'
  BY <1>1, <1>2, StateSets DEF Bundled, Wired, LoopStates, Pushing
<1>4. state' \in States /\ wire' \in Seq(Seq(Requests))
  BY <1>1, <1>2, StateSets DEF Types
<1> QED BY <1>1, <1>3, <1>4, StillKeeps

-----------------------------------------------------------------------------
(* The tags' steps *)

LEMMA SubmitKeeps ==
  ASSUME IInv, NEW r \in Requests, Submit(r)
  PROVE  IInv'
<1>1. /\ Types /\ Data /\ Bundled /\ Wired /\ r \notin submitted /\ "session" \notin stop
      /\ submitted' = submitted \cup {r} /\ held' = held \cup {r} /\ refs' = [refs EXCEPT ![r] = 2]
      /\ bundle' = bundle /\ wire' = wire /\ UNCHANGED <<aborted, got, stop>>
  BY DEF IInv, Data, Submit
<1>2. /\ bundle \in Seq(Slots) /\ queue \in Seq(Slots) /\ line \in Seq(Slots) /\ r # Null /\ r \in Slots
      /\ Range(line) = Range(bundle) \cup Range(queue)
      /\ r \notin Range(line) /\ r \notin held /\ r \notin aborted /\ got[r] = Null
      /\ Single(bundle) /\ Single(queue) /\ Single(line)
      /\ \A x \in Range(bundle) \cap Range(queue) : x = Null
  BY <1>1, LineFacts DEF Types, Data, Placed, Given, Slots
(* Where the request is put, in both cases *)
<1>3. /\ queue' \in Seq(Slots) /\ Single(line')
      /\ Range(line') \subseteq Range(line) \cup {r} /\ r \in Range(line')
      /\ ~PushBackRace => Range(line') = Range(line) \cup {r}
      /\ state' \in States /\ Bundled' /\ Wired'
  <2>1. CASE state # "inserting"
    <3>1. state' = state /\ queue' = Append(queue, r)
      BY <2>1 DEF Submit
    <3>2. line' = Append(line, r)
      <4>1. bundle \o Append(queue, r) = Append(bundle \o queue, r)
        BY <1>2, SMTT(30)
      <4> QED BY <1>1, <3>1, <4>1 DEF line
    <3>3. Range(line') = Range(line) \cup {r} /\ Single(line')
      BY <1>2, <3>2, AppendFacts
    <3>4. queue' \in Seq(Slots) /\ queue' # <<>>
      BY <1>2, <3>1
    <3> QED BY <1>1, <3>1, <3>3, <3>4 DEF Types, Bundled, Wired
  <2>2. CASE state = "inserting"
    <3>1. /\ state' = "raced" /\ PushBackRace /\ queue # <<>>
          /\ queue' = [queue EXCEPT ![Len(queue)] = r]
      BY <1>1, <2>2 DEF Submit, Bundled
    <3>2. Len(queue) \in 1..Len(queue) /\ Len(queue) \in Nat \ {0}
      BY <1>2, <3>1, EmptySeq
    <3> DEFINE q == queue'
    <3>3. /\ q \in Seq(Slots) /\ Len(q) = Len(queue)
          /\ \A i \in 1..Len(queue) : q[i] = IF i = Len(queue) THEN r ELSE queue[i]
      BY <1>2, <3>1, <3>2, ExceptSeq
    <3>4. DOMAIN q = 1..Len(queue) /\ DOMAIN queue = 1..Len(queue)
      BY <1>2, <3>3, LenProperties, SMTT(30)
    <3> HIDE DEF q
    <3>5. Range(q) \subseteq Range(queue) \cup {r} /\ r \in Range(q)
      BY <3>2, <3>3, <3>4, ZenonT(60) DEF Range
    <3>6. Single(q)
      <4> SUFFICES ASSUME NEW i \in DOMAIN q, NEW j \in DOMAIN q, q[i] = q[j], q[i] # Null
                   PROVE  i = j
        BY DEF Single
      <4>1. \A k \in DOMAIN queue : queue[k] # r
        BY <1>2 DEF Range
      <4> QED BY <1>2, <3>3, <3>4, <4>1 DEF Single
    <3>7. /\ Range(bundle \o q) = Range(bundle) \cup Range(q)
          /\ Single(bundle \o q)
      <4>1. \A x \in Range(bundle) \cap Range(q) : x = Null
        BY <1>2, <3>5
      <4> QED BY <1>2, <3>3, <3>6, <4>1, ConcatFacts
    <3>8. line' = bundle \o q
      BY <1>1 DEF line, q
    <3>9. q # <<>>
      BY <3>5, EmptyFacts
    <3>10. Bundled' /\ Wired'
      BY <1>1, <2>2, <3>1, <3>9 DEF Bundled, Wired, Pushing, Closings, q
    <3>11. state' \in States
      BY <3>1 DEF States, ProcessStates
    <3> QED BY <1>2, <3>1, <3>3, <3>5, <3>7, <3>8, <3>10, <3>11 DEF q
  <2> QED BY <2>1, <2>2
<1>4. Placed' /\ Given' /\ AnswerMatches'
  BY <1>1, <1>2, <1>3 DEF Data, Placed, Given, AnswerMatches
<1>5. ASSUME NEW x \in Requests
      PROVE  /\ refs'[x] \in Nat /\ refs'[x] >= Owners(x)'
             /\ ~PushBackRace /\ ~UnpackFails => refs'[x] = Owners(x)'
  <2>1. /\ refs[x] \in Nat /\ refs[x] >= Owners(x)
        /\ ~PushBackRace /\ ~UnpackFails => refs[x] = Owners(x)
    BY <1>1 DEF Types, Data, Counted
  <2>2. refs'[x] = IF x = r THEN 2 ELSE refs[x]
    BY <1>1 DEF Types
  <2>3. CASE x = r
    <3>1. Owners(x)' = 2
      BY <1>1, <1>3, <2>3 DEF Owners
    <3> QED BY <2>2, <2>3, <3>1
  <2>4. CASE x # r
    <3>1. /\ Owners(x) \in Nat /\ Owners(x)' \in Nat /\ Owners(x)' <= Owners(x)
          /\ ~PushBackRace => Owners(x)' = Owners(x)
      BY <1>1, <1>3, <2>4 DEF Owners
    <3> HIDE DEF Owners
    <3> QED BY <2>1, <2>2, <2>4, <3>1
  <2> QED BY <2>3, <2>4
<1>6. Types'
  <2>1. refs' \in [Requests -> Nat]
    BY <1>1 DEF Types
  <2> QED BY <1>1, <1>3, <2>1 DEF Types
<1> QED BY <1>3, <1>4, <1>5, <1>6 DEF IInv, Counted

LEMMA ReleaseKeeps ==
  ASSUME IInv, NEW r \in Requests, Release(r)
  PROVE  IInv'
<1>1. /\ Types /\ Data /\ Bundled /\ Wired /\ r \in held
      /\ aborted' = aborted \cup {r} /\ held' = held \ {r} /\ refs' = [refs EXCEPT ![r] = refs[r] - 1]
      /\ UNCHANGED <<state, queue, bundle, wire, submitted, got, stop>>
  BY DEF IInv, Data, Release
<1>2. line' = line
  BY <1>1 DEF line
<1>3. Placed' /\ Given' /\ AnswerMatches'
  BY <1>1, <1>2 DEF Types, Data, Placed, Given, AnswerMatches
<1>4. ASSUME NEW x \in Requests
      PROVE  /\ refs'[x] \in Nat /\ refs'[x] >= Owners(x)'
             /\ ~PushBackRace /\ ~UnpackFails => refs'[x] = Owners(x)'
  <2>1. /\ refs[x] \in Nat /\ refs[x] >= Owners(x)
        /\ ~PushBackRace /\ ~UnpackFails => refs[x] = Owners(x)
    BY <1>1 DEF Types, Data, Counted
  <2>2. refs'[x] = IF x = r THEN refs[x] - 1 ELSE refs[x]
    BY <1>1 DEF Types
  <2>3. /\ Owners(x)' = IF x = r THEN Owners(x) - 1 ELSE Owners(x)
        /\ Owners(x) \in Nat /\ (x = r => Owners(x) > 0)
    BY <1>1, <1>2 DEF Owners
  <2> HIDE DEF Owners
  <2> QED BY <2>1, <2>2, <2>3
<1>5. Types' /\ Bundled' /\ Wired'
  <2>1. refs' = [x \in Requests |-> refs'[x]]
    BY <1>1 DEF Types
  <2>2. refs' \in [Requests -> Nat]
    BY <1>4, <2>1
  <2> QED BY <1>1, <2>2 DEF Types, Bundled, Wired
<1> QED BY <1>3, <1>4, <1>5 DEF IInv, Counted

LEMMA StopKeeps ==
  ASSUME IInv, Destroy \/ LibraryStop
  PROVE  IInv'
<1>1. /\ UNCHANGED <<state, queue, bundle, wire, submitted, held, aborted, got, refs>>
      /\ stop' \subseteq stop \cup {"session", "library"}
      /\ "session" \in stop' => "session" \in stop \/ held = {}
  BY DEF Destroy, LibraryStop, tags
<1>2. line' = line
  BY <1>1 DEF line
<1>3. Placed' /\ Given' /\ AnswerMatches'
  BY <1>1, <1>2 DEF IInv, Placed, Given, AnswerMatches
<1>4. Counted'
  BY <1>1, <1>2 DEF IInv, Counted, Owners
<1>5. Types' /\ Bundled' /\ Wired'
  BY <1>1 DEF IInv, Types, Bundled, Wired
<1> QED BY <1>3, <1>4, <1>5 DEF IInv

(* When the thread has ended nothing is held any more, so what is left in  *)
(* the queue has no other owner.                                           *)
LEMMA JoinKeeps ==
  ASSUME IInv, Join
  PROVE  IInv'
<1>1. /\ Types /\ Data /\ bundle = <<>> /\ bundle' = <<>> /\ held = {} /\ state' = "gone"
      /\ queue' = <<>> /\ wire' = <<>> /\ UNCHANGED <<submitted, held, aborted, got, stop>>
      /\ refs' = [r \in Requests |-> IF r \in Range(queue) THEN refs[r] - 1 ELSE refs[r]]
  BY DEF IInv, Data, Join, Bundled, Given, Pushing, tags
<1>2. /\ Range(line) = Range(queue) /\ line' = <<>> /\ Range(line') = {} /\ Single(line')
      /\ <<>> \in Seq(Slots) /\ <<>> \in Seq(Seq(Requests))
  <2>1. <<>> \o queue = queue /\ <<>> \o <<>> = <<>>
    BY <1>1, LineFacts, ConcatEmptySeq, EmptySeq
  <2> QED BY <1>1, <2>1, EmptyFacts DEF line
<1>3. Placed' /\ Given' /\ AnswerMatches'
  BY <1>1, <1>2 DEF Data, Placed, Given, AnswerMatches
<1>4. ASSUME NEW x \in Requests
      PROVE  /\ refs'[x] \in Nat /\ refs'[x] >= Owners(x)'
             /\ ~PushBackRace /\ ~UnpackFails => refs'[x] = Owners(x)'
  <2>1. /\ refs[x] \in Nat /\ refs[x] >= Owners(x)
        /\ ~PushBackRace /\ ~UnpackFails => refs[x] = Owners(x)
    BY <1>1 DEF Types, Data, Counted
  <2>2. refs'[x] = IF x \in Range(queue) THEN refs[x] - 1 ELSE refs[x]
    BY <1>1
  <2>3. Owners(x)' = 0 /\ Owners(x) = IF x \in Range(queue) THEN 1 ELSE 0
    BY <1>1, <1>2 DEF Owners
  <2> QED BY <2>1, <2>2, <2>3
<1>5. Types' /\ Bundled' /\ Wired'
  <2>1. refs' = [x \in Requests |-> refs'[x]]
    BY <1>1
  <2>2. refs' \in [Requests -> Nat]
    BY <1>4, <2>1
  <2> QED BY <1>1, <1>2, <2>2 DEF Types, Bundled, Wired, States, Pushing
<1> QED BY <1>3, <1>4, <1>5 DEF IInv, Counted

-----------------------------------------------------------------------------
LEMMA InitInvariant ==
  ASSUME Init
  PROVE  IInv
<1>1. line = <<>> /\ Range(line) = {} /\ Single(line)
  <2>1. <<>> \o <<>> = <<>>
    BY EmptySeq, ConcatEmptySeq
  <2> QED BY <2>1, EmptyFacts DEF Init, line
<1>2. Types
  <2>1. /\ <<>> \in Seq(Slots) /\ <<>> \in Seq(Requests) /\ <<>> \in Seq(Seq(Requests))
    BY EmptySeq
  <2> QED BY <2>1 DEF Init, Types, States, LoopStates, Slots
<1>3. Bundled /\ Wired
  BY DEF Init, Bundled, Wired
<1>4. Placed /\ Given /\ AnswerMatches
  BY <1>1 DEF Init, Placed, Given, AnswerMatches
<1>5. Counted
  BY <1>1 DEF Init, Counted, Owners
<1> QED BY <1>2, <1>3, <1>4, <1>5 DEF IInv

LEMMA NextKeeps ==
  ASSUME IInv, [Next]_vars
  PROVE  IInv'
<1>1. CASE OpenSocket \/ Register \/ SendForwardOpen \/ Idle \/ Disconnect \/ Retry \/ WaitReconnect
  BY <1>1, LoopKeeps
<1>2. CASE ForwardOpenReply
  BY <1>2, LoopKeeps, StopWaitingKeeps DEF ForwardOpenReply
<1>3. CASE Take \/ Send \/ Receive \/ UnpackReply
  BY <1>3, BothTakeSome, TakeKeeps, SendKeeps, ReceiveKeeps, UnpackKeeps, UnpackFailKeeps DEF UnpackReply
<1>4. CASE PushBack \/ Inserted \/ PushedBack
  BY <1>4, PushBackKeeps, InsertedKeeps, PushedBackKeeps
<1>5. CASE CloseSocket \/ Exit
  BY <1>5, ClosingKeeps
<1>6. CASE \E r \in Requests : Submit(r) \/ Release(r)
  BY <1>6, SubmitKeeps, ReleaseKeeps
<1>7. CASE Destroy \/ LibraryStop \/ Join
  BY <1>7, StopKeeps, JoinKeeps
<1>8. CASE UNCHANGED vars
  <2>1. /\ UNCHANGED <<queue, bundle, submitted, held, aborted, got, refs, stop>>
        /\ state' = state /\ wire' = wire
    BY <1>8 DEF vars, tags
  <2>2. Bundled' /\ Wired' /\ state' \in States /\ wire' \in Seq(Seq(Requests))
    BY <2>1 DEF IInv, Bundled, Wired, Types
  <2> QED BY <2>1, <2>2, StillKeeps
<1> QED BY <1>1, <1>2, <1>3, <1>4, <1>5, <1>6, <1>7, <1>8 DEF Next, Handler

(* The inductive invariant holds for any requests, packet sizes, faults of *)
(* the network and refusals of the PLC.                                    *)
THEOREM SessionInvariant == Spec => []IInv
<1>1. Init => IInv
  BY InitInvariant
<1>2. IInv /\ [Next]_vars => IInv'
  BY NextKeeps
<1> QED BY <1>1, <1>2, PTL DEF Spec

(* No request is freed while its tag, the queue or the bundle still has    *)
(* it: also when a reply does not fit, and when an insertion without the   *)
(* mutex overwrites a request.                                             *)
THEOREM NotFreedEarly == Spec => []NeverFreedEarly
<1>1. IInv => NeverFreedEarly
  BY HoldersAreOwners DEF IInv, Counted, NeverFreedEarly
<1> QED BY <1>1, SessionInvariant, PTL

(* No request is leaked either: every count is exact, unless a reply does  *)
(* not fit in its request's buffer or a tag adds a request during          *)
(* vector_insert(), the two places where the code loses one.               *)
THEOREM CountsExact ==
  ASSUME PushBackRace = FALSE, UnpackFails = FALSE
  PROVE  Spec => []RefsExact
<1>1. IInv => RefsExact
  BY HoldersAreOwners DEF IInv, Counted, RefsExact
<1> QED BY <1>1, SessionInvariant, PTL

(* Whatever is lost, late, refused or aborted, a request is only ever      *)
(* given the reply to itself.                                              *)
THEOREM AnswersMatch == Spec => []AnswerMatches
<1>1. IInv => AnswerMatches
  BY DEF IInv
<1> QED BY <1>1, SessionInvariant, PTL

-----------------------------------------------------------------------------
(* The session is a RequestFifo: what waits is the bundle and the queue    *)
(* without the aborted requests, however the handler moves requests        *)
(* between the two, and whatever it purges.                                *)
waiting == Without(line, aborted)
told == {r \in held : got[r] # Null}

LEMMA PromiseWithout ==
  ASSUME NEW q, NEW S
  PROVE  Promise!Without(q, S) = Without(q, S)
BY DEF Promise!Without, Promise!Keeping, Without, Keeping

LEMMA NothingLeft ==
  ASSUME NEW T, NEW q \in Seq(T), NEW S, Range(q) \subseteq S
  PROVE  Without(q, S) = <<>>
<1> DEFINE w == Without(q, S)
<1>1. w \in Seq(T) /\ Range(w) = {}
  BY WithoutFacts
<1> HIDE DEF w
<1>2. ASSUME w # <<>> PROVE FALSE
  <2>1. Head(w) = w[1] /\ Len(w) \in Nat \ {0} /\ DOMAIN w = 1..Len(w)
    BY <1>1, <1>2, TailFacts, LenProperties
  <2>2. w[1] \in Range(w)
    BY <2>1 DEF Range
  <2> QED BY <1>1, <2>2
<1> QED BY <1>2 DEF w

LEMMA WithoutOne ==
  ASSUME NEW T, NEW x \in T, NEW S
  PROVE  Without(<<x>>, S) = IF x \in S THEN <<>> ELSE <<x>>
<1>1. Append(<<>>, x) = <<x>> /\ <<>> \in Seq(T)
  BY SingletonFacts, EmptySeq
<1>2. Without(Append(<<>>, x), S) = IF x \in S THEN Without(<<>>, S) ELSE Append(Without(<<>>, S), x)
  BY <1>1, WithoutAppend, ZenonT(60)
<1>3. Without(<<>>, S) = <<>>
  BY WithoutEmpty
<1> QED BY ONLY <1>1, <1>2, <1>3

(* What the queue does to its own is not seen from outside. *)
LEMMA FifoStill ==
  ASSUME waiting' = waiting, told' = told, submitted' = submitted
  PROVE  UNCHANGED Promise!vars
BY DEF Promise!vars, waiting, told, line

LEMMA FifoSameLine ==
  ASSUME line' = line, UNCHANGED <<submitted, held, aborted, got>>
  PROVE  UNCHANGED Promise!vars
<1>1. waiting' = waiting /\ told' = told
  BY DEF waiting, told
<1> QED BY <1>1, FifoStill

LEMMA FifoPurge ==
  ASSUME Types, line' = bundle \o Purged, UNCHANGED <<submitted, held, aborted, got>>
  PROVE  UNCHANGED Promise!vars
<1> DEFINE b == bundle
           q == queue
           A == aborted
<1>1. b \in Seq(Slots) /\ q \in Seq(Slots) /\ Without(q, A) \in Seq(Slots)
  BY LineFacts, WithoutFacts
<1>2. line = b \o q /\ line' = b \o Without(q, A) /\ aborted' = A
  BY DEF line, Purged
<1> HIDE DEF b, q, A
<1>3. Without(Without(q, A), A) = Without(q, A)
  <2>1. Without(Without(q, A), A) = Without(q, A \cup A)
    BY <1>1, WithoutTwice
  <2>2. A \cup A = A
    OBVIOUS
  <2> QED BY ONLY <2>1, <2>2
<1>4. Without(b \o Without(q, A), A) = Without(b, A) \o Without(Without(q, A), A)
  BY ONLY <1>1, WithoutConcat
<1>5. Without(b \o q, A) = Without(b, A) \o Without(q, A)
  BY ONLY <1>1, WithoutConcat
<1>6. Without(line', aborted') = Without(line, A)
  BY ONLY <1>2, <1>3, <1>4, <1>5
<1>7. waiting' = waiting
  BY <1>6 DEF waiting, A
<1>8. told' = told
  BY DEF told
<1> QED BY <1>7, <1>8, FifoStill

LEMMA FifoSubmit ==
  ASSUME IInv, PushBackRace = FALSE, NEW r \in Requests, Submit(r)
  PROVE  Promise!Submit(r)
<1>1. /\ state # "inserting" /\ queue' = Append(queue, r) /\ bundle' = bundle /\ r \notin submitted
      /\ submitted' = submitted \cup {r} /\ held' = held \cup {r} /\ UNCHANGED <<aborted, got>>
  BY DEF Submit
<1>2. /\ bundle \in Seq(Slots) /\ queue \in Seq(Slots) /\ line \in Seq(Slots) /\ r \in Slots
      /\ r \notin aborted /\ got[r] = Null
  BY <1>1, LineFacts DEF IInv, Types, Given, Slots
<1>3. line' = Append(line, r)
  <2>1. bundle \o Append(queue, r) = Append(bundle \o queue, r)
    BY <1>2
  <2> QED BY <1>1, <2>1 DEF line
<1>4. waiting' = Append(waiting, r)
  <2>1. Without(Append(line, r), aborted) = Append(Without(line, aborted), r)
    BY <1>2, WithoutAppend
  <2> QED BY <1>1, <1>3, <2>1 DEF waiting
<1>5. told' = told
  BY <1>1, <1>2 DEF told
<1> QED BY <1>1, <1>4, <1>5 DEF Promise!Submit, waiting, told, line

LEMMA FifoRelease ==
  ASSUME IInv, NEW r \in Requests, Release(r)
  PROVE  Promise!TakeBack(r)
<1>1. /\ aborted' = aborted \cup {r} /\ held' = held \ {r} /\ UNCHANGED <<queue, bundle, submitted, got>>
  BY DEF Release
<1>2. line \in Seq(Slots) /\ line' = line
  BY <1>1, LineFacts DEF IInv, line
<1>3. waiting' = Without(waiting, {r})
  <2>1. Without(Without(line, aborted), {r}) = Without(line, aborted \cup {r})
    BY <1>2, WithoutTwice
  <2> QED BY <1>1, <1>2, <2>1 DEF waiting
<1>4. told' = told \ {r}
  BY <1>1 DEF told
<1>5. waiting' = Promise!Without(waiting, {r})
  BY <1>3, PromiseWithout
<1> QED BY <1>1, <1>4, <1>5 DEF Promise!TakeBack, waiting, told, line

(* The reply is given to the first that waits, or to nobody if that one    *)
(* is aborted.                                                             *)
LEMMA FifoUnpack ==
  ASSUME IInv, Unpack
  PROVE  Promise!Answer \/ UNCHANGED Promise!vars
<1> DEFINE r == Head(bundle)
           l == line'
<1>1. /\ IInv' /\ r \in submitted /\ got' = [got EXCEPT ![r] = r] /\ line = <<r>> \o l
      /\ UNCHANGED <<submitted, held, aborted>>
  BY UnpackKeeps
<1>2. /\ r \in Requests /\ r # Null /\ r \in Slots /\ l \in Seq(Slots) /\ <<r>> \in Seq(Slots)
  <2>1. r \in Requests
    BY <1>1 DEF IInv, Types
  <2>3. l \in Seq(Slots)
    BY UnpackKeeps
  <2> HIDE DEF r, l
  <2> QED BY <2>1, <2>3, RequestAssumption DEF Slots
<1> HIDE DEF r, l
<1>3. /\ waiting' = Without(l, aborted)
      /\ waiting = Without(<<r>>, aborted) \o Without(l, aborted)
      /\ Without(l, aborted) \in Seq(Slots)
  <2>1. Without(<<r>> \o l, aborted) = Without(<<r>>, aborted) \o Without(l, aborted)
    <3>1. PICK p \in Seq(Slots) : p = <<r>>
      BY <1>2
    <3>2. PICK k \in Seq(Slots) : k = l
      BY <1>2
    <3>3. p \in Seq(Slots) /\ k \in Seq(Slots)
      OBVIOUS
    <3>4. Without(p \o k, aborted) = Without(p, aborted) \o Without(k, aborted)
      BY ONLY <3>3, WithoutConcat
    <3> QED BY <3>1, <3>2, <3>4
  <2>2. Without(l, aborted) \in Seq(Slots)
    BY <1>2, WithoutFacts
  <2> QED BY <1>1, <2>1, <2>2 DEF waiting, l
<1>4. Without(<<r>>, aborted) = IF r \in aborted THEN <<>> ELSE <<r>>
  BY <1>2, WithoutOne
<1>5. CASE r \in aborted
  <2>1. waiting' = waiting
    BY <1>3, <1>4, <1>5, ConcatEmptySeq
  <2>2. told' = told
    <3>1. r \notin held
      BY <1>5 DEF IInv, Given
    <3> QED BY <1>1, <3>1 DEF told, IInv, Types
  <2> QED BY <1>1, <2>1, <2>2, FifoStill
<1>6. CASE r \notin aborted
  <2> DEFINE w == Without(l, aborted)
  <2>1. waiting = <<r>> \o w /\ waiting' = w /\ w \in Seq(Slots)
    BY <1>3, <1>4, <1>6
  <2> HIDE DEF w
  <2>2. /\ <<r>> \o w # <<>> /\ Head(<<r>> \o w) = r /\ Tail(<<r>> \o w) = w
    BY <1>2, <2>1, FirstOf
  <2>3. told' = told \cup {r}
    <3>1. r \in held
      BY <1>1, <1>6 DEF IInv, Given
    <3> QED BY <1>1, <1>2, <3>1 DEF told, IInv, Types
  <2>4. waiting # <<>> /\ Head(waiting) = r /\ Tail(waiting) = waiting'
    BY ONLY <2>1, <2>2
  <2>5. Promise!Answer
    BY <1>1, <2>3, <2>4 DEF Promise!Answer, waiting, told, line
  <2> QED BY <2>5
<1> QED BY <1>5, <1>6

(* When the session ends, every request left in its queue is aborted. *)
LEMMA FifoJoin ==
  ASSUME IInv, PushBackRace = FALSE, Join
  PROVE  UNCHANGED Promise!vars
<1>1. /\ held = {} /\ queue' = <<>> /\ bundle = <<>> /\ bundle' = <<>>
      /\ UNCHANGED <<submitted, held, aborted, got>>
  BY DEF IInv, Join, Bundled, Given, Pushing, tags
<1>2. line \in Seq(Slots) /\ Range(line) \subseteq aborted
  BY <1>1, LineFacts DEF IInv, Placed, Given
<1>3. waiting = <<>>
  BY <1>2, NothingLeft DEF waiting
<1>4. line' = <<>>
  <2>1. <<>> \o <<>> = <<>>
    BY EmptySeq, ConcatEmptySeq
  <2> QED BY <1>1, <2>1 DEF line
<1>5. waiting' = <<>>
  BY <1>4, WithoutEmpty DEF waiting
<1>6. told' = told
  BY <1>1 DEF told
<1> QED BY <1>1, <1>3, <1>5, <1>6, FifoStill

LEMMA FifoInit ==
  ASSUME Init
  PROVE  Promise!Init
<1>1. line = <<>>
  <2>1. <<>> \o <<>> = <<>>
    BY EmptySeq, ConcatEmptySeq
  <2> QED BY <2>1 DEF Init, line
<1>2. waiting = <<>>
  BY <1>1, WithoutEmpty DEF waiting
<1>3. told = {}
  BY DEF Init, told
<1> QED BY <1>2, <1>3 DEF Init, Promise!Init, waiting, told, line

LEMMA FifoTurn ==
  ASSUME IInv,
         \/ OpenSocket \/ Register \/ SendForwardOpen \/ ForwardOpened \/ ForwardOpenTooLarge
         \/ ForwardOpenUnsupported \/ ForwardOpenRefused \/ ForwardOpenSilent \/ Idle
         \/ Disconnect \/ Retry \/ WaitReconnect \/ CloseSocket \/ Exit
  PROVE  UNCHANGED Promise!vars
<1>1. Purge /\ UNCHANGED <<bundle, submitted, held, aborted, got>>
  <2>1. CASE Exit
    BY <2>1 DEF Exit, tags
  <2>2. CASE OpenSocket
    BY <2>2 DEF OpenSocket, Turn, tags
  <2>3. CASE Register
    BY <2>3 DEF Register, Turn, tags
  <2>4. CASE SendForwardOpen
    BY <2>4 DEF SendForwardOpen, Turn, tags
  <2>5. CASE ForwardOpened \/ ForwardOpenTooLarge \/ ForwardOpenUnsupported
    BY <2>5 DEF ForwardOpened, ForwardOpenTooLarge, ForwardOpenUnsupported, Turn, tags
  <2>6. CASE ForwardOpenRefused \/ ForwardOpenSilent
    BY <2>6 DEF ForwardOpenRefused, ForwardOpenSilent, Turn, tags
  <2>7. CASE Idle \/ Disconnect \/ Retry
    BY <2>7 DEF Idle, Disconnect, Retry, Turn, tags
  <2>8. CASE WaitReconnect \/ CloseSocket
    BY <2>8 DEF WaitReconnect, CloseSocket, Turn, tags
  <2> QED BY <2>1, <2>2, <2>3, <2>4, <2>5, <2>6, <2>7, <2>8
<1>2. line' = bundle \o Purged
  BY <1>1 DEF Purge, line
<1> QED BY <1>1, <1>2, FifoPurge DEF IInv

LEMMA FifoMove ==
  ASSUME IInv, PushBackRace = FALSE,
         \/ StopWaiting \/ TakeSome \/ Send \/ Receive \/ PushBack \/ Inserted \/ PushedBack
         \/ Destroy \/ LibraryStop \/ UNCHANGED vars
  PROVE  UNCHANGED Promise!vars
<1>1. CASE TakeSome
  <2>1. line' = bundle \o Purged
    BY <1>1, TakeKeeps
  <2>2. UNCHANGED <<submitted, held, aborted, got>>
    BY <1>1 DEF TakeSome, tags
  <2> QED BY <2>1, <2>2, FifoPurge DEF IInv
<1>2. CASE PushBack
  <2>1. line' = line
    BY <1>2, PushBackLine DEF IInv
  <2>2. UNCHANGED <<submitted, held, aborted, got>>
    BY <1>2 DEF PushBack, tags
  <2> QED BY <2>1, <2>2, FifoSameLine
<1>3. CASE Inserted
  <2>1. queue' = queue /\ UNCHANGED <<bundle, submitted, held, aborted, got>>
    <3>1. state # "raced"
      BY DEF IInv, Bundled
    <3> QED BY <1>3, <3>1 DEF Inserted, tags
  <2>2. line' = line
    BY <2>1 DEF line
  <2> QED BY <2>1, <2>2, FifoSameLine
<1>4. CASE \/ StopWaiting \/ Send \/ Receive \/ PushedBack \/ Destroy \/ LibraryStop
           \/ UNCHANGED vars
  <2>1. UNCHANGED <<queue, bundle, submitted, held, aborted, got>>
    BY <1>4 DEF StopWaiting, Send, Receive, PushedBack, Destroy, LibraryStop, vars, tags
  <2>2. line' = line
    BY <2>1 DEF line
  <2> QED BY <2>1, <2>2, FifoSameLine
<1> QED BY <1>1, <1>2, <1>3, <1>4

LEMMA FifoStep ==
  ASSUME IInv, PushBackRace = FALSE, UnpackFails = FALSE, [Next]_vars
  PROVE  [Promise!Next]_(Promise!vars)
<1>1. CASE \/ OpenSocket \/ Register \/ SendForwardOpen \/ Idle \/ Disconnect \/ Retry
           \/ WaitReconnect \/ CloseSocket \/ Exit
  BY <1>1, FifoTurn
<1>2. CASE ForwardOpenReply
  BY <1>2, FifoTurn, FifoMove DEF ForwardOpenReply
<1>3. CASE \/ Take \/ Send \/ Receive \/ PushBack \/ Inserted \/ PushedBack
           \/ Destroy \/ LibraryStop \/ UNCHANGED vars
  BY <1>3, FifoMove, BothTakeSome
<1>4. CASE UnpackReply
  <2>1. Unpack
    BY <1>4 DEF UnpackReply, UnpackFail
  <2>2. Promise!Answer \/ UNCHANGED Promise!vars
    BY <2>1, FifoUnpack
  <2> QED BY <2>2 DEF Promise!Next
<1>5. ASSUME NEW r \in Requests, Submit(r) PROVE Promise!Next
  BY <1>5, FifoSubmit DEF Promise!Next
<1>6. ASSUME NEW r \in Requests, Release(r) PROVE Promise!Next
  BY <1>6, FifoRelease DEF Promise!Next
<1>7. CASE Join
  BY <1>7, FifoJoin
<1> QED BY <1>1, <1>2, <1>3, <1>4, <1>5, <1>6, <1>7 DEF Next, Handler

(* The session implements a first-in first-out queue of requests, each     *)
(* answered at most once and in order, through reconnects, retries, late   *)
(* and lost replies and other tags' aborts: provided no reply is too large *)
(* for its buffer and no tag adds a request during vector_insert().        *)
THEOREM SessionIsFifo ==
  ASSUME PushBackRace = FALSE, UnpackFails = FALSE
  PROVE  Spec => ImplementsFifo
<1>1. Init => Promise!Init
  BY FifoInit
<1>2. IInv /\ [Next]_vars => [Promise!Next]_(Promise!vars)
  BY FifoStep
<1> QED BY <1>1, <1>2, SessionInvariant, PTL DEF Spec, ImplementsFifo, Promise!Spec

-----------------------------------------------------------------------------
(* An Omron connection differs in what goes into one packet. *)

LEMMA ConnSteps ==
  ASSUME ConnNext
  PROVE  ConnTake \/ Next
<1>1. CASE ConnHandler
  <2>1. CASE \/ ConnOpenSocket \/ ConnRegister \/ ConnSendForwardOpen \/ ConnIdle
             \/ ConnSend \/ ConnReceive \/ ConnDisconnect \/ ConnCloseSocket \/ ConnRetry
             \/ ConnWaitReconnect \/ ConnExit \/ ConnInserted
    BY <2>1 DEF ConnOpenSocket, ConnRegister, ConnSendForwardOpen, ConnIdle, ConnSend,
                ConnReceive, ConnDisconnect, ConnCloseSocket, ConnRetry, ConnWaitReconnect,
                ConnExit, ConnInserted, Next, Handler
  <2>2. CASE ConnForwardOpened \/ ConnForwardOpenSilent
    <3>1. state \in {"RECEIVE_FORWARD_OPEN", "silent"}
      BY <2>2 DEF ConnForwardOpened, ConnForwardOpenSilent, ForwardOpened, ForwardOpenTooLarge,
           ForwardOpenUnsupported, ForwardOpenRefused, ForwardOpenSilent, StopWaiting, Turn
    <3> QED BY <2>2, <3>1 DEF ConnForwardOpened, ConnForwardOpenSilent, ForwardOpenReply,
                              Next, Handler
  <2>3. CASE ConnUnpack \/ ConnUnpackFail
    <3>1. state = "unpack"
      BY <2>3 DEF ConnUnpack, ConnUnpackFail, Unpack, UnpackFail
    <3> QED BY <2>3, <3>1 DEF ConnUnpack, ConnUnpackFail, UnpackReply, Next, Handler
  <2>4. CASE ConnPushBack
    BY <2>4 DEF ConnPushBack, Next, Handler
  <2> QED BY <1>1, <2>1, <2>2, <2>3, <2>4 DEF ConnHandler
<1> QED BY <1>1 DEF ConnNext, ConnSubmit, ConnDestroy, ConnJoin, Next

LEMMA EitherKeeps ==
  ASSUME IInv, [EitherNext]_eitherVars
  PROVE  IInv'
<1>1. CASE ConnTake
  BY <1>1, BothTakeSome, TakeKeeps
<1>2. CASE [Next]_vars
  BY <1>2, NextKeeps
<1> QED BY <1>1, <1>2, ConnSteps DEF EitherNext, eitherVars

LEMMA EitherFifoStep ==
  ASSUME IInv, PushBackRace = FALSE, UnpackFails = FALSE, [EitherNext]_eitherVars
  PROVE  [Promise!Next]_(Promise!vars)
<1>1. CASE ConnTake
  BY <1>1, BothTakeSome, FifoMove
<1>2. CASE [Next]_vars
  BY <1>2, FifoStep
<1> QED BY <1>1, <1>2, ConnSteps DEF EitherNext, eitherVars

(* The same holds of an Omron connection: a request is only ever given the *)
(* reply to itself, and none is freed while it can still be reached.       *)
THEOREM EitherInvariant == EitherSpec => []IInv /\ []NeverFreedEarly /\ []AnswerMatches
<1>1. EitherInit => IInv
  BY InitInvariant DEF EitherInit
<1>2. IInv /\ [EitherNext]_eitherVars => IInv'
  BY EitherKeeps
<1>3. IInv => NeverFreedEarly /\ AnswerMatches
  BY HoldersAreOwners DEF IInv, Counted, NeverFreedEarly
<1> QED BY <1>1, <1>2, <1>3, PTL DEF EitherSpec

(* ... and it too implements the first-in first-out queue, with exact      *)
(* counts, under the same two conditions.                                  *)
THEOREM EitherIsFifo ==
  ASSUME PushBackRace = FALSE, UnpackFails = FALSE
  PROVE  EitherSpec => ImplementsFifo /\ []RefsExact
<1>1. EitherInit => Promise!Init
  BY FifoInit DEF EitherInit
<1>2. IInv /\ [EitherNext]_eitherVars => [Promise!Next]_(Promise!vars)
  BY EitherFifoStep
<1>3. IInv => RefsExact
  BY HoldersAreOwners DEF IInv, Counted, RefsExact
<1> QED BY <1>1, <1>2, <1>3, EitherInvariant, PTL DEF EitherSpec, ImplementsFifo, Promise!Spec

=============================================================================
