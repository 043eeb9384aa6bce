---------------------------- MODULE QueueLemmas ----------------------------
(***************************************************************************)
(* What the proofs need to know of a queue: its elements, the last of them *)
(* and their order, after something is appended and after the first is     *)
(* taken; and of a set of numbers.                                         *)
(***************************************************************************)
EXTENDS SequencesExt, Subsequences, SequenceTheorems, WellFoundedInduction, TLAPS

Elements(queue) == {queue[i] : i \in 1 .. Len(queue)}
LastOf(queue) == queue[Len(queue)]

\* The last elements of the given types; at most one, if they are all the same.
Finals(queue, types) ==
  {queue[i] : i \in {i \in 1 .. Len(queue) :
     /\ queue[i].type \in types
     /\ \A j \in 1 .. Len(queue) : j > i => queue[j].type \notin types}}

\* Each element of one type is followed by one of the other.
EndsIn(queue, a, b) ==
  \A i \in 1 .. Len(queue) : queue[i].type = a => \E j \in 1 .. Len(queue) : j > i /\ queue[j].type = b

\* The elements of a type come in ascending order.
Ascending(queue, type) ==
  \A i, j \in 1 .. Len(queue) :
    i < j /\ queue[i].type = type /\ queue[j].type = type => queue[i].of < queue[j].of

LEMMA AppendElements ==
  ASSUME NEW S, NEW q \in Seq(S), NEW a \in S
  PROVE  /\ Append(q, a) \in Seq(S) /\ Append(q, a) # <<>>
         /\ Elements(Append(q, a)) = Elements(q) \cup {a}
         /\ LastOf(Append(q, a)) = a
<1>1. /\ Append(q, a) \in Seq(S) /\ Append(q, a) # <<>>
      /\ Len(Append(q, a)) = Len(q) + 1 /\ Len(q) \in Nat
  BY AppendProperties, LenProperties
<1>2. \A i \in 1 .. Len(q) + 1 : Append(q, a)[i] = IF i <= Len(q) THEN q[i] ELSE a
  BY AppendProperties, LenProperties
<1>3. Elements(Append(q, a)) = Elements(q) \cup {a}
  BY <1>1, <1>2 DEF Elements
<1>4. LastOf(Append(q, a)) = a
  BY <1>1, <1>2 DEF LastOf
<1> QED
  BY <1>1, <1>3, <1>4

LEMMA TailElements ==
  ASSUME NEW S, NEW q \in Seq(S), q # <<>>
  PROVE  /\ Tail(q) \in Seq(S) /\ Head(q) \in S
         /\ Head(q) \in Elements(q) /\ Elements(Tail(q)) \subseteq Elements(q)
         /\ Elements(q) \subseteq Elements(Tail(q)) \cup {Head(q)}
         /\ LastOf(q) = IF Tail(q) = <<>> THEN Head(q) ELSE LastOf(Tail(q))
<1>1. /\ Tail(q) \in Seq(S) /\ Head(q) \in S /\ Head(q) = q[1]
      /\ Len(Tail(q)) = Len(q) - 1 /\ Len(q) \in Nat /\ Len(q) >= 1
      /\ \A i \in 1 .. Len(Tail(q)) : Tail(q)[i] = q[i + 1]
  BY HeadTailProperties, LenProperties, EmptySeq
<1>2. Head(q) \in Elements(q) /\ Elements(Tail(q)) \subseteq Elements(q)
  BY <1>1 DEF Elements
<1>3. ASSUME NEW e \in Elements(q) PROVE e \in Elements(Tail(q)) \cup {Head(q)}
  <2>1. PICK i \in 1 .. Len(q) : e = q[i]
    BY DEF Elements
  <2>2. CASE i = 1
    BY <1>1, <2>1, <2>2
  <2>3. CASE i # 1
    <3>1. i - 1 \in 1 .. Len(Tail(q)) /\ Tail(q)[i - 1] = q[i]
      BY <1>1, <2>3
    <3> QED BY <2>1, <3>1 DEF Elements
  <2> QED BY <2>2, <2>3
<1>4. LastOf(q) = IF Tail(q) = <<>> THEN Head(q) ELSE LastOf(Tail(q))
  <2>1. Tail(q) = <<>> <=> Len(q) = 1
    BY <1>1, EmptySeq, LenProperties
  <2>2. CASE Len(q) = 1
    BY <1>1, <2>1, <2>2 DEF LastOf
  <2>3. CASE Len(q) # 1
    BY <1>1, <2>1, <2>3 DEF LastOf
  <2> QED BY <2>2, <2>3
<1> QED
  BY <1>1, <1>2, <1>3, <1>4

LEMMA ConcatTyped ==
  ASSUME NEW S, NEW q \in Seq(S), NEW a \in S, NEW b \in S
  PROVE  q \o <<a, b>> \in Seq(S)
<1>1. <<a, b>> \in Seq(S)
  OBVIOUS
<1> QED
  BY <1>1, ConcatProperties

LEMMA EmptyElements == Elements(<<>>) = {}
  BY DEF Elements

LEMMA AppendFinals ==
  ASSUME NEW S, NEW q \in Seq(S), NEW e \in S, NEW types
  PROVE  /\ e.type \in types => Finals(Append(q, e), types) \subseteq {e}
         /\ e.type \notin types => Finals(Append(q, e), types) \subseteq Finals(q, types)
<1> DEFINE r == Append(q, e)
<1>1. /\ Len(r) = Len(q) + 1 /\ Len(q) \in Nat /\ r[Len(q) + 1] = e
      /\ \A i \in 1 .. Len(q) : r[i] = q[i]
  BY AppendProperties, LenProperties
<1> HIDE DEF r
<1>2. ASSUME e.type \in types, NEW f \in Finals(r, types) PROVE f = e
  BY <1>1, <1>2 DEF Finals
<1>3. ASSUME e.type \notin types, NEW f \in Finals(r, types) PROVE f \in Finals(q, types)
  <2>1. PICK i \in 1 .. Len(r) : /\ f = r[i] /\ r[i].type \in types
                                 /\ \A j \in 1 .. Len(r) : j > i => r[j].type \notin types
    BY <1>3 DEF Finals
  <2>2. i \in 1 .. Len(q)
    BY <1>1, <1>3, <2>1
  <2>3. \A j \in 1 .. Len(q) : j > i => q[j].type \notin types
    BY <1>1, <2>1
  <2> QED BY <1>1, <2>1, <2>2, <2>3 DEF Finals
<1> QED
  BY <1>2, <1>3 DEF r

LEMMA TailFinals ==
  ASSUME NEW S, NEW q \in Seq(S), q # <<>>, NEW types
  PROVE  /\ Finals(Tail(q), types) \subseteq Finals(q, types)
         /\ Head(q).type \in types /\ (\A e \in Elements(Tail(q)) : e.type \notin types)
            => Head(q) \in Finals(q, types)
<1> DEFINE r == Tail(q)
<1>1. /\ Head(q) = q[1] /\ Len(r) = Len(q) - 1 /\ Len(q) \in Nat /\ Len(q) >= 1
      /\ \A i \in 1 .. Len(r) : r[i] = q[i + 1]
  BY HeadTailProperties, LenProperties, EmptySeq
<1> HIDE DEF r
<1>2. ASSUME NEW f \in Finals(r, types) PROVE f \in Finals(q, types)
  <2>1. PICK i \in 1 .. Len(r) : /\ f = r[i] /\ r[i].type \in types
                                 /\ \A j \in 1 .. Len(r) : j > i => r[j].type \notin types
    BY <1>2 DEF Finals
  <2>2. i + 1 \in 1 .. Len(q) /\ q[i + 1] = f
    BY <1>1, <2>1
  <2>3. ASSUME NEW j \in 1 .. Len(q), j > i + 1 PROVE q[j].type \notin types
    <3>1. j - 1 \in 1 .. Len(r) /\ j - 1 > i /\ r[j - 1] = q[j]
      BY <1>1, <2>3
    <3> QED BY <2>1, <3>1
  <2> QED BY <2>1, <2>2, <2>3 DEF Finals
<1>3. ASSUME Head(q).type \in types, \A e \in Elements(r) : e.type \notin types
      PROVE  Head(q) \in Finals(q, types)
  <2>1. ASSUME NEW j \in 1 .. Len(q), j > 1 PROVE q[j].type \notin types
    <3>1. j - 1 \in 1 .. Len(r) /\ r[j - 1] = q[j]
      BY <1>1, <2>1
    <3> QED BY <1>3, <3>1 DEF Elements
  <2> QED BY <1>1, <1>3, <2>1 DEF Finals
<1> QED
  BY <1>2, <1>3 DEF r

LEMMA AppendEndsIn ==
  ASSUME NEW S, NEW q \in Seq(S), NEW e \in S, NEW a, NEW b, a # b
  PROVE  /\ e.type = b => EndsIn(Append(q, e), a, b)
         /\ e.type # a /\ EndsIn(q, a, b) => EndsIn(Append(q, e), a, b)
<1> DEFINE r == Append(q, e)
<1>1. /\ Len(r) = Len(q) + 1 /\ Len(q) \in Nat /\ r[Len(q) + 1] = e
      /\ \A i \in 1 .. Len(q) : r[i] = q[i]
  BY AppendProperties, LenProperties
<1> HIDE DEF r
<1>2. ASSUME e.type = b PROVE EndsIn(r, a, b)
  BY <1>1, <1>2 DEF EndsIn
<1>3. ASSUME e.type # a, EndsIn(q, a, b) PROVE EndsIn(r, a, b)
  <2> SUFFICES ASSUME NEW i \in 1 .. Len(r), r[i].type = a
               PROVE  \E j \in 1 .. Len(r) : j > i /\ r[j].type = b
    BY DEF EndsIn
  <2>1. i \in 1 .. Len(q) /\ q[i].type = a
    BY <1>1, <1>3
  <2>2. PICK j \in 1 .. Len(q) : j > i /\ q[j].type = b
    BY <1>3, <2>1 DEF EndsIn
  <2> QED BY <1>1, <2>2
<1> QED
  BY <1>2, <1>3 DEF r

LEMMA TailEndsIn ==
  ASSUME NEW S, NEW q \in Seq(S), q # <<>>, NEW a, NEW b, EndsIn(q, a, b)
  PROVE  /\ EndsIn(Tail(q), a, b)
         /\ Head(q).type = a => \E e \in Elements(Tail(q)) : e.type = b
<1> DEFINE r == Tail(q)
<1>1. /\ Head(q) = q[1] /\ Len(r) = Len(q) - 1 /\ Len(q) \in Nat /\ Len(q) >= 1
      /\ \A i \in 1 .. Len(r) : r[i] = q[i + 1]
  BY HeadTailProperties, LenProperties, EmptySeq
<1> HIDE DEF r
<1>2. ASSUME NEW i \in 1 .. Len(q), q[i].type = a
      PROVE  \E j \in 1 .. Len(r) : j + 1 > i /\ r[j].type = b
  <2>1. PICK j \in 1 .. Len(q) : j > i /\ q[j].type = b
    BY <1>2 DEF EndsIn
  <2>2. j - 1 \in 1 .. Len(r) /\ r[j - 1].type = b /\ (j - 1) + 1 > i
    BY <1>1, <2>1
  <2> QED BY <2>2
<1>3. EndsIn(r, a, b)
  <2> SUFFICES ASSUME NEW i \in 1 .. Len(r), r[i].type = a
               PROVE  \E j \in 1 .. Len(r) : j > i /\ r[j].type = b
    BY DEF EndsIn
  <2>1. i + 1 \in 1 .. Len(q) /\ q[i + 1].type = a
    BY <1>1
  <2>2. PICK j \in 1 .. Len(r) : j + 1 > i + 1 /\ r[j].type = b
    BY <1>2, <2>1
  <2> QED BY <1>1, <2>2
<1>4. ASSUME Head(q).type = a PROVE \E e \in Elements(r) : e.type = b
  <2>1. PICK j \in 1 .. Len(r) : r[j].type = b
    BY <1>1, <1>2, <1>4
  <2> QED BY <2>1 DEF Elements
<1> QED
  BY <1>3, <1>4 DEF r

LEMMA AppendAscending ==
  ASSUME NEW S, NEW q \in Seq(S), NEW e \in S, NEW type, Ascending(q, type),
         e.type = type => \A x \in Elements(q) : x.type = type => x.of < e.of
  PROVE  Ascending(Append(q, e), type)
<1> DEFINE r == Append(q, e)
<1>1. /\ Len(r) = Len(q) + 1 /\ Len(q) \in Nat /\ r[Len(q) + 1] = e
      /\ \A i \in 1 .. Len(q) : r[i] = q[i]
  BY AppendProperties, LenProperties
<1> HIDE DEF r
<1>2. Ascending(r, type)
  <2> SUFFICES ASSUME NEW i \in 1 .. Len(r), NEW j \in 1 .. Len(r), i < j,
                      r[i].type = type, r[j].type = type
               PROVE  r[i].of < r[j].of
    BY DEF Ascending
  <2>1. i \in 1 .. Len(q) /\ r[i] = q[i]
    BY <1>1
  <2>2. CASE j \in 1 .. Len(q)
    BY <1>1, <2>1, <2>2 DEF Ascending
  <2>3. CASE j = Len(q) + 1
    BY <1>1, <2>1, <2>3 DEF Elements
  <2> QED BY <1>1, <2>2, <2>3
<1> QED
  BY <1>2 DEF r

LEMMA TailAscending ==
  ASSUME NEW S, NEW q \in Seq(S), q # <<>>, NEW type, Ascending(q, type)
  PROVE  /\ Ascending(Tail(q), type)
         /\ Head(q).type = type => \A x \in Elements(Tail(q)) : x.type = type => Head(q).of < x.of
<1> DEFINE r == Tail(q)
<1>1. /\ Head(q) = q[1] /\ Len(r) = Len(q) - 1 /\ Len(q) \in Nat /\ Len(q) >= 1
      /\ \A i \in 1 .. Len(r) : r[i] = q[i + 1] /\ i + 1 \in 1 .. Len(q)
  BY HeadTailProperties, LenProperties, EmptySeq
<1> HIDE DEF r
<1>2. Ascending(r, type)
  <2> SUFFICES ASSUME NEW i \in 1 .. Len(r), NEW j \in 1 .. Len(r), i < j,
                      r[i].type = type, r[j].type = type
               PROVE  r[i].of < r[j].of
    BY DEF Ascending
  <2>1. i + 1 < j + 1 /\ r[i] = q[i + 1] /\ r[j] = q[j + 1]
    BY <1>1
  <2> QED BY <1>1, <2>1 DEF Ascending
<1>3. ASSUME Head(q).type = type, NEW x \in Elements(r), x.type = type PROVE Head(q).of < x.of
  <2>1. PICK j \in 1 .. Len(r) : x = r[j]
    BY DEF Elements
  <2>2. 1 \in 1 .. Len(q) /\ 1 < j + 1 /\ x = q[j + 1]
    BY <1>1, <2>1
  <2> QED BY <1>1, <1>3, <2>1, <2>2 DEF Ascending
<1> QED
  BY <1>2, <1>3 DEF r

\* There is nothing in an empty queue that could be out of order.
LEMMA EmptyOrder ==
  /\ \A types : Finals(<<>>, types) = {}
  /\ \A a, b : EndsIn(<<>>, a, b)
  /\ \A type : Ascending(<<>>, type)
  BY DEF Finals, EndsIn, Ascending

-----------------------------------------------------------------------------
(* Numbers *)

\* A set of numbers has a first one.
LEMMA Smallest ==
  ASSUME NEW S, S \subseteq Nat, S # {}
  PROVE  \E n \in S : \A m \in S : n <= m
<1>1. PICK n \in S : \A m \in S : <<m, n>> \notin OpToRel(<, Nat)
  BY NatLessThanWellFounded, WFMin
<1>2. \A m \in S : ~(m < n)
  BY <1>1 DEF OpToRel
<1> QED BY <1>2

\* A set of numbers that has 0 and with each number the next one has them all.
LEMMA Induct ==
  ASSUME NEW S, 0 \in S, \A n \in Nat : n \in S => n + 1 \in S
  PROVE  Nat \subseteq S
<1> SUFFICES ASSUME Nat \ S # {} PROVE FALSE
  OBVIOUS
<1>1. PICK n \in Nat \ S : \A m \in Nat \ S : n <= m
  <2>1. Nat \ S \subseteq Nat
    OBVIOUS
  <2> QED BY <2>1, Smallest
<1>2. n # 0 /\ n - 1 \in Nat /\ n - 1 < n /\ (n - 1) + 1 = n
  <2>1. n # 0 /\ n \in Nat
    BY <1>1
  <2> QED BY <2>1
<1>3. n - 1 \in S
  BY <1>1, <1>2
<1> QED
  BY <1>1, <1>2, <1>3

-----------------------------------------------------------------------------
(* Sequences put together, changed, and parts of them *)

\* The recursive function that filters exists: it takes one more element at a time.
LEMMA KeptToIs ==
  ASSUME NEW S, NEW s \in Seq(S), NEW keep
  PROVE  LET kept == KeptTo(s, keep) IN
         kept = [n \in 0 .. Len(s) |->
                   IF n = 0 THEN <<>>
                   ELSE IF s[n] \in keep THEN Append(kept[n - 1], s[n]) ELSE kept[n - 1]]
<1> DEFINE Step(f, n) == IF n = 0 THEN <<>>
                         ELSE IF s[n] \in keep THEN Append(f[n - 1], s[n]) ELSE f[n - 1]
           To(N) == \E f : f = [n \in 0 .. N |-> Step(f, n)]
           All == {N \in Nat : To(N)}
<1>1. 0 \in All
  <2> DEFINE f == [n \in 0 .. 0 |-> <<>>]
  <2>1. f = [n \in 0 .. 0 |-> Step(f, n)]
    OBVIOUS
  <2> HIDE DEF f
  <2> QED BY <2>1
<1>2. ASSUME NEW N \in Nat, N \in All PROVE N + 1 \in All
  <2>1. PICK f : f = [n \in 0 .. N |-> Step(f, n)]
    BY <1>2
  <2> DEFINE g == [n \in 0 .. N + 1 |-> IF n = N + 1 THEN Step(f, n) ELSE f[n]]
  <2>2. \A n \in 0 .. N + 1 : n # 0 => n - 1 \in 0 .. N /\ g[n - 1] = f[n - 1]
    OBVIOUS
  <2>3. \A n \in 0 .. N : f[n] = Step(f, n)
    BY <2>1
  <2>4. \A n \in 0 .. N + 1 : g[n] = Step(g, n)
    <3> SUFFICES ASSUME NEW n \in 0 .. N + 1 PROVE g[n] = Step(g, n)
      OBVIOUS
    <3>1. Step(g, n) = Step(f, n)
      BY <2>2
    <3>2. n \in 0 .. N \/ n = N + 1
      OBVIOUS
    <3> QED BY <2>3, <3>1, <3>2
  <2>5. g = [n \in 0 .. N + 1 |-> Step(g, n)]
    BY <2>4
  <2> HIDE DEF g, Step
  <2> QED BY <2>5
<1>3. Len(s) \in Nat
  BY LenProperties
<1>4. Nat \subseteq All
  <2> HIDE DEF All
  <2> QED BY <1>1, <1>2, Induct
<1>5. To(Len(s))
  BY <1>3, <1>4
<1> QED
  BY <1>5 DEF KeptTo

\* What is left: the elements to keep, none twice that was not there twice.
LEMMA OnlyKept ==
  ASSUME NEW S, NEW s \in Seq(S), NEW keep
  PROVE  /\ Only(s, keep) \in Seq(S)
         /\ ToSet(Only(s, keep)) = ToSet(s) \cap keep
         /\ IsInjective(s) => IsInjective(Only(s, keep))
<1> DEFINE f == KeptTo(s, keep)
           Good(n) == /\ f[n] \in Seq(S)
                      /\ ToSet(f[n]) = {s[i] : i \in 1 .. n} \cap keep
                      /\ IsInjective(s) => IsInjective(f[n])
           All == {n \in Nat : n <= Len(s) => Good(n)}
<1>0. Len(s) \in Nat /\ DOMAIN s = 1 .. Len(s) /\ \A i \in 1 .. Len(s) : s[i] \in S
  BY LenProperties, ElementOfSeq
<1>1. /\ f[0] = <<>>
      /\ \A n \in 1 .. Len(s) :
           f[n] = IF s[n] \in keep THEN Append(f[n - 1], s[n]) ELSE f[n - 1]
  <2>1. f = [n \in 0 .. Len(s) |->
               IF n = 0 THEN <<>>
               ELSE IF s[n] \in keep THEN Append(f[n - 1], s[n]) ELSE f[n - 1]]
    BY KeptToIs
  <2> HIDE DEF f
  <2>2. 0 \in 0 .. Len(s) /\ \A n \in 1 .. Len(s) : n \in 0 .. Len(s) /\ n # 0
    BY <1>0
  <2> QED BY <2>1, <2>2
<1> HIDE DEF f
<1>2. 0 \in All
  <2>1. f[0] \in Seq(S) /\ ToSet(f[0]) = {} /\ IsInjective(f[0])
    BY <1>1 DEF ToSet, IsInjective
  <2>2. {s[i] : i \in 1 .. 0} = {}
    OBVIOUS
  <2> QED BY <2>1, <2>2
<1>3. ASSUME NEW n \in Nat, n \in All PROVE n + 1 \in All
  <2> SUFFICES ASSUME n + 1 <= Len(s) PROVE Good(n + 1)
    OBVIOUS
  <2>1. Good(n) /\ n + 1 \in 1 .. Len(s) /\ (n + 1) - 1 = n /\ s[n + 1] \in S
    BY <1>0, <1>3
  <2>2. {s[i] : i \in 1 .. n + 1} = {s[i] : i \in 1 .. n} \cup {s[n + 1]}
    <3>1. 1 .. n + 1 = (1 .. n) \cup {n + 1}
      OBVIOUS
    <3> QED BY <3>1
  <2>3. CASE s[n + 1] \in keep
    <3>1. f[n + 1] = Append(f[n], s[n + 1])
      BY <1>1, <2>1, <2>3
    <3> DEFINE q == f[n]
               e == s[n + 1]
               r == Append(q, e)
    <3>2. /\ r \in Seq(S) /\ DOMAIN q = 1 .. Len(q) /\ DOMAIN r = 1 .. Len(q) + 1 /\ Len(q) \in Nat
          /\ r[Len(q) + 1] = e /\ \A i \in 1 .. Len(q) : r[i] = q[i]
      <4> HIDE DEF q, e
      <4>1. q \in Seq(S) /\ e \in S
        BY <2>1 DEF q, e
      <4> QED BY <4>1, AppendProperties, LenProperties
    <3>3. ToSet(r) = ToSet(q) \cup {e}
      <4> HIDE DEF q, e, r
      <4>1. 1 .. Len(q) + 1 = (1 .. Len(q)) \cup {Len(q) + 1}
        BY <3>2
      <4> QED BY <3>2, <4>1 DEF ToSet
    <3>4. ToSet(r) = {s[i] : i \in 1 .. n + 1} \cap keep
      BY <2>1, <2>2, <2>3, <3>3
    <3>5. ASSUME IsInjective(s) PROVE IsInjective(r)
      <4>1. e \notin ToSet(q)
        <5> SUFFICES ASSUME e \in ToSet(q) PROVE FALSE
          OBVIOUS
        <5>1. PICK i \in 1 .. n : s[i] = s[n + 1]
          BY <2>1
        <5>2. i \in DOMAIN s /\ n + 1 \in DOMAIN s /\ i # n + 1
          BY <1>0, <2>1
        <5> QED BY <3>5, <5>1, <5>2 DEF IsInjective
      <4>2. IsInjective(q)
        BY <2>1, <3>5
      <4> HIDE DEF q, e, r
      <4>3. \A i \in 1 .. Len(q) : r[i] # e
        BY <3>2, <4>1 DEF ToSet
      <4> SUFFICES ASSUME NEW a \in 1 .. Len(q) + 1, NEW b \in 1 .. Len(q) + 1, r[a] = r[b]
                   PROVE  a = b
        BY <3>2 DEF IsInjective
      <4>4. a \in 1 .. Len(q) \/ a = Len(q) + 1
        BY <3>2
      <4>5. b \in 1 .. Len(q) \/ b = Len(q) + 1
        BY <3>2
      <4> QED BY <3>2, <4>2, <4>3, <4>4, <4>5 DEF IsInjective
    <3> HIDE DEF q, e
    <3> QED BY <3>1, <3>2, <3>4, <3>5 DEF q, e
  <2>4. CASE s[n + 1] \notin keep
    <3>1. f[n + 1] = f[n]
      BY <1>1, <2>1, <2>4
    <3> QED BY <2>1, <2>2, <2>4, <3>1
  <2> QED BY <2>3, <2>4
<1>4. Nat \subseteq All
  <2> HIDE DEF All
  <2> QED BY <1>2, <1>3, Induct
<1>5. Good(Len(s)) /\ {s[i] : i \in 1 .. Len(s)} = ToSet(s)
  BY <1>0, <1>4 DEF ToSet
<1> QED
  BY <1>5 DEF Only, f

\* Two sequences without repeats, and nothing in common, have none together.
LEMMA ConcatApart ==
  ASSUME NEW S, NEW p \in Seq(S), NEW q \in Seq(S), IsInjective(p), IsInjective(q),
         ToSet(p) \cap ToSet(q) = {}
  PROVE  p \o q \in Seq(S) /\ IsInjective(p \o q) /\ ToSet(p \o q) = ToSet(p) \cup ToSet(q)
<1> DEFINE r == p \o q
<1>1. /\ r \in Seq(S) /\ DOMAIN p = 1 .. Len(p) /\ DOMAIN q = 1 .. Len(q)
      /\ DOMAIN r = 1 .. Len(p) + Len(q) /\ Len(p) \in Nat /\ Len(q) \in Nat
      /\ \A i \in 1 .. Len(p) : r[i] = p[i]
      /\ \A i \in 1 .. Len(q) : r[Len(p) + i] = q[i]
  BY ConcatProperties, LenProperties
<1> HIDE DEF r
<1>2. \A i \in DOMAIN r : \/ i \in 1 .. Len(p) /\ r[i] = p[i]
                          \/ i - Len(p) \in 1 .. Len(q) /\ r[i] = q[i - Len(p)]
  <2> SUFFICES ASSUME NEW i \in DOMAIN r, ~(i \in 1 .. Len(p))
               PROVE  i - Len(p) \in 1 .. Len(q) /\ r[i] = q[i - Len(p)]
    BY <1>1
  <2>1. i - Len(p) \in 1 .. Len(q) /\ i = Len(p) + (i - Len(p))
    BY <1>1
  <2> QED BY <1>1, <2>1
<1>3. ToSet(r) = ToSet(p) \cup ToSet(q)
  <2>1. ToSet(r) \subseteq ToSet(p) \cup ToSet(q)
    BY <1>1, <1>2 DEF ToSet
  <2>2. ToSet(p) \subseteq ToSet(r)
    BY <1>1 DEF ToSet
  <2>3. ToSet(q) \subseteq ToSet(r)
    <3>1. \A i \in 1 .. Len(q) : Len(p) + i \in DOMAIN r
      BY <1>1
    <3> QED BY <1>1, <3>1 DEF ToSet
  <2> QED BY <2>1, <2>2, <2>3
<1>4. \A i \in 1 .. Len(p), j \in 1 .. Len(q) : p[i] # q[j]
  BY <1>1 DEF ToSet
<1>5. IsInjective(r)
  <2> SUFFICES ASSUME NEW a \in DOMAIN r, NEW b \in DOMAIN r, r[a] = r[b] PROVE a = b
    BY DEF IsInjective
  <2>1. CASE a \in 1 .. Len(p) /\ b \in 1 .. Len(p)
    BY <1>1, <2>1 DEF IsInjective
  <2>2. CASE a \notin 1 .. Len(p) /\ b \notin 1 .. Len(p)
    <3>1. a - Len(p) = b - Len(p)
      BY <1>1, <1>2, <2>2 DEF IsInjective
    <3> QED BY <1>1, <3>1
  <2>3. CASE a \in 1 .. Len(p) /\ b \notin 1 .. Len(p)
    BY <1>1, <1>2, <1>4, <2>3
  <2>4. CASE a \notin 1 .. Len(p) /\ b \in 1 .. Len(p)
    BY <1>1, <1>2, <1>4, <2>4
  <2> QED BY <2>1, <2>2, <2>3, <2>4
<1> QED
  BY <1>1, <1>3, <1>5 DEF r

\* A sequence without repeats has none after a new element.
LEMMA AppendApart ==
  ASSUME NEW S, NEW p \in Seq(S), NEW e \in S, IsInjective(p), e \notin ToSet(p)
  PROVE  /\ Append(p, e) \in Seq(S) /\ IsInjective(Append(p, e))
         /\ ToSet(Append(p, e)) = ToSet(p) \cup {e}
<1> DEFINE q == <<e>>
<1>1. q \in Seq(S) /\ IsInjective(q) /\ ToSet(q) = {e}
  BY DEF IsInjective, ToSet
<1>2. Append(p, e) = p \o q
  OBVIOUS
<1> HIDE DEF q
<1>3. ToSet(p) \cap ToSet(q) = {}
  BY <1>1
<1>4. p \o q \in Seq(S) /\ IsInjective(p \o q) /\ ToSet(p \o q) = ToSet(p) \cup ToSet(q)
  BY <1>1, <1>3, ConcatApart
<1> QED
  BY <1>1, <1>2, <1>4

\* To contain is to have as an element.
LEMMA ContainsIs ==
  ASSUME NEW S, NEW s \in Seq(S), NEW e
  PROVE  Contains(s, e) <=> e \in ToSet(s)
BY LenProperties DEF Contains, ToSet

\* The elements of two sequences put together, by place and as a set.
LEMMA ConcatParts ==
  ASSUME NEW S, NEW p \in Seq(S), NEW q \in Seq(S)
  PROVE  /\ p \o q \in Seq(S) /\ Len(p) \in Nat /\ Len(q) \in Nat
         /\ DOMAIN p = 1 .. Len(p) /\ DOMAIN q = 1 .. Len(q)
         /\ Len(p \o q) = Len(p) + Len(q) /\ DOMAIN (p \o q) = 1 .. Len(p) + Len(q)
         /\ \A i \in 1 .. Len(p) : (p \o q)[i] = p[i]
         /\ \A i \in 1 .. Len(q) : (p \o q)[Len(p) + i] = q[i] /\ Len(p) + i \in DOMAIN (p \o q)
         /\ \A i \in DOMAIN (p \o q) : \/ i \in 1 .. Len(p)
                                       \/ i - Len(p) \in 1 .. Len(q) /\ (p \o q)[i] = q[i - Len(p)]
         /\ ToSet(p \o q) = ToSet(p) \cup ToSet(q)
<1> DEFINE r == p \o q
<1>1. /\ r \in Seq(S) /\ DOMAIN p = 1 .. Len(p) /\ DOMAIN q = 1 .. Len(q) /\ Len(r) = Len(p) + Len(q)
      /\ DOMAIN r = 1 .. Len(p) + Len(q) /\ Len(p) \in Nat /\ Len(q) \in Nat
      /\ \A i \in 1 .. Len(p) : r[i] = p[i]
      /\ \A i \in 1 .. Len(q) : r[Len(p) + i] = q[i]
  BY ConcatProperties, LenProperties
<1> HIDE DEF r
<1>2. \A i \in 1 .. Len(q) : Len(p) + i \in DOMAIN r
  BY <1>1
<1>3. ASSUME NEW i \in DOMAIN r, ~(i \in 1 .. Len(p))
      PROVE  i - Len(p) \in 1 .. Len(q) /\ r[i] = q[i - Len(p)]
  <2>1. i - Len(p) \in 1 .. Len(q) /\ i = Len(p) + (i - Len(p))
    BY <1>1, <1>3
  <2> QED BY <1>1, <2>1
<1>4. ToSet(r) = ToSet(p) \cup ToSet(q)
  <2>1. ToSet(r) \subseteq ToSet(p) \cup ToSet(q)
    BY <1>1, <1>3 DEF ToSet
  <2>2. ToSet(p) \subseteq ToSet(r)
    BY <1>1 DEF ToSet
  <2>3. ToSet(q) \subseteq ToSet(r)
    BY <1>1, <1>2 DEF ToSet
  <2> QED BY <2>1, <2>2, <2>3
<1> QED
  BY <1>1, <1>2, <1>3, <1>4 DEF r

\* What is left after one element is taken out.
LEMMA RemoveAtParts ==
  ASSUME NEW S, NEW s \in Seq(S), NEW i \in DOMAIN s
  PROVE  /\ RemoveAt(s, i) \in Seq(S) /\ Len(RemoveAt(s, i)) = Len(s) - 1 /\ Len(s) \in Nat \ {0}
         /\ ToSet(RemoveAt(s, i)) \subseteq ToSet(s)
         /\ ToSet(s) \subseteq ToSet(RemoveAt(s, i)) \cup {s[i]}
<1> DEFINE n == Len(s)
           p == SubSeq(s, 1, i - 1)
           q == SubSeq(s, i + 1, n)
<1>1. n \in Nat /\ DOMAIN s = 1 .. n /\ i \in 1 .. n /\ n # 0 /\ \A k \in 1 .. n : s[k] \in S
  BY LenProperties, ElementOfSeq
<1>2. /\ p \in Seq(S) /\ Len(p) = i - 1 /\ \A k \in 1 .. i - 1 : p[k] = s[k]
  <2>1. \A k \in 1 .. i - 1 : s[k] \in S /\ k \in 1 .. n
    BY <1>1
  <2> QED BY <1>1, <2>1, SubSeqProperties
<1>3. /\ q \in Seq(S) /\ Len(q) = n - i /\ \A k \in 1 .. n - i : q[k] = s[i + k]
  <2>1. i + 1 \in 1 .. n + 1 /\ (i + 1 <= n + 1) /\ \A k \in i + 1 .. n : s[k] \in S
    BY <1>1
  <2>2. /\ q \in Seq(S) /\ Len(q) = IF i + 1 <= n THEN n - (i + 1) + 1 ELSE 0
        /\ \A k \in 1 .. n - (i + 1) + 1 : q[k] = s[(i + 1) + k - 1]
    BY <1>1, <2>1, SubSeqProperties
  <2>3. \A k \in 1 .. n - i : (i + 1) + k - 1 = i + k
    BY <1>1
  <2> HIDE DEF q
  <2>4. n - (i + 1) + 1 = n - i
    BY <1>1
  <2> QED BY <1>1, <2>2, <2>3, <2>4
<1>4. RemoveAt(s, i) = p \o q
  BY DEF RemoveAt
<1> HIDE DEF p, q, n
<1>5. /\ p \o q \in Seq(S) /\ Len(p \o q) = Len(p) + Len(q)
      /\ DOMAIN p = 1 .. Len(p) /\ DOMAIN q = 1 .. Len(q)
      /\ ToSet(p \o q) = ToSet(p) \cup ToSet(q)
  BY <1>2, <1>3, ConcatParts
<1>6. ToSet(p) \subseteq ToSet(s)
  <2>1. \A k \in 1 .. i - 1 : k \in 1 .. n
    BY <1>1
  <2> QED BY <1>1, <1>2, <1>5, <2>1 DEF ToSet
<1>7. ToSet(q) \subseteq ToSet(s)
  <2>1. \A k \in 1 .. n - i : i + k \in 1 .. n
    BY <1>1
  <2> QED BY <1>1, <1>3, <1>5, <2>1 DEF ToSet
<1>8. ASSUME NEW k \in 1 .. n, k # i PROVE s[k] \in ToSet(p) \cup ToSet(q)
  <2>1. CASE k < i
    <3>1. k \in 1 .. i - 1
      BY <1>1, <2>1
    <3> QED BY <1>2, <1>5, <3>1 DEF ToSet
  <2>2. CASE k > i
    <3>1. k - i \in 1 .. n - i /\ i + (k - i) = k
      BY <1>1, <2>2
    <3>2. q[k - i] = s[k] /\ k - i \in DOMAIN q
      BY <1>3, <1>5, <3>1
    <3> QED BY <3>2 DEF ToSet
  <2> QED BY <1>1, <1>8, <2>1, <2>2
<1>9. ToSet(s) \subseteq ToSet(p) \cup ToSet(q) \cup {s[i]}
  BY <1>1, <1>8 DEF ToSet
<1>10. Len(p \o q) = n - 1
  BY <1>1, <1>2, <1>3, <1>5
<1> QED
  BY <1>1, <1>4, <1>5, <1>6, <1>7, <1>9, <1>10 DEF n

\* What one changed element leaves.
LEMMA ExceptParts ==
  ASSUME NEW S, NEW s \in Seq(S), NEW i \in DOMAIN s, NEW e \in S
  PROVE  /\ [s EXCEPT ![i] = e] \in Seq(S) /\ Len([s EXCEPT ![i] = e]) = Len(s)
         /\ DOMAIN [s EXCEPT ![i] = e] = DOMAIN s /\ [s EXCEPT ![i] = e][i] = e
         /\ \A k \in DOMAIN s : k # i => [s EXCEPT ![i] = e][k] = s[k]
<1>1. s \in [1 .. Len(s) -> S] /\ Len(s) \in Nat /\ DOMAIN s = 1 .. Len(s)
  BY LenProperties
<1> DEFINE r == [s EXCEPT ![i] = e]
<1>2. r \in [1 .. Len(s) -> S] /\ r[i] = e /\ \A k \in 1 .. Len(s) : k # i => r[k] = s[k]
  BY <1>1
<1> HIDE DEF r
<1>3. r \in Seq(S) /\ Len(r) = Len(s) /\ DOMAIN r = 1 .. Len(s)
  <2>1. r \in Seq(S)
    BY <1>1, <1>2, SeqDef
  <2>2. DOMAIN r = 1 .. Len(s)
    BY <1>2
  <2> QED BY <1>1, <2>1, <2>2, LenProperties
<1> QED
  BY <1>1, <1>2, <1>3 DEF r

\* A sequence after its first element is taken, place by place.
LEMMA TailParts ==
  ASSUME NEW S, NEW s \in Seq(S), s # <<>>
  PROVE  /\ Tail(s) \in Seq(S) /\ Head(s) = s[1] /\ s[1] \in S /\ 1 \in DOMAIN s
         /\ Len(s) \in Nat \ {0} /\ DOMAIN s = 1 .. Len(s) /\ DOMAIN Tail(s) = 1 .. Len(s) - 1
         /\ \A k \in DOMAIN Tail(s) : Tail(s)[k] = s[k + 1] /\ k + 1 \in DOMAIN s
         /\ \A k \in DOMAIN s : k # 1 => k - 1 \in DOMAIN Tail(s) /\ Tail(s)[k - 1] = s[k]
<1>1. /\ Tail(s) \in Seq(S) /\ Head(s) = s[1] /\ s[1] \in S /\ Len(s) \in Nat \ {0} /\ DOMAIN s = 1 .. Len(s)
      /\ DOMAIN Tail(s) = 1 .. Len(s) - 1 /\ \A k \in 1 .. Len(s) - 1 : Tail(s)[k] = s[k + 1]
  BY HeadTailProperties, LenProperties, EmptySeq
<1> DEFINE n == Len(s)
           t == Tail(s)
<1> HIDE DEF n, t
<1>2. \A k \in 1 .. n - 1 : k + 1 \in 1 .. n
  BY <1>1 DEF n
<1>3. ASSUME NEW k \in 1 .. n, k # 1 PROVE k - 1 \in 1 .. n - 1 /\ (k - 1) + 1 = k
  BY <1>1, <1>3 DEF n
<1>4. \A k \in 1 .. n : k # 1 => t[k - 1] = s[k]
  BY <1>1, <1>3 DEF n, t
<1>5. 1 \in 1 .. n
  BY <1>1 DEF n
<1> QED
  BY <1>1, <1>2, <1>3, <1>4, <1>5 DEF n, t

\* A sequence after one element more, place by place.
LEMMA AppendParts ==
  ASSUME NEW S, NEW s \in Seq(S), NEW e \in S
  PROVE  /\ Append(s, e) \in Seq(S)
         /\ ToSet(Append(s, e)) = ToSet(s) \cup {e}
         /\ DOMAIN s = 1 .. Len(s) /\ DOMAIN Append(s, e) = 1 .. Len(s) + 1 /\ Len(s) \in Nat
         /\ Append(s, e)[Len(s) + 1] = e /\ \A k \in DOMAIN s : Append(s, e)[k] = s[k]
<1> DEFINE q == <<e>>
<1>1. q \in Seq(S) /\ ToSet(q) = {e} /\ Append(s, e) = s \o q
  BY DEF ToSet
<1>2. /\ DOMAIN s = 1 .. Len(s) /\ DOMAIN Append(s, e) = 1 .. Len(s) + 1 /\ Len(s) \in Nat
      /\ Append(s, e)[Len(s) + 1] = e /\ \A k \in DOMAIN s : Append(s, e)[k] = s[k]
  BY AppendProperties, LenProperties
<1> HIDE DEF q
<1>3. s \o q \in Seq(S) /\ ToSet(s \o q) = ToSet(s) \cup ToSet(q)
  BY <1>1, ConcatParts
<1> QED
  BY <1>1, <1>2, <1>3 DEF q

\* To append is to put together with a sequence of one.
LEMMA AppendIs ==
  ASSUME NEW S, NEW s \in Seq(S), NEW e \in S
  PROVE  Append(s, e) = s \o <<e>>
OBVIOUS

\* A sequence's elements are its first and those of its tail.
LEMMA TailSet ==
  ASSUME NEW S, NEW s \in Seq(S), s # <<>>
  PROVE  ToSet(s) = ToSet(Tail(s)) \cup {s[1]} /\ ToSet(Tail(s)) \subseteq S /\ ToSet(s) \subseteq S
<1>1. /\ Tail(s) \in Seq(S) /\ 1 \in DOMAIN s
      /\ \A k \in DOMAIN Tail(s) : Tail(s)[k] = s[k + 1] /\ k + 1 \in DOMAIN s
      /\ \A k \in DOMAIN s : k # 1 => k - 1 \in DOMAIN Tail(s) /\ Tail(s)[k - 1] = s[k]
  BY TailParts
<1>2. ToSet(Tail(s)) \subseteq ToSet(s) /\ s[1] \in ToSet(s)
  BY <1>1 DEF ToSet
<1>3. ToSet(s) \subseteq ToSet(Tail(s)) \cup {s[1]}
  <2> SUFFICES ASSUME NEW k \in DOMAIN s PROVE s[k] \in ToSet(Tail(s)) \cup {s[1]}
    BY DEF ToSet
  <2> QED BY <1>1 DEF ToSet
<1>4. ToSet(s) \subseteq S
  BY LenProperties, ElementOfSeq DEF ToSet
<1> QED
  BY <1>2, <1>3, <1>4

\* The elements of a typed sequence have its type.
LEMMA SetTyped ==
  ASSUME NEW S, NEW s \in Seq(S)
  PROVE  ToSet(s) \subseteq S /\ DOMAIN s = 1 .. Len(s) /\ Len(s) \in Nat
         /\ \A k \in DOMAIN s : s[k] \in ToSet(s) /\ s[k] \in S
BY LenProperties, ElementOfSeq DEF ToSet

\* The empty sequence has no element and no place.
LEMMA EmptySet == ToSet(<<>>) = {} /\ DOMAIN <<>> = {} /\ Len(<<>>) = 0
BY DEF ToSet

\* A sequence of one.
LEMMA OneSet ==
  ASSUME NEW S, NEW e \in S
  PROVE  <<e>> \in Seq(S) /\ ToSet(<<e>>) = {e} /\ DOMAIN <<e>> = {1} /\ <<e>>[1] = e /\ Len(<<e>>) = 1
<1>1. <<e>> \in Seq(S) /\ ToSet(<<e>>) = {e} /\ <<e>>[1] = e /\ Len(<<e>>) = 1
  BY DEF ToSet
<1>2. DOMAIN <<e>> = {1}
  OBVIOUS
<1> QED
  BY <1>1, <1>2

\* A sequence of two.
LEMMA TwoSet ==
  ASSUME NEW S, NEW e \in S, NEW f \in S
  PROVE  /\ <<e, f>> \in Seq(S) /\ ToSet(<<e, f>>) = {e, f} /\ DOMAIN <<e, f>> = {1, 2}
         /\ <<e, f>>[1] = e /\ <<e, f>>[2] = f /\ Len(<<e, f>>) = 2
<1>1. <<e, f>> \in Seq(S) /\ <<e, f>>[1] = e /\ <<e, f>>[2] = f /\ Len(<<e, f>>) = 2
  OBVIOUS
<1>2. DOMAIN <<e, f>> = {1, 2}
  OBVIOUS
<1>3. ToSet(<<e, f>>) = {e, f}
  BY <1>1, <1>2 DEF ToSet
<1> QED
  BY <1>1, <1>2, <1>3

\* A sequence of two is two of one put together.
LEMMA TwoIs ==
  ASSUME NEW S, NEW e \in S, NEW f \in S
  PROVE  <<e>> \o <<f>> = <<e, f>>
<1> DEFINE p == <<e>>
           q == <<f>>
           r == <<e, f>>
<1>1. p \in Seq(S) /\ q \in Seq(S) /\ Len(p) = 1 /\ Len(q) = 1 /\ p[1] = e /\ q[1] = f
  OBVIOUS
<1>2. r \in Seq(S) /\ Len(r) = 2 /\ r[1] = e /\ r[2] = f
  OBVIOUS
<1> HIDE DEF p, q, r
<1>3. p \o q \in Seq(S) /\ Len(p \o q) = 2 /\ (p \o q)[1] = e /\ (p \o q)[2] = f
  <2>1. /\ p \o q \in Seq(S) /\ Len(p \o q) = Len(p) + Len(q)
        /\ \A i \in 1 .. Len(p) : (p \o q)[i] = p[i]
        /\ \A i \in 1 .. Len(q) : (p \o q)[Len(p) + i] = q[i]
    BY <1>1, ConcatProperties, LenProperties
  <2>2. 1 \in 1 .. 1 /\ 1 + 1 = 2
    OBVIOUS
  <2> QED BY <1>1, <2>1, <2>2
<1>4. p \o q = r
  <2>1. \A i \in 1 .. 2 : (p \o q)[i] = r[i]
    <3>1. \A i \in 1 .. 2 : i = 1 \/ i = 2
      OBVIOUS
    <3> QED BY <1>2, <1>3, <3>1
  <2> QED BY <1>2, <1>3, <2>1, SeqEqual
<1> QED
  BY <1>4 DEF p, q, r

\* An element once in a sequence is not in its tail.
LEMMA HeadApart ==
  ASSUME NEW S, NEW s \in Seq(S), s # <<>>, IsInjective(s)
  PROVE  /\ IsInjective(Tail(s)) /\ s[1] \notin ToSet(Tail(s)) /\ Tail(s) \in Seq(S)
         /\ ToSet(s) = ToSet(Tail(s)) \cup {s[1]} /\ s[1] \in S /\ Head(s) = s[1]
<1>1. /\ Tail(s) \in Seq(S) /\ 1 \in DOMAIN s /\ s[1] \in S /\ Head(s) = s[1] /\ Len(s) \in Nat
      /\ DOMAIN s = 1 .. Len(s) /\ DOMAIN Tail(s) = 1 .. Len(s) - 1
      /\ \A k \in DOMAIN Tail(s) : Tail(s)[k] = s[k + 1] /\ k + 1 \in DOMAIN s
  BY TailParts
<1>2. ToSet(s) = ToSet(Tail(s)) \cup {s[1]}
  BY TailSet
<1> DEFINE t == Tail(s)
<1> HIDE DEF t
<1>3. IsInjective(t)
  <2> SUFFICES ASSUME NEW a \in DOMAIN t, NEW b \in DOMAIN t, t[a] = t[b] PROVE a = b
    BY DEF IsInjective
  <2>1. s[a + 1] = s[b + 1] /\ a + 1 \in DOMAIN s /\ b + 1 \in DOMAIN s /\ a \in Int /\ b \in Int
    BY <1>1 DEF t
  <2>2. a + 1 = b + 1
    BY <2>1 DEF IsInjective
  <2> QED BY <2>1, <2>2
<1>4. s[1] \notin ToSet(t)
  <2> SUFFICES ASSUME NEW k \in DOMAIN t, t[k] = s[1] PROVE FALSE
    BY DEF ToSet
  <2>1. s[k + 1] = s[1] /\ k + 1 \in DOMAIN s /\ k \in Nat /\ k >= 1
    BY <1>1 DEF t
  <2>2. k + 1 = 1
    BY <1>1, <2>1 DEF IsInjective
  <2> QED BY <2>1, <2>2
<1> QED
  BY <1>1, <1>2, <1>3, <1>4 DEF t

=============================================================================
