---------------------------- MODULE ListTheorems ----------------------------
(***************************************************************************)
(* Facts about sequences that are cited where the sequences of a model     *)
(* (queues, channels, lists of periods) change, for sequences of which no  *)
(* set of possible elements is known; and about sets of numbers.           *)
(***************************************************************************)
EXTENDS Lists, SequenceTheorems, FiniteSetTheorems, TLAPS

\* A sequence, whatever its elements are.
IsList(s) == s \in Seq(Range(s))

\* A list with an element appended.
LEMMA AppendList ==
  ASSUME NEW s, IsList(s), NEW e
  PROVE  /\ IsList(Append(s, e))
         /\ DOMAIN Append(s, e) = DOMAIN s \union {Len(s) + 1}
         /\ \A k \in DOMAIN s : Append(s, e)[k] = s[k]
         /\ Append(s, e)[Len(s) + 1] = e
         /\ Len(s) \in Nat /\ DOMAIN s = 1 .. Len(s)
<1> DEFINE S == Range(s) \union {e}
<1>1. s \in Seq(S)
  BY SeqMonotonic DEF IsList
<1>2. /\ Append(s, e) \in Seq(S)
      /\ Len(Append(s, e)) = Len(s) + 1
      /\ \A k \in 1 .. Len(s) : Append(s, e)[k] = s[k]
      /\ Append(s, e)[Len(s) + 1] = e
  BY <1>1, AppendProperties
<1>3. Len(s) \in Nat /\ DOMAIN s = 1 .. Len(s)
  BY <1>1, LenProperties
<1>4. DOMAIN Append(s, e) = 1 .. Len(s) + 1
  BY <1>2, LenProperties
<1>5. IsList(Append(s, e))
  BY <1>2, SeqOfRange DEF IsList
<1> QED
  BY <1>2, <1>3, <1>4, <1>5

\* A list without its head.
LEMMA TailList ==
  ASSUME NEW s, IsList(s), s # <<>>
  PROVE  /\ IsList(Tail(s))
         /\ 1 \in DOMAIN s
         /\ Head(s) = s[1]
         /\ DOMAIN Tail(s) \subseteq Nat
         /\ \A k \in DOMAIN Tail(s) : k + 1 \in DOMAIN s /\ Tail(s)[k] = s[k + 1]
         /\ \A k \in DOMAIN s : k # 1 => k - 1 \in DOMAIN Tail(s) /\ s[k] = Tail(s)[k - 1]
<1>1. s \in Seq(Range(s))
  BY DEF IsList
<1>2. /\ Head(s) = s[1]
      /\ Tail(s) \in Seq(Range(s))
      /\ Len(Tail(s)) = Len(s) - 1
      /\ \A k \in 1 .. Len(Tail(s)) : Tail(s)[k] = s[k + 1]
  BY <1>1, HeadTailProperties
<1>3. Len(s) \in Nat /\ DOMAIN s = 1 .. Len(s) /\ Len(s) # 0
  BY <1>1, LenProperties, EmptySeq
<1>4. DOMAIN Tail(s) = 1 .. Len(s) - 1
  BY <1>2, LenProperties
<1>5. IsList(Tail(s))
  BY <1>2, SeqOfRange DEF IsList
<1> QED
  BY <1>2, <1>3, <1>4, <1>5

\* Two lists one after the other.
LEMMA ConcatList ==
  ASSUME NEW s, IsList(s), NEW t, IsList(t)
  PROVE  /\ IsList(s \o t)
         /\ DOMAIN s = 1 .. Len(s) /\ DOMAIN t = 1 .. Len(t)
         /\ Len(s) \in Nat /\ Len(t) \in Nat
         /\ DOMAIN (s \o t) = 1 .. Len(s) + Len(t)
         /\ \A k \in DOMAIN s : (s \o t)[k] = s[k]
         /\ \A k \in DOMAIN (s \o t) : k > Len(s) => k - Len(s) \in DOMAIN t /\ (s \o t)[k] = t[k - Len(s)]
<1> DEFINE S == Range(s) \union Range(t)
<1>1. s \in Seq(S) /\ t \in Seq(S)
  BY SeqMonotonic DEF IsList
<1>2. /\ s \o t \in Seq(S)
      /\ Len(s \o t) = Len(s) + Len(t)
      /\ \A k \in 1 .. Len(s) + Len(t) : (s \o t)[k] = IF k <= Len(s) THEN s[k] ELSE t[k - Len(s)]
  BY <1>1, ConcatProperties
<1>3. Len(s) \in Nat /\ DOMAIN s = 1 .. Len(s) /\ Len(t) \in Nat /\ DOMAIN t = 1 .. Len(t)
  BY <1>1, LenProperties
<1>4. DOMAIN (s \o t) = 1 .. Len(s) + Len(t)
  BY <1>2, LenProperties
<1>5. IsList(s \o t)
  BY <1>2, SeqOfRange DEF IsList
<1> QED
  BY <1>2, <1>3, <1>4, <1>5

\* A finite set as a list.
LEMMA SetToSeqList ==
  ASSUME NEW S, IsFiniteSet(S)
  PROVE  IsList(SetToSeq(S)) /\ \A k \in DOMAIN SetToSeq(S) : SetToSeq(S)[k] \in S
<1>1. Cardinality(S) \in Nat /\ ExistsBijection(1 .. Cardinality(S), S)
  BY FS_CardinalityType, FS_Bijection
<1>2. \E f \in [1 .. Cardinality(S) -> S] : IsInjective(f)
  BY <1>1 DEF ExistsBijection, Bijection, Injection, IsInjective
<1>3. SetToSeq(S) \in [1 .. Cardinality(S) -> S]
  BY <1>2 DEF SetToSeq
<1>4. SetToSeq(S) \in Seq(S)
  BY <1>1, <1>3, IsASeq
<1> QED
  BY <1>3, <1>4, SeqOfRange DEF IsList

\* The least of a set of natural numbers.
LEMMA MinOfSet ==
  ASSUME NEW S \in SUBSET Nat, S # {}
  PROVE  Min(S) \in S /\ \A y \in S : Min(S) <= y
<1> DEFINE R == {ss \in Nat \X Nat : ss[1] < ss[2]}
<1>1. IsWellFoundedOn(R, Nat)
  BY NatLessThanWellFounded DEF OpToRel
<1>2. PICK x \in S : \A y \in S : <<y, x>> \notin R
  <2> HIDE DEF R
  <2> QED
    BY <1>1, WFMin
<1>3. \A y \in S : x <= y
  <2> SUFFICES ASSUME NEW y \in S, y < x PROVE FALSE
    OBVIOUS
  <2>1. <<y, x>> \in Nat \X Nat /\ <<y, x>>[1] = y /\ <<y, x>>[2] = x
    OBVIOUS
  <2>2. <<y, x>> \in R
    BY <2>1
  <2> QED
    BY <1>2, <2>2
<1>4. \E m \in S : \A y \in S : m <= y
  BY <1>3
<1> QED
  BY <1>4 DEF Min

\* The greatest of a set of natural numbers that has a bound.
LEMMA MaxOfSet ==
  ASSUME NEW n \in Nat, NEW S \in SUBSET (0 .. n), S # {}
  PROVE  Max(S) \in S /\ \A y \in S : y <= Max(S)
<1> DEFINE T == {k \in Nat : n - k \in S}
<1>1. \A y \in S : n - y \in T
  OBVIOUS
<1>2. PICK k \in T : \A l \in T : k <= l
  <2>1. T \in SUBSET Nat /\ T # {}
    BY <1>1
  <2> HIDE DEF T
  <2> QED
    BY <2>1, MinOfSet
<1>3. n - k \in S /\ \A y \in S : n - k >= y
  BY <1>1, <1>2
<1>4. \E m \in S : \A y \in S : m >= y
  BY <1>3
<1>5. Max(S) \in S /\ \A y \in S : Max(S) >= y
  BY <1>4 DEF Max
<1> QED
  BY <1>5

\* A finite set of numbers has a bound.
LEMMA FiniteSetHasBound ==
  ASSUME NEW S \in SUBSET Nat, IsFiniteSet(S)
  PROVE  \E n \in Nat : S \subseteq 0 .. n
<1> DEFINE Bounded(T) == \E n \in Nat : T \subseteq 0 .. n
           Bad == {c \in Nat : \E T \in SUBSET S : Cardinality(T) = c /\ ~Bounded(T)}
<1> SUFFICES ASSUME ~Bounded(S) PROVE FALSE
  OBVIOUS
<1>1. Cardinality(S) \in Bad
  BY FS_CardinalityType
<1>2. PICK c \in Bad : \A d \in Bad : c <= d
  <2>1. Bad \in SUBSET Nat /\ Bad # {}
    BY <1>1
  <2> HIDE DEF Bad
  <2> QED
    BY <2>1, MinOfSet
<1>3. PICK T \in SUBSET S : Cardinality(T) = c /\ ~Bounded(T)
  BY <1>2
<1>4. T # {}
  <2>1. Bounded({})
    OBVIOUS
  <2> HIDE DEF Bounded
  <2> QED
    BY <1>3, <2>1
<1>5. PICK x \in T : TRUE
  BY <1>4
<1> DEFINE rest == T \ {x}
<1>6. IsFiniteSet(T)
  BY <1>3, FS_Subset
<1>7. rest \in SUBSET S /\ Cardinality(rest) = c - 1 /\ c - 1 \in Nat
  <2>1. IsFiniteSet(rest) /\ Cardinality(rest) = Cardinality(T) - 1
    BY <1>5, <1>6, FS_RemoveElement
  <2>2. Cardinality(rest) \in Nat
    BY <2>1, FS_CardinalityType
  <2> QED
    BY <1>3, <2>1, <2>2
<1>8. Bounded(rest)
  <2>1. c - 1 \notin Bad
    <3> HIDE DEF Bad
    <3>1. c \in Nat
      BY <1>2 DEF Bad
    <3> QED
      BY <1>2, <3>1
  <2> HIDE DEF Bounded, rest
  <2> QED
    BY <1>7, <2>1
<1>9. PICK n \in Nat : rest \subseteq 0 .. n
  BY <1>8
<1>10. T \subseteq 0 .. (n + x) /\ n + x \in Nat
  BY <1>3, <1>5, <1>9
<1> QED
  BY <1>3, <1>10

\* How many elements two and three different things make.
LEMMA SmallSets ==
  ASSUME NEW a, NEW b, a # b
  PROVE  /\ IsFiniteSet({a, b}) /\ Cardinality({a, b}) = 2
         /\ \A c : c # a /\ c # b => IsFiniteSet({a, b, c}) /\ Cardinality({a, b, c}) = 3
<1>1. IsFiniteSet({a}) /\ Cardinality({a}) = 1 /\ b \notin {a}
  BY FS_Singleton
<1>2. /\ IsFiniteSet({a} \cup {b})
      /\ Cardinality({a} \cup {b}) = IF b \in {a} THEN Cardinality({a}) ELSE Cardinality({a}) + 1
  BY <1>1, FS_AddElement, Zenon
<1>3. {a} \cup {b} = {a, b}
  OBVIOUS
<1>4. IsFiniteSet({a, b}) /\ Cardinality({a, b}) = 2
  BY <1>1, <1>2, <1>3
<1>5. ASSUME NEW c, c # a, c # b
      PROVE  IsFiniteSet({a, b, c}) /\ Cardinality({a, b, c}) = 3
  <2>1. /\ IsFiniteSet({a, b} \cup {c})
        /\ Cardinality({a, b} \cup {c})
             = IF c \in {a, b} THEN Cardinality({a, b}) ELSE Cardinality({a, b}) + 1
    BY <1>4, FS_AddElement, Zenon
  <2>2. {a, b} \cup {c} = {a, b, c} /\ c \notin {a, b}
    BY <1>5
  <2> QED
    BY <1>4, <2>1, <2>2
<1> QED
  BY <1>4, <1>5

\* A sequence with an element inserted before the i-th.
LEMMA InsertAtSeq ==
  ASSUME NEW S, NEW s \in Seq(S), NEW i \in 1 .. Len(s) + 1, NEW e \in S
  PROVE  /\ InsertAt(s, i, e) \in Seq(S)
         /\ Len(InsertAt(s, i, e)) = Len(s) + 1
         /\ \A k \in 1 .. Len(s) + 1 :
              InsertAt(s, i, e)[k] = IF k < i THEN s[k] ELSE IF k = i THEN e ELSE s[k - 1]
<1> DEFINE a == SubSeq(s, 1, i - 1)
           b == SubSeq(s, i, Len(s))
<1>1. Len(s) \in Nat /\ \A k \in 1 .. Len(s) : s[k] \in S
  BY LenProperties, ElementOfSeq
<1>2. /\ a \in Seq(S) /\ Len(a) = i - 1
      /\ \A k \in 1 .. i - 1 : a[k] = s[k]
  <2>1. \A k \in 1 .. i - 1 : s[k] \in S
    BY <1>1
  <2> QED
    BY <1>1, <2>1, SubSeqProperties
<1>3. /\ b \in Seq(S) /\ Len(b) = Len(s) - i + 1
      /\ \A k \in 1 .. Len(s) - i + 1 : b[k] = s[i + k - 1]
  BY <1>1, SubSeqProperties
<1>4. /\ <<e>> \in Seq(S) /\ Len(<<e>>) = 1 /\ <<e>>[1] = e
  OBVIOUS
<1> DEFINE c == a \o <<e>>
<1> HIDE DEF a, b
<1>5. /\ c \in Seq(S) /\ Len(c) = i
      /\ \A k \in 1 .. i : c[k] = IF k <= i - 1 THEN a[k] ELSE <<e>>[k - (i - 1)]
  BY <1>1, <1>2, <1>4, ConcatProperties
<1>6. \A k \in 1 .. i : c[k] = IF k < i THEN s[k] ELSE e
  BY <1>1, <1>2, <1>4, <1>5
<1> HIDE DEF c
<1>7. /\ c \o b \in Seq(S) /\ Len(c \o b) = Len(s) + 1
      /\ \A k \in 1 .. Len(s) + 1 : (c \o b)[k] = IF k <= i THEN c[k] ELSE b[k - i]
  BY <1>1, <1>3, <1>5, ConcatProperties
<1>8. \A k \in 1 .. Len(s) + 1 :
        (c \o b)[k] = IF k < i THEN s[k] ELSE IF k = i THEN e ELSE s[k - 1]
  BY <1>1, <1>3, <1>6, <1>7
<1>9. InsertAt(s, i, e) = c \o b
  BY DEF InsertAt, a, b, c
<1> QED
  BY <1>7, <1>8, <1>9

\* t is s with e at place i.
IsInsertion(t, s, i, e) ==
  /\ Len(t) = Len(s) + 1
  /\ \A k \in 1 .. Len(s) + 1 : t[k] = IF k < i THEN s[k] ELSE IF k = i THEN e ELSE s[k - 1]

\* The same, in one word.
LEMMA InsertAtIs ==
  ASSUME NEW S, NEW s \in Seq(S), NEW i \in 1 .. Len(s) + 1, NEW e \in S
  PROVE  IsInsertion(InsertAt(s, i, e), s, i, e)
BY InsertAtSeq DEF IsInsertion

\* A sequence without its i-th element.
LEMMA RemoveAtSeq ==
  ASSUME NEW S, NEW s \in Seq(S), NEW i \in 1 .. Len(s)
  PROVE  /\ RemoveAt(s, i) \in Seq(S)
         /\ Len(RemoveAt(s, i)) = Len(s) - 1
         /\ \A k \in 1 .. Len(s) - 1 : RemoveAt(s, i)[k] = IF k < i THEN s[k] ELSE s[k + 1]
<1> DEFINE a == SubSeq(s, 1, i - 1)
           b == SubSeq(s, i + 1, Len(s))
<1>1. Len(s) \in Nat /\ \A k \in 1 .. Len(s) : s[k] \in S
  BY LenProperties, ElementOfSeq
<1>2. /\ a \in Seq(S) /\ Len(a) = i - 1
      /\ \A k \in 1 .. i - 1 : a[k] = s[k]
  <2>1. \A k \in 1 .. i - 1 : s[k] \in S
    BY <1>1
  <2> QED
    BY <1>1, <2>1, SubSeqProperties
<1>3. /\ b \in Seq(S) /\ Len(b) = Len(s) - i
      /\ \A k \in 1 .. Len(s) - i : b[k] = s[i + k]
  <2>1. \A k \in i + 1 .. Len(s) : s[k] \in S
    BY <1>1
  <2> QED
    BY <1>1, <2>1, SubSeqProperties
<1> HIDE DEF a, b
<1>4. /\ a \o b \in Seq(S) /\ Len(a \o b) = Len(a) + Len(b)
      /\ \A k \in 1 .. Len(a) + Len(b) :
           (a \o b)[k] = IF k <= Len(a) THEN a[k] ELSE b[k - Len(a)]
  BY <1>2, <1>3, ConcatProperties
<1>5. Len(a) + Len(b) = Len(s) - 1
  BY <1>1, <1>2, <1>3
<1>a. ASSUME NEW k \in 1 .. Len(s) - 1
      PROVE  (a \o b)[k] = IF k < i THEN s[k] ELSE s[k + 1]
  <2>1. CASE k < i
    <3>1. k <= Len(a) /\ k \in 1 .. i - 1
      BY <1>1, <1>2, <2>1
    <3> QED
      BY <1>2, <1>4, <1>5, <2>1, <3>1
  <2>2. CASE ~(k < i)
    <3>1. /\ ~(k <= Len(a)) /\ k - Len(a) \in 1 .. Len(s) - i
          /\ i + (k - Len(a)) = k + 1
      BY <1>1, <1>2, <2>2
    <3>2. (a \o b)[k] = b[k - Len(a)]
      BY <1>4, <1>5, <3>1
    <3> QED
      BY <1>3, <2>2, <3>1, <3>2
  <2> QED
    BY <2>1, <2>2
<1>6. RemoveAt(s, i) = a \o b
  BY DEF RemoveAt, a, b
<1> QED
  BY <1>4, <1>5, <1>6, <1>a
-----------------------------------------------------------------------------
(* Lists without some of their elements.                                   *)

\* The recursive function that Remaining is defined by exists: were there an i up
\* to which it does not, there would be a least one.
LEMMA RemainingIs ==
  ASSUME NEW T, NEW s \in Seq(T), NEW gone
  PROVE  \E kept :
           /\ Remaining(s, gone) = kept[Len(s)]
           /\ \A n \in 0 .. Len(s) :
                kept[n] = IF n = 0 THEN <<>>
                          ELSE IF s[n] \in gone THEN kept[n - 1] ELSE Append(kept[n - 1], s[n])
<1> DEFINE Step(f, i) == IF i = 0 THEN <<>> 
                         ELSE IF s[i] \in gone THEN f[i - 1] ELSE Append(f[i - 1], s[i])
           IsPart(f, n) == f = [i \in 0 .. n |-> Step(f, i)]
           Bad == {n \in 0 .. Len(s) : ~ \E f : IsPart(f, n)}
<1>0. Len(s) \in Nat
  OBVIOUS
<1>1. ASSUME NEW n \in 0 .. Len(s) PROVE n \notin Bad
  <2> SUFFICES ASSUME Bad # {} PROVE FALSE
    OBVIOUS
  <2>1. PICK k \in Bad : \A l \in Bad : k <= l
    <3>1. Bad \in SUBSET Nat
      OBVIOUS
    <3> HIDE DEF Bad
    <3> QED
      BY <3>1, MinOfSet
  <2>2. k \in 0 .. Len(s) /\ ~ \E f : IsPart(f, k)
    OBVIOUS
  <2>3. k # 0
    <3>1. IsPart([i \in 0 .. 0 |-> <<>>], 0)
      OBVIOUS
    <3> QED
      BY <2>2, <3>1
  <2>4. PICK f : IsPart(f, k - 1)
    <3>1. k - 1 \in 0 .. Len(s) /\ k - 1 \notin Bad
      <4> HIDE DEF Bad
      <4> QED
        BY <2>1, <2>2, <2>3, <1>0
    <3> HIDE DEF IsPart
    <3> QED
      BY <3>1
  <2> DEFINE g == [i \in 0 .. k |-> IF i = k THEN Step(f, k) ELSE f[i]]
  <2>5. \A i \in 0 .. k : g[i] = Step(g, i)
    <3> SUFFICES ASSUME NEW i \in 0 .. k PROVE g[i] = Step(g, i)
      OBVIOUS
    <3>1. i # 0 => i - 1 \in 0 .. k - 1 /\ g[i - 1] = f[i - 1]
      BY <2>2
    <3>2. i # k => i \in 0 .. k - 1 /\ f[i] = Step(f, i)
      <4>1. i # k => i \in 0 .. k - 1
        BY <2>2
      <4> HIDE DEF Step
      <4> QED
        BY <2>4, <4>1
    <3>3. g[i] = Step(f, i)
      <4> CASE i = k
        OBVIOUS
      <4> CASE i # k
        <5>1. g[i] = f[i]
          OBVIOUS
        <5> HIDE DEF g, Step
        <5> QED BY <3>2, <5>1
      <4> QED OBVIOUS
    <3> HIDE DEF g
    <3> QED
      BY <3>1, <3>3
  <2>6. IsPart(g, k)
    <3>1. g = [i \in 0 .. k |-> g[i]]
      OBVIOUS
    <3> HIDE DEF g, Step
    <3> QED
      BY <2>5, <3>1
  <2> HIDE DEF IsPart
  <2> QED
    BY <2>2, <2>6
<1> DEFINE F == CHOOSE f : f = [i \in 0 .. Len(s) |->
                  IF i = 0 THEN <<>> 
                         ELSE IF s[i] \in gone THEN f[i - 1] ELSE Append(f[i - 1], s[i])]
<1>2. IsPart(F, Len(s))
  <2>1. \E f : IsPart(f, Len(s))
    <3> HIDE DEF IsPart
    <3> QED BY <1>0, <1>1
  <2> QED BY <2>1, Zenon
<1>3. Remaining(s, gone) = F[Len(s)]
  BY DEF Remaining
<1> HIDE DEF F
<1>4. \A n \in 0 .. Len(s) : F[n] = Step(F, n)
  BY <1>2
<1> QED
  BY <1>3, <1>4

\* A list has each element of S once.
OnceEach(s, S) == \A i, j \in 1 .. Len(s) : s[i] = s[j] /\ s[i] \in S => i = j

\* What an element more does to a list.
LEMMA AppendFacts ==
  ASSUME NEW T, NEW s \in Seq(T), NEW e \in T
  PROVE  /\ Append(s, e) \in Seq(T)
         /\ ToSet(Append(s, e)) = ToSet(s) \union {e}
         /\ \A S : OnceEach(s, S) /\ (e \in S => e \notin ToSet(s)) => OnceEach(Append(s, e), S)
<1>1. /\ Len(s) \in Nat /\ Append(s, e) \in Seq(T) /\ Len(Append(s, e)) = Len(s) + 1
      /\ \A k \in 1 .. Len(s) : Append(s, e)[k] = s[k]
      /\ Append(s, e)[Len(s) + 1] = e
      /\ ToSet(s) = {s[k] : k \in 1 .. Len(s)}
      /\ ToSet(Append(s, e)) = {Append(s, e)[k] : k \in 1 .. Len(s) + 1}
  BY LenProperties, AppendProperties DEF ToSet
<1> DEFINE t == Append(s, e)
<1> HIDE DEF t
<1>2. \A k \in 1 .. Len(s) + 1 : (k \in 1 .. Len(s) /\ t[k] = s[k]) \/ (k = Len(s) + 1 /\ t[k] = e)
  BY <1>1 DEF t
<1>3. \A k \in 1 .. Len(s) : k \in 1 .. Len(s) + 1 /\ t[k] = s[k]
  BY <1>1 DEF t
<1>4. Len(s) + 1 \in 1 .. Len(s) + 1 /\ t[Len(s) + 1] = e
  BY <1>1 DEF t
<1>5. ToSet(t) = ToSet(s) \union {e}
  <2>1. ToSet(t) = {t[k] : k \in 1 .. Len(s) + 1}
    BY <1>1 DEF t
  <2> QED
    BY <1>1, <1>2, <1>3, <1>4, <2>1
<1>6. ASSUME NEW S, OnceEach(s, S), e \in S => e \notin ToSet(s) PROVE OnceEach(t, S)
  <2>1. Len(t) = Len(s) + 1
    BY <1>1 DEF t
  <2>2. e \in S => \A k \in 1 .. Len(s) : s[k] # e
    BY <1>1, <1>6
  <2> QED
    BY <1>2, <1>6, <2>1, <2>2 DEF OnceEach
<1> QED
  BY <1>1, <1>5, <1>6 DEF t

\* What Remaining leaves.
LEMMA RemainingFacts ==
  ASSUME NEW T, NEW s \in Seq(T), NEW gone
  PROVE  /\ Remaining(s, gone) \in Seq(T)
         /\ ToSet(Remaining(s, gone)) = ToSet(s) \ gone
         /\ \A S : OnceEach(s, S) => OnceEach(Remaining(s, gone), S)
<1>1. PICK kept :
        /\ Remaining(s, gone) = kept[Len(s)]
        /\ \A n \in 0 .. Len(s) :
             kept[n] = IF n = 0 THEN <<>>
                       ELSE IF s[n] \in gone THEN kept[n - 1] ELSE Append(kept[n - 1], s[n])
  BY RemainingIs
<1>2. /\ Len(s) \in Nat /\ \A i \in 1 .. Len(s) : s[i] \in T
      /\ ToSet(s) = {s[i] : i \in 1 .. Len(s)}
  BY LenProperties DEF ToSet
<1> DEFINE Upto(n) == {s[i] : i \in 1 .. n}
           Fine(n) == /\ kept[n] \in Seq(T)
                      /\ ToSet(kept[n]) = Upto(n) \ gone
                      /\ \A S : OnceEach(s, S) => OnceEach(kept[n], S)
           Bad     == {n \in 0 .. Len(s) : ~Fine(n)}
<1>3. Bad = {}
  <2> SUFFICES ASSUME Bad # {} PROVE FALSE
    OBVIOUS
  <2>1. PICK k \in Bad : \A l \in Bad : k <= l
    <3>1. Bad \in SUBSET Nat
      BY <1>2
    <3> HIDE DEF Bad
    <3> QED
      BY <3>1, MinOfSet
  <2>2. k \in 0 .. Len(s) /\ ~Fine(k)
    OBVIOUS
  <2>3. CASE k = 0
    <3>1. kept[k] = <<>>
      BY <1>1, <2>2, <2>3
    <3>2. Upto(k) = {}
      BY <2>3
    <3> HIDE DEF Upto
    <3>3. ToSet(<<>>) = {} /\ \A S : OnceEach(<<>>, S)
      BY DEF ToSet, OnceEach
    <3> QED
      BY <2>2, <3>1, <3>2, <3>3
  <2>4. CASE k # 0
    <3>1. k - 1 \in 0 .. Len(s) /\ k \in 1 .. Len(s)
      BY <1>2, <2>2, <2>4
    <3>2. k - 1 \notin Bad
      <4> HIDE DEF Bad
      <4> QED
        BY <2>1, <3>1
    <3>3. Fine(k - 1)
      <4> HIDE DEF Fine
      <4> QED
        BY <3>1, <3>2
    <3>4. kept[k] = IF s[k] \in gone THEN kept[k - 1] ELSE Append(kept[k - 1], s[k])
      BY <1>1, <2>2, <2>4
    <3>5. Upto(k) = Upto(k - 1) \union {s[k]}
      <4>1. \A i : i \in 1 .. k <=> i \in 1 .. k - 1 \/ i = k
        BY <3>1
      <4> QED
        BY <4>1
    <3>6. \A i \in 1 .. k - 1 : i \in 1 .. Len(s) /\ i # k
      BY <1>2, <3>1
    <3>7. CASE s[k] \in gone
      BY <2>2, <3>3, <3>4, <3>5, <3>7
    <3>8. CASE s[k] \notin gone
      <4> DEFINE f == kept[k - 1]
                 e == s[k]
                 U == Upto(k - 1)
      <4>1. f \in Seq(T) /\ e \in T /\ ToSet(f) = U \ gone
            /\ \A S : OnceEach(s, S) => OnceEach(f, S)
        BY <1>2, <3>1, <3>3
      <4>2. ASSUME NEW S, OnceEach(s, S), e \in S PROVE e \notin U
        BY <3>1, <3>6, <4>2 DEF OnceEach
      <4>3. kept[k] = Append(f, e) /\ Upto(k) \ gone = (U \ gone) \union {e}
        BY <3>4, <3>5, <3>8
      <4>4. e \notin U => e \notin ToSet(f)
        BY <4>1
      <4> HIDE DEF f, e, U, Upto
      <4>5. /\ Append(f, e) \in Seq(T)
            /\ ToSet(Append(f, e)) = ToSet(f) \union {e}
            /\ \A S : OnceEach(f, S) /\ (e \in S => e \notin ToSet(f)) => OnceEach(Append(f, e), S)
        BY <4>1, AppendFacts
      <4>6. \A S : OnceEach(s, S) => OnceEach(kept[k], S)
        BY <4>1, <4>2, <4>3, <4>4, <4>5
      <4> QED
        BY <2>2, <4>1, <4>3, <4>5, <4>6
    <3> QED
      BY <3>7, <3>8
  <2> QED
    BY <2>3, <2>4
<1>4. Fine(Len(s))
  <2>1. Len(s) \in 0 .. Len(s)
    BY <1>2
  <2> HIDE DEF Fine
  <2> QED
    BY <1>3, <2>1
<1> QED
  BY <1>1, <1>2, <1>4

-----------------------------------------------------------------------------
(* Lists as sets of elements.                                              *)

\* The elements of a list, and those of a list without its head.
LEMMA TailFacts ==
  ASSUME NEW T, NEW s \in Seq(T)
  PROVE  /\ ToSet(s) \subseteq T /\ ToSet(<<>>) = {}
         /\ s # <<>> =>
              /\ Head(s) \in T /\ Tail(s) \in Seq(T)
              /\ ToSet(s) = {Head(s)} \union ToSet(Tail(s))
              /\ \A S : OnceEach(s, S) =>
                   OnceEach(Tail(s), S) /\ (Head(s) \in S => Head(s) \notin ToSet(Tail(s)))
<1>1. ToSet(s) \subseteq T /\ ToSet(<<>>) = {}
  BY ElementOfSeq, LenProperties DEF ToSet
<1>2. ASSUME s # <<>>
      PROVE  /\ Head(s) \in T /\ Tail(s) \in Seq(T)
             /\ ToSet(s) = {Head(s)} \union ToSet(Tail(s))
             /\ \A S : OnceEach(s, S) =>
                  OnceEach(Tail(s), S) /\ (Head(s) \in S => Head(s) \notin ToSet(Tail(s)))
  <2> DEFINE t == Tail(s)
  <2>1. /\ Head(s) = s[1] /\ t \in Seq(T) /\ Len(t) = Len(s) - 1
        /\ \A i \in 1 .. Len(t) : t[i] = s[i + 1]
        /\ Len(s) \in Nat \ {0} /\ s[1] \in T
        /\ ToSet(s) = {s[i] : i \in 1 .. Len(s)}
        /\ ToSet(t) = {t[i] : i \in 1 .. Len(t)}
    <3>1. /\ Head(s) = s[1] /\ t \in Seq(T) /\ Len(t) = Len(s) - 1
          /\ \A i \in 1 .. Len(t) : t[i] = s[i + 1]
      BY <1>2, HeadTailProperties
    <3>2. Len(s) \in Nat \ {0}
      BY <1>2, LenProperties, EmptySeq
    <3>3. 1 \in 1 .. Len(s)
      BY <3>2
    <3>4. s[1] \in T
      BY <3>3, ElementOfSeq
    <3> HIDE DEF t
    <3>5. DOMAIN s = 1 .. Len(s) /\ DOMAIN t = 1 .. Len(t)
      BY <3>1, LenProperties
    <3> QED
      BY <3>1, <3>2, <3>4, <3>5 DEF ToSet
  <2> HIDE DEF t
  <2>2. \A i \in 1 .. Len(t) : i + 1 \in 1 .. Len(s) /\ i + 1 # 1 /\ t[i] = s[i + 1]
    BY <2>1
  <2>3. \A i \in 1 .. Len(s) : i = 1 \/ (i - 1 \in 1 .. Len(t) /\ t[i - 1] = s[i])
    BY <2>1
  <2>4. ToSet(s) = {Head(s)} \union ToSet(t)
    BY <2>1, <2>2, <2>3
  <2>5. ASSUME NEW S, OnceEach(s, S)
        PROVE  OnceEach(t, S) /\ (Head(s) \in S => Head(s) \notin ToSet(t))
    <3>1. \A i, j \in 1 .. Len(s) : s[i] = s[j] /\ s[i] \in S => i = j
      BY <2>5 DEF OnceEach
    <3>2. OnceEach(t, S)
      BY <2>1, <2>2, <3>1 DEF OnceEach
    <3>3. 1 \in 1 .. Len(s)
      BY <2>1
    <3> QED
      BY <2>1, <2>2, <3>1, <3>2, <3>3
  <2> QED
    BY <2>1, <2>4, <2>5 DEF t
<1> QED
  BY <1>1, <1>2

\* A list after another, of which it repeats nothing that matters.
LEMMA ConcatFacts ==
  ASSUME NEW T, NEW s \in Seq(T), NEW t \in Seq(T)
  PROVE  /\ s \o t \in Seq(T)
         /\ ToSet(s \o t) = ToSet(s) \union ToSet(t)
         /\ \A S : OnceEach(s, S) /\ ToSet(t) \cap S = {} => OnceEach(s \o t, S)
<1> DEFINE c == s \o t
<1>1. /\ c \in Seq(T) /\ Len(c) = Len(s) + Len(t)
      /\ \A i \in 1 .. Len(s) + Len(t) : c[i] = IF i <= Len(s) THEN s[i] ELSE t[i - Len(s)]
      /\ Len(s) \in Nat /\ Len(t) \in Nat
      /\ ToSet(s) = {s[i] : i \in 1 .. Len(s)}
      /\ ToSet(t) = {t[i] : i \in 1 .. Len(t)}
      /\ ToSet(c) = {c[i] : i \in 1 .. Len(c)}
  BY ConcatProperties, LenProperties DEF ToSet
<1> HIDE DEF c
<1>2. \A i \in 1 .. Len(c) :
        (i \in 1 .. Len(s) /\ c[i] = s[i]) \/ (i - Len(s) \in 1 .. Len(t) /\ c[i] = t[i - Len(s)])
  BY <1>1
<1>3. \A i \in 1 .. Len(s) : i \in 1 .. Len(c) /\ c[i] = s[i]
  BY <1>1
<1>4. ASSUME NEW i \in 1 .. Len(t) PROVE i + Len(s) \in 1 .. Len(c) /\ c[i + Len(s)] = t[i]
  <2>1. /\ i + Len(s) \in 1 .. Len(s) + Len(t) /\ ~(i + Len(s) <= Len(s))
        /\ (i + Len(s)) - Len(s) = i
    BY <1>1
  <2> QED
    BY <1>1, <2>1
<1>5. ToSet(c) = ToSet(s) \union ToSet(t)
  BY ZenonT(60), <1>1, <1>2, <1>3, <1>4
<1>6. ASSUME NEW S, OnceEach(s, S), ToSet(t) \cap S = {} PROVE OnceEach(c, S)
  <2>1. \A i \in 1 .. Len(c) : c[i] \in S => i \in 1 .. Len(s) /\ c[i] = s[i]
    BY <1>1, <1>2, <1>6
  <2> QED
    BY <1>6, <2>1 DEF OnceEach
<1> QED
  BY <1>1, <1>5, <1>6 DEF c

\* A list without its i-th element.
LEMMA RemoveAtFacts ==
  ASSUME NEW T, NEW s \in Seq(T), NEW i \in 1 .. Len(s)
  PROVE  /\ RemoveAt(s, i) \in Seq(T)
         /\ ToSet(RemoveAt(s, i)) \subseteq ToSet(s)
         /\ ToSet(s) \subseteq ToSet(RemoveAt(s, i)) \union {s[i]}
<1> DEFINE t == RemoveAt(s, i)
<1>1. /\ t \in Seq(T) /\ Len(t) = Len(s) - 1 /\ Len(s) \in Nat
      /\ \A k \in 1 .. Len(s) - 1 : t[k] = IF k < i THEN s[k] ELSE s[k + 1]
      /\ ToSet(s) = {s[k] : k \in 1 .. Len(s)}
  BY RemoveAtSeq, LenProperties DEF ToSet
<1> HIDE DEF t
<1>2. ToSet(t) = {t[k] : k \in 1 .. Len(t)}
  BY <1>1, LenProperties DEF ToSet
<1>3. \A k \in 1 .. Len(t) : k \in 1 .. Len(s) /\ k + 1 \in 1 .. Len(s) /\ (t[k] = s[k] \/ t[k] = s[k + 1])
  BY <1>1
<1>4. \A k \in 1 .. Len(s) : k < i => k \in 1 .. Len(t) /\ t[k] = s[k]
  BY <1>1
<1>5. \A k \in 1 .. Len(s) : k > i => k - 1 \in 1 .. Len(t) /\ t[k - 1] = s[k]
  BY <1>1
<1>6. \A k \in 1 .. Len(s) : k < i \/ k > i \/ k = i
  BY <1>1
<1>7. ToSet(t) \subseteq ToSet(s)
  BY <1>1, <1>2, <1>3
<1>8. ToSet(s) \subseteq ToSet(t) \union {s[i]}
  BY ZenonT(60), <1>1, <1>2, <1>4, <1>5, <1>6
<1> QED
  BY <1>1, <1>7, <1>8 DEF t

-----------------------------------------------------------------------------
\* SetToSeq has each element of a finite set, once.
LEMMA SetToSeqFacts ==
  ASSUME NEW S, IsFiniteSet(S)
  PROVE  /\ SetToSeq(S) \in Seq(S)
         /\ \A i, j \in 1 .. Len(SetToSeq(S)) : SetToSeq(S)[i] = SetToSeq(S)[j] => i = j
         /\ \A x \in S : \E i \in 1 .. Len(SetToSeq(S)) : SetToSeq(S)[i] = x
<1> DEFINE n == Cardinality(S)
           f == SetToSeq(S)
<1>1. n \in Nat /\ ExistsBijection(1 .. n, S)
  BY FS_CardinalityType, FS_Bijection
<1>2. \E g \in [1 .. n -> S] : IsInjective(g)
  BY <1>1 DEF ExistsBijection, Bijection, Injection, IsInjective
<1>3. f \in [1 .. n -> S] /\ IsInjective(f)
  BY <1>2 DEF SetToSeq
<1>4. IsFiniteSet(1 .. n) /\ Cardinality(1 .. n) = n
  BY <1>1, FS_Interval
<1> HIDE DEF n, f
<1>5. f \in Injection(1 .. n, S)
  BY <1>3 DEF Injection, IsInjective
<1>6. f \in Surjection(1 .. n, S)
  <2>1. Cardinality(1 .. n) = Cardinality(S)
    BY <1>4 DEF n
  <2> QED
    BY <1>5, <2>1, FS_Injection
<1>7. f \in Seq(S) /\ Len(f) = n
  BY <1>1, <1>3, IsASeq, LenProperties
<1>8. \A x \in S : \E i \in 1 .. n : f[i] = x
  BY <1>6 DEF Surjection
<1>9. \A i, j \in 1 .. n : f[i] = f[j] => i = j
  BY <1>3 DEF IsInjective
<1> QED
  BY <1>7, <1>8, <1>9 DEF f
-----------------------------------------------------------------------------
(* The order of a list: no pair of R is in it, in this order.              *)

Avoids(s, R) == \A i, j \in 1 .. Len(s) : i < j => <<s[i], s[j]>> \notin R

\* An element at the end of a list is after all others.
LEMMA AvoidsAppend ==
  ASSUME NEW T, NEW s \in Seq(T), NEW e \in T, NEW R, Avoids(s, R),
         \A x \in ToSet(s) : <<x, e>> \notin R
  PROVE  Avoids(Append(s, e), R)
<1> DEFINE t == Append(s, e)
<1>1. /\ Len(s) \in Nat /\ Len(t) = Len(s) + 1
      /\ \A k \in 1 .. Len(s) : t[k] = s[k]
      /\ t[Len(s) + 1] = e
  BY LenProperties, AppendProperties
<1>2. \A k \in 1 .. Len(s) : s[k] \in ToSet(s)
  BY LenProperties DEF ToSet
<1> HIDE DEF t
<1>3. ASSUME NEW i \in 1 .. Len(t), NEW j \in 1 .. Len(t), i < j
      PROVE  <<t[i], t[j]>> \notin R
  <2>1. i \in 1 .. Len(s) /\ t[i] = s[i]
    BY <1>1, <1>3
  <2>2. CASE j = Len(s) + 1
    BY <1>1, <1>2, <2>1, <2>2
  <2>3. CASE j # Len(s) + 1
    <3>1. j \in 1 .. Len(s) /\ t[j] = s[j]
      BY <1>1, <1>3, <2>3
    <3> QED
      BY <1>3, <2>1, <3>1 DEF Avoids
  <2> QED
    BY <2>2, <2>3
<1> QED
  BY <1>3 DEF Avoids, t

\* The head of a list is before all others.
LEMMA AvoidsTail ==
  ASSUME NEW T, NEW s \in Seq(T), s # <<>>, NEW R, Avoids(s, R)
  PROVE  /\ Avoids(Tail(s), R)
         /\ \A y \in ToSet(Tail(s)) : <<Head(s), y>> \notin R
<1> DEFINE t == Tail(s)
<1>1. /\ Len(s) \in Nat /\ Len(s) >= 1 /\ Len(t) = Len(s) - 1
      /\ \A k \in 1 .. Len(t) : t[k] = s[k + 1]
      /\ Head(s) = s[1]
      /\ t \in Seq(T)
  BY HeadTailProperties, LenProperties, EmptySeq
<1>2. ToSet(t) = {t[k] : k \in 1 .. Len(t)}
  BY <1>1, LenProperties DEF ToSet
<1> HIDE DEF t
<1>3. ASSUME NEW i \in 1 .. Len(t), NEW j \in 1 .. Len(t), i < j
      PROVE  <<t[i], t[j]>> \notin R
  <2>1. i + 1 \in 1 .. Len(s) /\ j + 1 \in 1 .. Len(s) /\ i + 1 < j + 1
    BY <1>1, <1>3
  <2>2. <<s[i + 1], s[j + 1]>> \notin R
    BY <2>1 DEF Avoids
  <2> QED
    BY <1>1, <2>2
<1>4. ASSUME NEW j \in 1 .. Len(t) PROVE <<Head(s), t[j]>> \notin R
  <2>1. 1 \in 1 .. Len(s) /\ j + 1 \in 1 .. Len(s) /\ 1 < j + 1
    BY <1>1
  <2>2. <<s[1], s[j + 1]>> \notin R
    BY <2>1 DEF Avoids
  <2> QED
    BY <1>1, <2>2
<1> QED
  BY <1>2, <1>3, <1>4 DEF Avoids, t

\* In two lists one after the other, those of the first are before those of the second.
LEMMA AvoidsConcat ==
  ASSUME NEW T, NEW s \in Seq(T), NEW t \in Seq(T), NEW R, Avoids(s, R), Avoids(t, R),
         \A x \in ToSet(s), y \in ToSet(t) : <<x, y>> \notin R
  PROVE  Avoids(s \o t, R)
<1> DEFINE c == s \o t
<1>1. /\ Len(s) \in Nat /\ Len(t) \in Nat /\ Len(c) = Len(s) + Len(t)
      /\ \A k \in 1 .. Len(s) + Len(t) : c[k] = IF k <= Len(s) THEN s[k] ELSE t[k - Len(s)]
  BY ConcatProperties, LenProperties
<1>2. /\ \A k \in 1 .. Len(s) : s[k] \in ToSet(s)
      /\ \A k \in 1 .. Len(t) : t[k] \in ToSet(t)
  BY LenProperties DEF ToSet
<1> HIDE DEF c
<1>3. ASSUME NEW i \in 1 .. Len(c), NEW j \in 1 .. Len(c), i < j
      PROVE  <<c[i], c[j]>> \notin R
  <2>1. CASE j <= Len(s)
    <3>1. i \in 1 .. Len(s) /\ j \in 1 .. Len(s) /\ c[i] = s[i] /\ c[j] = s[j]
      BY <1>1, <1>3, <2>1
    <3> QED
      BY <1>3, <3>1 DEF Avoids
  <2>2. CASE i <= Len(s) /\ j > Len(s)
    <3>1. i \in 1 .. Len(s) /\ c[i] = s[i]
      BY <1>1, <2>2
    <3>2. j - Len(s) \in 1 .. Len(t) /\ c[j] = t[j - Len(s)]
      BY <1>1, <2>2
    <3> QED
      BY <1>2, <3>1, <3>2
  <2>3. CASE i > Len(s)
    <3>1. i - Len(s) \in 1 .. Len(t) /\ c[i] = t[i - Len(s)]
      BY <1>1, <2>3
    <3>2. j - Len(s) \in 1 .. Len(t) /\ c[j] = t[j - Len(s)] /\ i - Len(s) < j - Len(s)
      BY <1>1, <1>3, <2>3
    <3> QED
      BY <3>1, <3>2 DEF Avoids
  <2> QED
    BY <1>1, <2>1, <2>2, <2>3
<1> QED
  BY <1>3 DEF Avoids, c

\* Remaining keeps the order.
LEMMA AvoidsRemaining ==
  ASSUME NEW T, NEW s \in Seq(T), NEW gone, NEW R, Avoids(s, R)
  PROVE  Avoids(Remaining(s, gone), R)
<1>1. PICK kept :
        /\ Remaining(s, gone) = kept[Len(s)]
        /\ \A n \in 0 .. Len(s) :
             kept[n] = IF n = 0 THEN <<>>
                       ELSE IF s[n] \in gone THEN kept[n - 1] ELSE Append(kept[n - 1], s[n])
  BY RemainingIs
<1>2. Len(s) \in Nat /\ \A i \in 1 .. Len(s) : s[i] \in T
  BY LenProperties
<1> DEFINE Upto(n) == {s[i] : i \in 1 .. n}
           Fine(n) == kept[n] \in Seq(T) /\ ToSet(kept[n]) \subseteq Upto(n) /\ Avoids(kept[n], R)
           Bad     == {n \in 0 .. Len(s) : ~Fine(n)}
<1>3. Bad = {}
  <2> SUFFICES ASSUME Bad # {} PROVE FALSE
    OBVIOUS
  <2>1. PICK k \in Bad : \A l \in Bad : k <= l
    <3>1. Bad \in SUBSET Nat
      BY <1>2
    <3> HIDE DEF Bad
    <3> QED
      BY <3>1, MinOfSet
  <2>2. k \in 0 .. Len(s) /\ ~Fine(k)
    OBVIOUS
  <2>3. CASE k = 0
    <3>1. kept[k] = <<>>
      BY <1>1, <2>2, <2>3
    <3>2. ToSet(<<>>) = {} /\ Avoids(<<>>, R)
      BY DEF ToSet, Avoids
    <3> QED
      BY <2>2, <3>1, <3>2
  <2>4. CASE k # 0
    <3>1. k - 1 \in 0 .. Len(s) /\ k \in 1 .. Len(s)
      BY <1>2, <2>2, <2>4
    <3>2. Fine(k - 1)
      <4>1. k - 1 \notin Bad
        <5> HIDE DEF Bad
        <5> QED
          BY <2>1, <3>1
      <4> HIDE DEF Fine
      <4> QED
        BY <3>1, <4>1
    <3>3. kept[k] = IF s[k] \in gone THEN kept[k - 1] ELSE Append(kept[k - 1], s[k])
      BY <1>1, <2>2, <2>4
    <3>4. Upto(k) = Upto(k - 1) \union {s[k]}
      <4>1. \A i : i \in 1 .. k <=> i \in 1 .. k - 1 \/ i = k
        BY <3>1
      <4> QED
        BY <4>1
    <3>5. CASE s[k] \in gone
      BY <2>2, <3>2, <3>3, <3>4, <3>5
    <3>6. CASE s[k] \notin gone
      <4> DEFINE f == kept[k - 1]
                 e == s[k]
                 U == Upto(k - 1)
      <4>1. f \in Seq(T) /\ e \in T /\ ToSet(f) \subseteq U /\ Avoids(f, R)
        BY <1>2, <3>1, <3>2
      <4>2. \A x \in U : <<x, e>> \notin R
        <5>1. \A i \in 1 .. k - 1 : i \in 1 .. Len(s) /\ i < k
          BY <1>2, <3>1
        <5> QED
          BY <3>1, <5>1 DEF Avoids
      <4>3. kept[k] = Append(f, e) /\ Upto(k) = U \union {e}
        BY <3>3, <3>4, <3>6
      <4> HIDE DEF f, e, U, Upto
      <4>4. Append(f, e) \in Seq(T) /\ ToSet(Append(f, e)) = ToSet(f) \union {e}
        BY <4>1, AppendFacts
      <4>5. Avoids(Append(f, e), R)
        BY <4>1, <4>2, AvoidsAppend
      <4> QED
        BY <2>2, <4>1, <4>3, <4>4, <4>5
    <3> QED
      BY <3>5, <3>6
  <2> QED
    BY <2>3, <2>4
<1>4. Fine(Len(s))
  <2>1. Len(s) \in 0 .. Len(s)
    BY <1>2
  <2> HIDE DEF Fine
  <2> QED
    BY <1>3, <2>1
<1> QED
  BY <1>1, <1>4

=============================================================================
