--------------------------- MODULE ClpTreeTheorems ---------------------------
(***************************************************************************)
(* The tree of CLPs: ports and neighbours are the same thing, the next CLP *)
(* on the way to another is a neighbour, and the ways to two neighbours    *)
(* are the same from everywhere else.                                      *)
(***************************************************************************)
EXTENDS ClpTree, ListTheorems

\* A CLP but the root is a child of its parent, and nobody else's.
LEMMA Family ==
  ASSUME NEW r \in Clps
  PROVE  /\ r \in Nat
         /\ r # 0 => /\ Parent(r) \in Clps /\ Parent(r) < r
                     /\ r = Left(Parent(r)) \/ r = Right(Parent(r))
         /\ r = 0 => Parent(r) \notin Clps
         /\ Parent(Left(r)) = r /\ Parent(Right(r)) = r
         /\ Left(r) > r /\ Right(r) > r /\ Left(r) # Right(r)
         /\ Right(r) \in Clps <=> Left(r) \in Clps
BY ClpTreeAssumption DEF Clps, Parent, Left, Right

\* Lineage is the recursive function its definition says: were there a CLP up to
\* which no such function exists, there would be a least one.
LEMMA LineageExists ==
  \A r \in Clps : Lineage[r] = IF r = 0 THEN {0} ELSE {r} \union Lineage[Parent(r)]
<1> DEFINE Step(f, r) == IF r = 0 THEN {0} ELSE {r} \union f[Parent(r)]
           IsPart(f, n) == f = [r \in 0 .. n |-> Step(f, r)]
           Bad == {n \in Clps : ~ \E f : IsPart(f, n)}
<1>1. Bad = {}
  <2> SUFFICES ASSUME Bad # {} PROVE FALSE
    OBVIOUS
  <2>1. PICK k \in Bad : \A l \in Bad : k <= l
    <3>1. Bad \in SUBSET Nat
      BY ClpTreeAssumption DEF Clps
    <3> HIDE DEF Bad
    <3> QED
      BY <3>1, MinOfSet
  <2>2. k \in Clps /\ k \in Nat /\ ~ \E f : IsPart(f, k)
    BY Family
  <2>3. k # 0
    <3>1. IsPart([r \in 0 .. 0 |-> {0}], 0)
      OBVIOUS
    <3> QED
      BY <2>2, <3>1
  <2>4. PICK f : IsPart(f, k - 1)
    <3>1. k - 1 \in Clps /\ k - 1 \notin Bad
      <4> HIDE DEF Bad
      <4> QED
        BY <2>1, <2>2, <2>3, ClpTreeAssumption DEF Clps
    <3> HIDE DEF IsPart
    <3> QED
      BY <3>1
  <2> DEFINE g == [r \in 0 .. k |-> IF r = k THEN Step(f, k) ELSE f[r]]
  <2>5. \A r \in 0 .. k : g[r] = Step(g, r)
    <3> SUFFICES ASSUME NEW r \in 0 .. k PROVE g[r] = Step(g, r)
      OBVIOUS
    <3>1. r \in Clps
      BY <2>2, ClpTreeAssumption DEF Clps
    <3>2. r # 0 => Parent(r) \in 0 .. k - 1
      BY <2>2, <3>1, Family DEF Clps
    <3>3. r # 0 => g[Parent(r)] = f[Parent(r)]
      BY <2>2, <3>2
    <3>4. r # k => r \in 0 .. k - 1 /\ f[r] = Step(f, r)
      <4>1. r # k => r \in 0 .. k - 1
        BY <2>2
      <4> HIDE DEF Step
      <4> QED
        BY <2>4, <4>1
    <3>5. g[r] = Step(f, r)
      <4> CASE r = k
        OBVIOUS
      <4> CASE r # k
        <5>1. g[r] = f[r]
          OBVIOUS
        <5> HIDE DEF g, Step
        <5> QED
          BY <3>4, <5>1
      <4> QED
        OBVIOUS
    <3> HIDE DEF g
    <3> QED
      BY <3>3, <3>5
  <2>6. IsPart(g, k)
    <3>1. g = [r \in 0 .. k |-> g[r]]
      OBVIOUS
    <3> HIDE DEF g, Step
    <3> QED
      BY <2>5, <3>1
  <2> HIDE DEF IsPart
  <2> QED
    BY <2>2, <2>6
<1> DEFINE F == CHOOSE f : f = [r \in Clps |-> IF r = 0 THEN {0} ELSE {r} \union f[Parent(r)]]
<1>2. F = [r \in Clps |-> Step(F, r)]
  <2>1. NumberOfClps - 1 \in Clps
    BY ClpTreeAssumption DEF Clps
  <2>2. \E f : IsPart(f, NumberOfClps - 1)
    <3> HIDE DEF IsPart
    <3> QED
      BY <1>1, <2>1
  <2> QED
    BY <2>2, Zenon DEF Clps
<1>3. Lineage = F
  BY DEF Lineage
<1> HIDE DEF F
<1> QED
  BY <1>2, <1>3

\* What a CLP's lineage is: itself and its parent's, up to the root.
LEMMA LineageFacts ==
  ASSUME NEW r \in Clps
  PROVE  /\ r \in Lineage[r] /\ 0 \in Lineage[r]
         /\ Lineage[r] \subseteq Clps
         /\ \A c \in Lineage[r] : c <= r
         /\ r = 0 => Lineage[r] = {0}
         /\ r # 0 => Lineage[r] = {r} \union Lineage[Parent(r)]
<1> DEFINE Good(n) == /\ 0 \in Lineage[n] /\ Lineage[n] \subseteq Clps
                      /\ \A c \in Lineage[n] : c <= n
           Bad == {n \in Clps : ~Good(n)}
<1>1. Bad = {}
  <2> SUFFICES ASSUME Bad # {} PROVE FALSE
    OBVIOUS
  <2>1. PICK k \in Bad : \A l \in Bad : k <= l
    <3>1. Bad \in SUBSET Nat
      BY Family
    <3> HIDE DEF Bad
    <3> QED
      BY <3>1, MinOfSet
  <2>2. k \in Clps /\ ~Good(k)
    OBVIOUS
  <2>3. CASE k = 0
    <3>1. Lineage[k] = {0}
      BY <2>2, <2>3, LineageExists
    <3> QED
      BY <2>2, <2>3, <3>1
  <2>4. CASE k # 0
    <3>1. Parent(k) \in Clps /\ Parent(k) < k /\ k \in Nat /\ Parent(k) \in Nat
      BY <2>2, <2>4, Family
    <3>2. Parent(k) \notin Bad
      <4> HIDE DEF Bad
      <4> QED
        BY <2>1, <3>1
    <3>3. Good(Parent(k))
      BY <3>1, <3>2
    <3>4. Lineage[k] = {k} \union Lineage[Parent(k)]
      BY <2>2, <2>4, LineageExists
    <3>5. \A c \in Lineage[Parent(k)] : c \in Nat
      BY <3>3, Family
    <3> QED
      BY <2>2, <3>1, <3>3, <3>4, <3>5
  <2> QED
    BY <2>3, <2>4
<1>2. Good(r)
  BY <1>1
<1>3. Lineage[r] = IF r = 0 THEN {0} ELSE {r} \union Lineage[Parent(r)]
  BY LineageExists
<1> QED
  BY <1>2, <1>3

-----------------------------------------------------------------------------
(* Ports.                                                                  *)

\* The ALPs of a CLP: the least and the greatest are all there are.
LEMMA AlpsOfClp ==
  ASSUME NEW c \in Clps, AlpsAt(c) # {}
  PROVE  /\ Min(AlpsAt(c)) \in AlpsAt(c) /\ Max(AlpsAt(c)) \in AlpsAt(c)
         /\ Cardinality(AlpsAt(c)) = 2 <=> Min(AlpsAt(c)) # Max(AlpsAt(c))
         /\ AlpsAt(c) = {Min(AlpsAt(c)), Max(AlpsAt(c))}
<1> DEFINE S == AlpsAt(c)
<1>1. S \in SUBSET Nat /\ IsFiniteSet(S) /\ Cardinality(S) <= 2 /\ S # {}
  <2>1. S \subseteq Alps /\ S = {r \in Alps : AlpToClp[r] = c}
    BY DEF AlpsAt
  <2> QED
    BY <2>1, ClpTreeAssumption, FS_Subset
<1>2. PICK n \in Nat : S \subseteq 0 .. n
  <2> HIDE DEF S
  <2> QED
    BY <1>1, FiniteSetHasBound
<1> HIDE DEF S
<1>3. Min(S) \in S /\ Max(S) \in S /\ Min(S) \in Nat /\ Max(S) \in Nat
  BY <1>1, <1>2, MinOfSet, MaxOfSet
<1> DEFINE a == Min(S)
           b == Max(S)
<1> HIDE DEF a, b
<1>4. ASSUME NEW x \in S, x # a, x # b, a # b PROVE FALSE
  <2>1. IsFiniteSet({a, b, x}) /\ Cardinality({a, b, x}) = 3
    BY <1>4, SmallSets
  <2>2. {a, b, x} \subseteq S
    BY <1>3 DEF a, b
  <2>3. Cardinality({a, b, x}) <= Cardinality(S) /\ Cardinality(S) \in Nat
    BY <1>1, <2>2, FS_Subset, FS_CardinalityType
  <2> QED
    BY <1>1, <2>1, <2>3
<1>5. ASSUME NEW x \in S, x # a, a = b PROVE FALSE
  <2>1. a <= x /\ x <= b /\ x \in Nat /\ a \in Nat
    BY <1>1, <1>2, <1>3, MinOfSet, MaxOfSet DEF a, b
  <2> QED
    BY <1>5, <2>1
<1>6. S = {a, b}
  BY <1>3, <1>4, <1>5 DEF a, b
<1>7. a = b => Cardinality(S) = 1
  BY <1>6, FS_Singleton
<1>8. a # b => Cardinality(S) = 2
  BY <1>6, SmallSets
<1> QED
  BY <1>3, <1>6, <1>7, <1>8 DEF S, a, b

\* A port leads to a neighbour, and different ports to different ones.
LEMMA PortRank ==
  ASSUME NEW c \in Clps, NEW p \in PortsOf(c)
  PROVE  /\ p \in Ports
         /\ <<c, RankOf(c, p)>> \in Neighbours
         /\ \A q \in PortsOf(c) : RankOf(c, q) = RankOf(c, p) => q = p
         /\ PortTo(c, RankOf(c, p)) = p
         /\ RankOf(c, p) \in Clps <=> p = "UP" \/ ~IsParentClp(c)
<1>1. /\ Alps \intersect Clps = {} /\ \A r \in Alps : AlpToClp[r] \in Clps
      /\ AlpsAt(c) = {r \in Alps : AlpToClp[r] = c}
  BY ClpTreeAssumption DEF AlpsAt
<1>2. \A q \in PortsOf(c) :
        /\ q \in Ports
        /\ q = "UP" => c # 0 /\ RankOf(c, q) = Parent(c)
        /\ q = "LEFT" /\ ~IsParentClp(c) => RankOf(c, q) = Left(c)
        /\ q = "RIGHT" /\ ~IsParentClp(c) => RankOf(c, q) = Right(c)
        /\ q = "LEFT" /\ IsParentClp(c) => AlpsAt(c) # {} /\ RankOf(c, q) = Min(AlpsAt(c))
        /\ q = "RIGHT" /\ IsParentClp(c) =>
              Cardinality(AlpsAt(c)) = 2 /\ RankOf(c, q) = Max(AlpsAt(c))
  BY DEF PortsOf, Ports, RankOf
<1>3. Cardinality({}) = 0
  BY FS_EmptySet
<1>4. AlpsAt(c) # {} => /\ Min(AlpsAt(c)) \in AlpsAt(c) /\ Max(AlpsAt(c)) \in AlpsAt(c)
                        /\ Cardinality(AlpsAt(c)) = 2 <=> Min(AlpsAt(c)) # Max(AlpsAt(c))
  BY AlpsOfClp
<1>5. /\ c # 0 => Parent(c) \in Clps /\ Parent(c) < c
      /\ Left(c) > c /\ Right(c) > c /\ Left(c) # Right(c) /\ c \in Nat
      /\ Parent(Left(c)) = c /\ Parent(Right(c)) = c
      /\ ~IsParentClp(c) => Left(c) \in Clps /\ Right(c) \in Clps
      /\ \A r \in Clps : r \in Nat
  BY Family DEF IsParentClp
<1>6. ASSUME NEW q \in PortsOf(c)
      PROVE  /\ q = "UP" \/ ~IsParentClp(c) => RankOf(c, q) \in Clps
             /\ ~(q = "UP" \/ ~IsParentClp(c)) => RankOf(c, q) \in AlpsAt(c)
  BY <1>2, <1>3, <1>4, <1>5 DEF Ports
<1>7. ASSUME NEW q \in PortsOf(c), RankOf(c, q) = RankOf(c, p) PROVE q = p
  <2>1. CASE IsParentClp(c)
    BY <1>1, <1>2, <1>3, <1>4, <1>6, <1>7, <2>1 DEF Ports
  <2>2. CASE ~IsParentClp(c)
    <3>1. c # 0 => Parent(c) # Left(c) /\ Parent(c) # Right(c)
      BY <1>5 DEF Left, Right
    <3> QED
      BY <1>2, <1>5, <1>7, <2>2, <3>1 DEF Ports
  <2> QED
    BY <2>1, <2>2
<1>8. <<c, RankOf(c, p)>> \in Neighbours
  <2>1. CASE p = "UP" \/ ~IsParentClp(c)
    <3> DEFINE pair == <<c, RankOf(c, p)>>
    <3>1. Parent(c) = RankOf(c, p) \/ Parent(RankOf(c, p)) = c
      BY <1>2, <1>5, <2>1 DEF Ports
    <3>2. pair \in Clps \X Clps /\ pair[1] = c /\ pair[2] = RankOf(c, p)
      BY <1>6, <2>1
    <3> HIDE DEF pair
    <3>3. pair \in Neighbours
      BY <3>1, <3>2 DEF Neighbours
    <3> QED
      BY <3>3 DEF pair
  <2>2. CASE ~(p = "UP" \/ ~IsParentClp(c))
    <3>1. RankOf(c, p) \in Alps /\ AlpToClp[RankOf(c, p)] = c
      BY <1>1, <1>6, <2>2
    <3> QED
      BY <3>1 DEF Neighbours
  <2> QED
    BY <2>1, <2>2
<1>9. PortTo(c, RankOf(c, p)) = p
  BY <1>7 DEF PortTo
<1> QED
  BY <1>1, <1>2, <1>6, <1>7, <1>8, <1>9

\* Every neighbour has a port.
LEMMA PortToNeighbour ==
  ASSUME NEW c \in Clps, NEW d, <<c, d>> \in Neighbours
  PROVE  PortTo(c, d) \in PortsOf(c) /\ RankOf(c, PortTo(c, d)) = d
<1>1. SUFFICES \E p \in PortsOf(c) : RankOf(c, p) = d
  BY DEF PortTo
<1>2. \/ d \in Clps /\ (Parent(c) = d \/ Parent(d) = c)
      \/ d \in Alps /\ AlpToClp[d] = c
  <2>1. Alps \intersect Clps = {}
    BY ClpTreeAssumption
  <2> QED
    BY <2>1 DEF Neighbours
<1>3. CASE d \in Clps /\ Parent(c) = d
  <2>1. "UP" \in PortsOf(c) /\ RankOf(c, "UP") = d
    BY <1>3, Family DEF PortsOf, Ports, RankOf
  <2> QED
    BY <2>1
<1>4. CASE d \in Clps /\ Parent(d) = c
  <2>1. d = Left(c) \/ d = Right(c)
    BY <1>4, Family
  <2>2. ~IsParentClp(c)
    BY <1>4, <2>1, Family DEF IsParentClp
  <2>3. /\ "LEFT" \in PortsOf(c) /\ RankOf(c, "LEFT") = Left(c)
        /\ "RIGHT" \in PortsOf(c) /\ RankOf(c, "RIGHT") = Right(c)
    BY <2>2 DEF PortsOf, Ports, RankOf
  <2> QED
    BY <2>1, <2>3
<1>5. CASE d \in Alps /\ AlpToClp[d] = c
  <2>1. d \in AlpsAt(c) /\ IsParentClp(c)
    BY <1>5, ClpTreeAssumption DEF AlpsAt
  <2>2. "LEFT" \in PortsOf(c) /\ RankOf(c, "LEFT") = Min(AlpsAt(c))
    BY <2>1 DEF PortsOf, Ports, RankOf
  <2>3. Cardinality(AlpsAt(c)) = 2 =>
          "RIGHT" \in PortsOf(c) /\ RankOf(c, "RIGHT") = Max(AlpsAt(c))
    BY <2>1 DEF PortsOf, Ports, RankOf
  <2>4. d = Min(AlpsAt(c)) \/ (d = Max(AlpsAt(c)) /\ Cardinality(AlpsAt(c)) = 2)
    BY <2>1, AlpsOfClp
  <2> QED
    BY <2>2, <2>3, <2>4
<1> QED
  BY <1>2, <1>3, <1>4, <1>5

-----------------------------------------------------------------------------
(* Ways.                                                                   *)

\* Neighbourhood is symmetric among CLPs, and nobody is its own neighbour.
LEMMA Adjacent ==
  ASSUME NEW x \in Clps, NEW y \in Clps, <<x, y>> \in Neighbours
  PROVE  /\ x # y /\ <<y, x>> \in Neighbours
         /\ \/ x # 0 /\ Parent(x) = y
            \/ y # 0 /\ Parent(y) = x
<1>1. Parent(x) = y \/ Parent(y) = x
  BY ClpTreeAssumption DEF Neighbours
<1>2. x # y
  BY <1>1, Family DEF Parent
<1>3. <<y, x>> \in Neighbours
  <2> DEFINE pair == <<y, x>>
  <2>1. pair \in Clps \X Clps /\ pair[1] = y /\ pair[2] = x
    OBVIOUS
  <2> HIDE DEF pair
  <2>2. pair \in Neighbours
    BY <1>1, <2>1 DEF Neighbours
  <2> QED
    BY <2>2 DEF pair
<1> QED
  BY <1>1, <1>2, <1>3, Family

\* A CLP above another one has a child above it too.
LEMMA ChildOnTheWay ==
  ASSUME NEW r \in Clps, NEW c \in Lineage[r], c # r
  PROVE  Left(c) \in Lineage[r] \/ Right(c) \in Lineage[r]
<1> DEFINE Good(n) == \A d \in Lineage[n] : d # n => \/ Left(d) \in Lineage[n]
                                                     \/ Right(d) \in Lineage[n]
           Bad == {n \in Clps : ~Good(n)}
<1>1. Bad = {}
  <2> SUFFICES ASSUME Bad # {} PROVE FALSE
    OBVIOUS
  <2>1. PICK k \in Bad : \A l \in Bad : k <= l
    <3>1. Bad \in SUBSET Nat
      BY Family
    <3> HIDE DEF Bad
    <3> QED
      BY <3>1, MinOfSet
  <2>2. k \in Clps /\ ~Good(k)
    OBVIOUS
  <2>3. k # 0
    BY <2>2, LineageFacts
  <2>4. /\ Parent(k) \in Clps /\ Parent(k) < k /\ k \in Nat /\ Parent(k) \in Nat
        /\ k = Left(Parent(k)) \/ k = Right(Parent(k))
    BY <2>2, <2>3, Family
  <2>5. Good(Parent(k))
    <3>1. Parent(k) \notin Bad
      <4> HIDE DEF Bad
      <4> QED
        BY <2>1, <2>4
    <3> QED
      BY <2>4, <3>1
  <2>6. Lineage[k] = {k} \union Lineage[Parent(k)]
    BY <2>2, <2>3, LineageFacts
  <2> QED
    BY <2>2, <2>4, <2>5, <2>6
<1> QED
  BY <1>1

\* The next CLP on the way to another is a neighbour.
LEMMA NextIsNeighbour ==
  ASSUME NEW c \in Clps, NEW r \in Clps, c # r
  PROVE  NextClp(c, r) \in Clps /\ <<c, NextClp(c, r)>> \in Neighbours
<1> DEFINE n == NextClp(c, r)
<1>1. CASE c \notin Lineage[r]
  <2>1. c # 0
    BY <1>1, LineageFacts
  <2> QED
    BY <1>1, <2>1, Family DEF NextClp, Neighbours
<1>2. CASE c \in Lineage[r]
  <2>1. /\ n = Left(c) \/ n = Right(c)
        /\ n \in Lineage[r]
    BY <1>2, ChildOnTheWay DEF NextClp
  <2>2. n \in Clps /\ Parent(n) = c
    BY <2>1, LineageFacts, Family
  <2> HIDE DEF n
  <2>3. <<n, c>> \in Neighbours
    BY <2>2, Family DEF Neighbours
  <2>4. <<c, n>> \in Neighbours
    BY <2>2, <2>3, Adjacent
  <2> QED
    BY <2>2, <2>4 DEF n
<1> QED
  BY <1>1, <1>2

\* The way to a neighbour is the neighbour.
LEMMA NextToNeighbour ==
  ASSUME NEW x \in Clps, NEW y \in Clps, <<x, y>> \in Neighbours
  PROVE  NextClp(x, y) = y
<1>1. CASE x # 0 /\ Parent(x) = y
  <2>1. x \notin Lineage[y]
    BY <1>1, Family, LineageFacts
  <2> QED
    BY <1>1, <2>1 DEF NextClp
<1>2. CASE y # 0 /\ Parent(y) = x
  <2>1. y = Left(x) \/ y = Right(x)
    BY <1>2, Family
  <2>2. Lineage[y] = {y} \union Lineage[x] /\ x \in Lineage[y]
    BY <1>2, LineageFacts
  <2>3. Left(x) \notin Lineage[x]
    BY Family, LineageFacts
  <2>4. Left(x) # Right(x)
    BY Family
  <2> QED
    BY <2>1, <2>2, <2>3, <2>4 DEF NextClp
<1> QED
  BY <1>1, <1>2, Adjacent

\* There is a port for every ALP, wherever it is attached.
LEMMA PortToAlpIsPort ==
  ASSUME NEW c \in Clps, NEW alp \in Alps
  PROVE  PortToAlp(c, alp) \in PortsOf(c)
<1>1. AlpToClp[alp] \in Clps
  BY ClpTreeAssumption
<1>2. CASE AlpToClp[alp] = c
  <2>1. <<c, alp>> \in Neighbours
    BY <1>2 DEF Neighbours
  <2> QED
    BY <1>2, <2>1, PortToNeighbour DEF PortToAlp
<1>3. CASE AlpToClp[alp] # c
  BY <1>1, <1>3, NextIsNeighbour, PortToNeighbour DEF PortToAlp
<1> QED
  BY <1>2, <1>3

\* From a CLP that is neither of two neighbours, both are the same way.
LEMMA NextAlike ==
  ASSUME NEW x \in Clps, NEW y \in Clps, <<x, y>> \in Neighbours,
         NEW c \in Clps, c # x, c # y
  PROVE  NextClp(c, x) = NextClp(c, y)
<1>1. ASSUME NEW a \in Clps, NEW b \in Clps, a # 0, Parent(a) = b, c # a, c # b
      PROVE  NextClp(c, a) = NextClp(c, b)
  <2>1. Lineage[a] = {a} \union Lineage[b]
    BY <1>1, LineageFacts
  <2>2. Parent(Left(c)) = c /\ Parent(Right(c)) = c
    BY Family
  <2>3. c \in Lineage[a] <=> c \in Lineage[b]
    BY <1>1, <2>1
  <2>4. Left(c) \in Lineage[a] <=> Left(c) \in Lineage[b]
    BY <1>1, <2>1, <2>2
  <2> QED
    BY <2>3, <2>4 DEF NextClp
<1>2. Parent(x) = y \/ Parent(y) = x
  BY ClpTreeAssumption DEF Neighbours
<1>3. Parent(x) = y => x # 0
  BY Family
<1>4. Parent(y) = x => y # 0
  BY Family
<1> QED
  BY <1>1, <1>2, <1>3, <1>4

-----------------------------------------------------------------------------
(* Distances.                                                              *)

\* What is above only one of two CLPs.
Apart(c, d) == (Lineage[c] \ Lineage[d]) \union (Lineage[d] \ Lineage[c])

\* Lineages are finite, and so is what two of them do not share.
LEMMA ApartIsFinite ==
  ASSUME NEW c \in Clps, NEW d \in Clps
  PROVE  /\ IsFiniteSet(Apart(c, d)) /\ Apart(c, d) = Apart(d, c)
         /\ Distance(c, d) = Cardinality(Apart(c, d)) /\ Distance(c, d) = Distance(d, c)
         /\ Distance(c, d) \in Nat /\ Distance(c, d) <= NumberOfClps
         /\ Distance(c, d) = 0 <=> c = d
<1>1. NumberOfClps \in Nat /\ Clps = 0 .. NumberOfClps - 1
  BY ClpTreeAssumption DEF Clps
<1>2. IsFiniteSet(Clps) /\ Cardinality(Clps) = NumberOfClps
  <2>1. IsFiniteSet(0 .. NumberOfClps - 1)
        /\ Cardinality(0 .. NumberOfClps - 1) =
             IF 0 > NumberOfClps - 1 THEN 0 ELSE (NumberOfClps - 1) - 0 + 1
    BY <1>1, FS_Interval
  <2> QED
    BY <1>1, <2>1
<1>3. Apart(c, d) \subseteq Clps
  BY LineageFacts DEF Apart
<1>4. /\ IsFiniteSet(Apart(c, d)) /\ Cardinality(Apart(c, d)) <= Cardinality(Clps)
      /\ Cardinality(Apart(c, d)) \in Nat
  BY <1>2, <1>3, FS_Subset, FS_CardinalityType
<1>5. Apart(c, d) = Apart(d, c)
  BY DEF Apart
<1>6. Distance(c, d) = Cardinality(Apart(c, d)) /\ Distance(d, c) = Cardinality(Apart(d, c))
  BY DEF Distance, Apart
<1>7. Cardinality(Apart(c, d)) = 0 <=> Apart(c, d) = {}
  BY <1>4, FS_EmptySet
<1>8. Apart(c, d) = {} <=> c = d
  <2>1. ASSUME Apart(c, d) = {} PROVE c = d
    <3>1. c \in Lineage[d] /\ d \in Lineage[c]
      BY <2>1, LineageFacts DEF Apart
    <3>2. c <= d /\ d <= c /\ c \in Nat /\ d \in Nat
      BY <3>1, LineageFacts, Family
    <3> QED
      BY <3>2
  <2> QED
    BY <2>1 DEF Apart
<1> QED
  BY <1>2, <1>4, <1>5, <1>6, <1>7, <1>8

\* There is no shorter way than the way.
LEMMA Triangle ==
  ASSUME NEW a \in Clps, NEW b \in Clps, NEW c \in Clps
  PROVE  Distance(a, c) <= Distance(a, b) + Distance(b, c)
<1> DEFINE S == Apart(a, b)
           T == Apart(b, c)
<1>1. /\ IsFiniteSet(S) /\ IsFiniteSet(T) /\ IsFiniteSet(Apart(a, c))
      /\ Distance(a, b) = Cardinality(S) /\ Distance(b, c) = Cardinality(T)
      /\ Distance(a, c) = Cardinality(Apart(a, c))
  BY ApartIsFinite
<1>2. Apart(a, c) \subseteq S \union T
  BY DEF Apart
<1> HIDE DEF S, T
<1>3. /\ IsFiniteSet(S \union T) /\ IsFiniteSet(S \intersect T)
      /\ Cardinality(S \union T) = Cardinality(S) + Cardinality(T) - Cardinality(S \intersect T)
  BY <1>1, FS_Union, FS_Intersection
<1>4. Cardinality(Apart(a, c)) <= Cardinality(S \union T)
  BY <1>2, <1>3, FS_Subset
<1>5. /\ Cardinality(S) \in Nat /\ Cardinality(T) \in Nat /\ Cardinality(S \intersect T) \in Nat
      /\ Cardinality(Apart(a, c)) \in Nat
  BY <1>1, <1>3, FS_CardinalityType
<1> QED
  BY <1>1, <1>3, <1>4, <1>5

\* A child is one step from its parent, and on the way to whoever it is above.
LEMMA ChildDistance ==
  ASSUME NEW a \in Clps, a # 0, NEW t \in Clps
  PROVE  /\ a \in Lineage[t] => Distance(t, Parent(a)) = Distance(t, a) + 1
         /\ a \notin Lineage[t] => Distance(t, a) = Distance(t, Parent(a)) + 1
         /\ a \in Lineage[t] => Parent(a) \in Lineage[t]
<1> DEFINE b == Parent(a)
<1>1. b \in Clps /\ b < a /\ a \in Nat
  BY Family
<1>2. Lineage[a] = {a} \union Lineage[b] /\ a \notin Lineage[b]
  <2>1. \A c \in Lineage[b] : c <= b /\ c \in Nat
    BY <1>1, LineageFacts, Family
  <2>2. b \in Nat
    BY <1>1, Family
  <2>3. a \notin Lineage[b]
    BY <1>1, <2>1, <2>2
  <2> QED
    BY <2>3, LineageFacts
<1>3. a \in Lineage[t] => b \in Lineage[t]
  <2> DEFINE Good(n) == \A d \in Lineage[n] : d # 0 => Parent(d) \in Lineage[n]
             Bad == {n \in Clps : ~Good(n)}
  <2>1. Bad = {}
    <3> SUFFICES ASSUME Bad # {} PROVE FALSE
      OBVIOUS
    <3>1. PICK k \in Bad : \A l \in Bad : k <= l
      <4>1. Bad \in SUBSET Nat
        BY Family
      <4> HIDE DEF Bad
      <4> QED
        BY <4>1, MinOfSet
    <3>2. k \in Clps /\ ~Good(k)
      OBVIOUS
    <3>3. k # 0
      BY <3>2, LineageFacts
    <3>4. /\ Parent(k) \in Clps /\ Parent(k) < k /\ k \in Nat /\ Parent(k) \in Nat
      BY <3>2, <3>3, Family
    <3>5. Good(Parent(k))
      <4>1. Parent(k) \notin Bad
        <5> HIDE DEF Bad
        <5> QED
          BY <3>1, <3>4
      <4> QED
        BY <3>4, <4>1
    <3>6. Lineage[k] = {k} \union Lineage[Parent(k)] /\ Parent(k) \in Lineage[Parent(k)]
      BY <3>2, <3>3, <3>4, LineageFacts
    <3> QED
      BY <3>2, <3>5, <3>6
  <2> QED
    BY <2>1
<1>4. /\ IsFiniteSet(Apart(t, a)) /\ IsFiniteSet(Apart(t, b))
      /\ Distance(t, a) = Cardinality(Apart(t, a)) /\ Distance(t, b) = Cardinality(Apart(t, b))
  BY <1>1, ApartIsFinite
<1>5. a \in Lineage[t] => Apart(t, b) = Apart(t, a) \union {a} /\ a \notin Apart(t, a)
  BY <1>2 DEF Apart
<1>6. a \notin Lineage[t] => Apart(t, a) = Apart(t, b) \union {a} /\ a \notin Apart(t, b)
  BY <1>2 DEF Apart
<1> HIDE DEF b
<1>7. a \in Lineage[t] => Distance(t, b) = Distance(t, a) + 1
  BY <1>4, <1>5, FS_AddElement
<1>8. a \notin Lineage[t] => Distance(t, a) = Distance(t, b) + 1
  BY <1>4, <1>6, FS_AddElement
<1> QED
  BY <1>3, <1>7, <1>8 DEF b

\* No CLP is below both children of another.
LEMMA OneChildOnTheWay ==
  ASSUME NEW r \in Clps, NEW c \in Clps
  PROVE  ~(Left(c) \in Lineage[r] /\ Right(c) \in Lineage[r])
<1> DEFINE Good(n) == ~(Left(c) \in Lineage[n] /\ Right(c) \in Lineage[n])
           Bad == {n \in Clps : ~Good(n)}
<1>1. Bad = {}
  <2> SUFFICES ASSUME Bad # {} PROVE FALSE
    OBVIOUS
  <2>1. PICK k \in Bad : \A l \in Bad : k <= l
    <3>1. Bad \in SUBSET Nat
      BY Family
    <3> HIDE DEF Bad
    <3> QED
      BY <3>1, MinOfSet
  <2>2. k \in Clps /\ ~Good(k)
    OBVIOUS
  <2>3. /\ Parent(Left(c)) = c /\ Parent(Right(c)) = c /\ Left(c) # Right(c)
        /\ Left(c) > c /\ Right(c) > c /\ c \in Nat
    BY Family
  <2>4. k # 0
    BY <2>2, <2>3, LineageFacts
  <2>5. /\ Parent(k) \in Clps /\ Parent(k) < k /\ k \in Nat /\ Parent(k) \in Nat
    BY <2>2, <2>4, Family
  <2>6. Good(Parent(k))
    <3>1. Parent(k) \notin Bad
      <4> HIDE DEF Bad
      <4> QED
        BY <2>1, <2>5
    <3> QED
      BY <2>5, <3>1
  <2>7. Lineage[k] = {k} \union Lineage[Parent(k)]
    BY <2>2, <2>4, LineageFacts
  <2>8. \A d \in Lineage[c] : d <= c /\ d \in Nat
    BY LineageFacts, Family
  <2>9. k = Left(c) \/ k = Right(c)
    BY <2>2, <2>6, <2>7
  <2>10. Parent(k) = c
    BY <2>3, <2>9
  <2>11. Left(c) \notin Lineage[c] /\ Right(c) \notin Lineage[c]
    BY <2>3, <2>8
  <2> QED
    BY <2>2, <2>3, <2>7, <2>10, <2>11
<1> QED
  BY <1>1

\* From one neighbour to the next it is one step further or one step nearer, and
\* nearer only on the way.
LEMMA NeighbourDistance ==
  ASSUME NEW x \in Clps, NEW y \in Clps, <<x, y>> \in Neighbours, NEW t \in Clps
  PROVE  /\ Distance(y, t) = Distance(x, t) + 1 \/ Distance(y, t) = Distance(x, t) - 1
         /\ Distance(y, t) = Distance(x, t) - 1 <=> x # t /\ y = NextClp(x, t)
<1>1. /\ Distance(x, t) = Distance(t, x) /\ Distance(x, t) \in Nat
      /\ Distance(y, t) = Distance(t, y) /\ Distance(y, t) \in Nat
      /\ Distance(x, t) = 0 <=> x = t
  BY ApartIsFinite
<1>2. Parent(Left(x)) = x /\ Parent(Right(x)) = x /\ Left(x) # Right(x) /\ Left(x) # 0 /\ Right(x) # 0
  BY Family
<1>3. CASE x # 0 /\ Parent(x) = y
  <2>1. /\ x \in Lineage[t] => Distance(t, y) = Distance(t, x) + 1
        /\ x \notin Lineage[t] => Distance(t, x) = Distance(t, y) + 1
    BY <1>3, ChildDistance
  <2>2. x \notin Lineage[t] => x # t /\ y = NextClp(x, t)
    BY <1>3, LineageFacts DEF NextClp
  <2>3. x \in Lineage[t] /\ x # t => y # NextClp(x, t)
    <3>1. y < x /\ Left(x) > x /\ Right(x) > x /\ x \in Nat /\ y \in Nat
      BY <1>3, Family
    <3> QED
      BY <3>1 DEF NextClp
  <2> QED
    BY <1>1, <2>1, <2>2, <2>3
<1>4. CASE y # 0 /\ Parent(y) = x
  <2>1. /\ y \in Lineage[t] => Distance(t, x) = Distance(t, y) + 1
        /\ y \notin Lineage[t] => Distance(t, y) = Distance(t, x) + 1
        /\ y \in Lineage[t] => x \in Lineage[t]
    BY <1>4, ChildDistance
  <2>2. y = Left(x) \/ y = Right(x)
    BY <1>4, Family
  <2>3. y \in Lineage[t] => x # t /\ y = NextClp(x, t)
    <3>1. HAVE y \in Lineage[t]
    <3>2. x # t
      BY <1>1, <2>1, <3>1
    <3>3. ~(Left(x) \in Lineage[t] /\ Right(x) \in Lineage[t])
      BY OneChildOnTheWay
    <3> QED
      BY <2>1, <2>2, <3>1, <3>2, <3>3 DEF NextClp
  <2>4. y \notin Lineage[t] /\ x # t => y # NextClp(x, t)
    <3>1. CASE x \notin Lineage[t]
      <4>1. y > x /\ (x # 0 => Parent(x) < x) /\ x \in Nat /\ y \in Nat /\ (x = 0 => x \in Lineage[t])
        BY <1>2, <2>2, Family, LineageFacts
      <4>2. x # 0 /\ Parent(x) \in Clps /\ Parent(x) \in Nat
        BY <3>1, <4>1, Family
      <4> QED
        BY <3>1, <4>1, <4>2 DEF NextClp
    <3>2. CASE x \in Lineage[t] /\ x # t
      <4>1. Left(x) \in Lineage[t] \/ Right(x) \in Lineage[t]
        BY <3>2, ChildOnTheWay
      <4> QED
        BY <1>2, <2>2, <3>2, <4>1 DEF NextClp
    <3> QED
      BY <3>1, <3>2
  <2> QED
    BY <1>1, <2>1, <2>3, <2>4
<1> QED
  BY <1>3, <1>4, Adjacent

\* Going on from a CLP on the way from one to another, one stays on that way.
LEMMA StepOnWay ==
  ASSUME NEW a \in Clps, NEW t \in Clps, NEW h \in Clps,
         Distance(a, t) + Distance(t, h) = Distance(a, h), t # h
  PROVE  LET n == NextClp(t, h)
         IN /\ n \in Clps /\ <<t, n>> \in Neighbours
            /\ Distance(n, h) = Distance(t, h) - 1
            /\ Distance(a, n) + Distance(n, h) = Distance(a, h)
            /\ n # a /\ NextClp(n, a) = t
<1> DEFINE n == NextClp(t, h)
<1>1. n \in Clps /\ <<t, n>> \in Neighbours
  BY NextIsNeighbour
<1> HIDE DEF n
<1>2. Distance(n, h) = Distance(t, h) - 1
  BY <1>1, NeighbourDistance DEF n
<1>3. Distance(n, a) = Distance(t, a) + 1 \/ Distance(n, a) = Distance(t, a) - 1
  BY <1>1, NeighbourDistance
<1>4. /\ Distance(a, h) <= Distance(a, n) + Distance(n, h)
      /\ Distance(a, h) \in Nat /\ Distance(n, h) \in Nat /\ Distance(t, h) \in Nat
      /\ Distance(a, n) = Distance(n, a) /\ Distance(a, t) = Distance(t, a)
      /\ Distance(a, n) \in Nat /\ Distance(a, t) \in Nat
      /\ Distance(n, a) = 0 <=> n = a
  BY <1>1, Triangle, ApartIsFinite
<1>5. Distance(n, a) = Distance(t, a) + 1
  BY <1>2, <1>3, <1>4
<1>6. <<n, t>> \in Neighbours
  BY <1>1, Adjacent
<1>7. NextClp(n, a) = t
  <2>1. Distance(t, a) = Distance(n, a) - 1
    BY <1>4, <1>5
  <2> QED
    BY <1>1, <1>6, <2>1, NeighbourDistance
<1>8. /\ Distance(a, n) + Distance(n, h) = Distance(a, h)
      /\ n # a
  BY <1>2, <1>4, <1>5
<1> QED
  BY <1>1, <1>2, <1>7, <1>8 DEF n

\* Who is on the way from a CLP is on the way from the next one.
LEMMA NextOnWay ==
  ASSUME NEW t \in Clps, NEW r \in Clps, NEW h \in Clps, r # t,
         Distance(t, r) + Distance(r, h) = Distance(t, h)
  PROVE  /\ t # h
         /\ LET n == NextClp(t, h)
            IN n \in Clps /\ Distance(n, r) + Distance(r, h) = Distance(n, h)
<1>1. /\ Distance(t, r) \in Nat /\ Distance(r, h) \in Nat /\ Distance(t, h) \in Nat
      /\ Distance(t, r) = 0 <=> t = r
      /\ Distance(t, h) = 0 <=> t = h
  BY ApartIsFinite
<1>2. t # h
  BY <1>1
<1> DEFINE m == NextClp(t, r)
<1>3. m \in Clps /\ <<t, m>> \in Neighbours
  BY NextIsNeighbour
<1> HIDE DEF m
<1>4. Distance(m, r) = Distance(t, r) - 1
  BY <1>3, NeighbourDistance DEF m
<1>5. /\ Distance(m, h) <= Distance(m, r) + Distance(r, h)
      /\ Distance(m, r) \in Nat /\ Distance(m, h) \in Nat
  BY <1>3, Triangle, ApartIsFinite
<1>6. Distance(m, h) = Distance(t, h) - 1
  <2>1. Distance(m, h) = Distance(t, h) + 1 \/ Distance(m, h) = Distance(t, h) - 1
    BY <1>3, NeighbourDistance
  <2> QED
    BY <1>1, <1>4, <1>5, <2>1
<1>7. m = NextClp(t, h)
  BY <1>3, <1>6, NeighbourDistance
<1> QED
  BY <1>1, <1>2, <1>3, <1>4, <1>5, <1>6, <1>7
=============================================================================
