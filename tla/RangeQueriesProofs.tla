------------------------- MODULE RangeQueriesProofs -------------------------
(***************************************************************************)
(* Proofs about RangeQueries, for any tree, variables, values and queries: *)
(* its type invariant; that a reply comes when it is expected and a query  *)
(* when it is not; that the anti-message of a query finds every CLP where  *)
(* the query is noted; and that an answer which is not right any more is   *)
(* rolled back.                                                            *)
(*                                                                         *)
(* All of them follow a query along the way between each CLP and its       *)
(* agent, one edge of the tree at a time.  On an edge there is at most one *)
(* message about the query (Once), and an anti-message behind it           *)
(* (AllFollowed).  That stale answers are rolled back is SoundState: each  *)
(* range contains those it stands for, up to the news on its way, a query  *)
(* is blocked outside ranges only, and what has been found of a variable   *)
(* is right or the query is noted where the change will meet it.           *)
(***************************************************************************)
EXTENDS RangeQueries, ClpTreeTheorems

-----------------------------------------------------------------------------
(* Types.                                                                  *)

Pairs     == Int \X Int
Ranges    == {r \in [min : Pairs, max : Pairs] : Leq(r.min, r.max)}
Infos     == [query : Queries, blocked : BOOLEAN]
Entries   == [outstanding : SUBSET Ports, found : SUBSET Found]
Trackers  == UNION {[S -> Entries] : S \in SUBSET Queries}

QueryMessages  == [kind : {"query"}, query : Queries, found : SUBSET Found]
AntiMessages   == [kind : {"anti"}, query : Queries]
UpdateMessages == [kind : {"update"}, range : Ranges, source : AllPorts]
Messages       == QueryMessages \union AntiMessages \union UpdateMessages

\* The port and the neighbour of CLP c in the direction of the agent that asks q.
UpPort(q, c) == PortToAlp(c, From[q])
Up(q, c)     == RankOf(c, UpPort(q, c))

\* What may be on its way on which link, when the queries in as were asked and those
\* in cs cancelled: an agent is sent replies to its queries only, and anti-messages go
\* away from it.
Allowed(pair, m, as, cs) ==
  /\ m.kind = "query" =>
       /\ m.query \in as
       /\ pair[1] \in Alps => pair[1] = From[m.query]
       /\ pair[2] \in Alps => pair[2] = From[m.query]
  /\ m.kind = "anti" => m.query \in cs /\ pair[2] \in Clps /\ pair[1] = Up(m.query, pair[2])
  /\ m.kind = "update" => pair \in Clps \X Clps

TypedState ==
  /\ value \in [Variables -> Pairs] /\ \A v \in Variables : value[v] \in Values[v]
  /\ range \in [Clps -> [AllPorts -> Ranges \union {NoRange}]]
  /\ noted \in [Clps -> [AllPorts -> Seq(Infos)]]
  /\ tracker \in [Clps -> Trackers]
  /\ link \in [Neighbours -> Seq(Messages)]
  /\ changes \in 0 .. MaxChanges
  /\ answer \in [Queries -> {NoAnswer} \union SUBSET Found]
  /\ replaced \subseteq Clps \X Ports \X Clps

Known ==
  /\ asked \subseteq Queries /\ cancelled \subseteq asked /\ rolledBack \subseteq asked
  /\ lost \subseteq asked /\ crossed \subseteq asked /\ misled \subseteq asked
  /\ \A c \in Clps : \A q \in DOMAIN tracker[c] :
       q \in asked /\ tracker[c][q].outstanding \subseteq ClpPorts(c) \ {UpPort(q, c)}
  /\ \A c \in Clps : \A p \in AllPorts : \A e \in ToSet(noted[c][p]) :
       e.query \in asked /\ p \in (ClpPorts(c) \union {"HERE"}) \ {UpPort(e.query, c)}

ClpPairs == {pair \in Neighbours : pair \in Clps \X Clps}

AllAllowed == \A pair \in Neighbours : \A m \in ToSet(link[pair]) : Allowed(pair, m, asked, cancelled)

Typed == TypedState /\ Known /\ AllAllowed

-----------------------------------------------------------------------------
(* The numbers of a finite set have a least and a greatest one, so the     *)
(* range of a finite set of points is a range.                             *)

\* A set that has no least number can be made smaller: then it is infinite.
LEMMA FiniteSetOfInts ==
  ASSUME NEW S \in SUBSET Int, IsFiniteSet(S), S # {}
  PROVE  /\ Min(S) \in S /\ Max(S) \in S
         /\ \A y \in S : Min(S) <= y /\ y <= Max(S)
<1> DEFINE Fine(T) == \E x, y \in T : \A z \in T : x <= z /\ z <= y
           Bad == {n \in Nat : \E T \in SUBSET S : T # {} /\ Cardinality(T) = n /\ ~Fine(T)}
<1>1. Bad = {}
  <2> SUFFICES ASSUME Bad # {} PROVE FALSE
    OBVIOUS
  <2>1. PICK n \in Bad : \A l \in Bad : n <= l
    <3>1. Bad \in SUBSET Nat
      OBVIOUS
    <3> HIDE DEF Bad
    <3> QED
      BY <3>1, MinOfSet
  <2>2. PICK T \in SUBSET S : T # {} /\ Cardinality(T) = n /\ ~Fine(T)
    <3> HIDE DEF Fine
    <3> QED
      OBVIOUS
  <2>3. n \in Nat /\ IsFiniteSet(T)
    BY FS_Subset
  <2>4. PICK t \in T : TRUE
    BY <2>2
  <2> DEFINE U == T \ {t}
  <2>5. IsFiniteSet(U) /\ Cardinality(U) = n - 1
    BY <2>2, <2>3, <2>4, FS_RemoveElement
  <2>6. U # {}
    <3>1. t \in Int /\ (U = {} => T = {t})
      BY <2>4
    <3>2. \A x \in Int : Fine({x})
      OBVIOUS
    <3> HIDE DEF Fine, U
    <3> QED
      BY <2>2, <3>1, <3>2
  <2>7. Fine(U)
    <3>1. n - 1 \in Nat
      BY <2>5, FS_CardinalityType
    <3>2. n - 1 \notin Bad
      <4> HIDE DEF Bad
      <4> QED
        BY <2>1, <2>3, <3>1
    <3>3. U \in SUBSET S
      OBVIOUS
    <3> HIDE DEF Fine, U
    <3> QED
      BY <2>5, <2>6, <3>1, <3>2, <3>3
  <2>8. PICK x \in U, y \in U : \A z \in U : x <= z /\ z <= y
    BY <2>7
  <2>9. \A z \in T : z = t \/ z \in U
    OBVIOUS
  <2>10. x \in Int /\ y \in Int /\ t \in Int /\ T \subseteq Int /\ x \in T /\ y \in T
    BY <2>4
  <2> HIDE DEF U
  <2>11. \E a, b \in T : \A z \in T : a <= z /\ z <= b
    <3>1. \E a \in T : a <= x /\ a <= t
      <4>1. CASE x <= t
        BY <2>10, <4>1
      <4>2. CASE ~(x <= t)
        BY <2>4, <2>10, <4>2
      <4> QED
        BY <4>1, <4>2
    <3>2. \E b \in T : y <= b /\ t <= b
      <4>1. CASE t <= y
        BY <2>10, <4>1
      <4>2. CASE ~(t <= y)
        BY <2>4, <2>10, <4>2
      <4> QED
        BY <4>1, <4>2
    <3>3. PICK a \in T : a <= x /\ a <= t
      BY <3>1
    <3>4. PICK b \in T : y <= b /\ t <= b
      BY <3>2
    <3>5. \A z \in T : a <= z /\ z <= b
      <4> SUFFICES ASSUME NEW z \in T PROVE a <= z /\ z <= b
        OBVIOUS
      <4>1. a \in Int /\ b \in Int /\ z \in Int
        BY <2>10
      <4>2. z = t \/ (x <= z /\ z <= y)
        BY <2>8, <2>9
      <4> QED
        BY <2>10, <3>3, <3>4, <4>1, <4>2
    <3> QED
      BY <3>5
  <2> QED
    BY <2>2, <2>11
<1>2. Cardinality(S) \in Nat
  BY FS_CardinalityType
<1>3. Fine(S)
  <2>1. S \in SUBSET S
    OBVIOUS
  <2> HIDE DEF Fine
  <2> QED
    BY <1>1, <1>2, <2>1
<1>4. \E x \in S : \A z \in S : x <= z
  BY <1>3
<1>5. \E y \in S : \A z \in S : y >= z
  <2>1. PICK y \in S : \A z \in S : z <= y
    BY <1>3
  <2> QED
    BY <2>1
<1>6. Min(S) \in S /\ \A y \in S : Min(S) <= y
  BY <1>4 DEF Min
<1>7. Max(S) \in S /\ \A y \in S : Max(S) >= y
  BY <1>5 DEF Max
<1> QED
  BY <1>6, <1>7

\* A function of a finite set has finitely many values.
LEMMA FiniteImage ==
  ASSUME NEW f, IsFiniteSet(DOMAIN f)
  PROVE  IsFiniteSet({f[x] : x \in DOMAIN f})
<1> DEFINE T == {f[x] : x \in DOMAIN f}
           g == [x \in DOMAIN f |-> f[x]]
<1>1. g \in Surjection(DOMAIN f, T)
  BY DEF Surjection
<1> HIDE DEF T, g
<1>2. IsFiniteSet(T)
  BY <1>1, FS_Surjection
<1> QED
  BY <1>2 DEF T

\* The range of some points is the least one around them.
LEMMA RangeOfPoints ==
  ASSUME NEW P \in SUBSET Pairs, IsFiniteSet(P), P # {}
  PROVE  /\ RangeOf(P) \in Ranges /\ RangeOf(P) # NoRange
         /\ \A p \in P : IsValueOverlapping(RangeOf(P), p)
<1> DEFINE Xs == {p[1] : p \in P}
           Ys == {p[2] : p \in P}
<1>1. Xs \in SUBSET Int /\ Ys \in SUBSET Int /\ Xs # {} /\ Ys # {}
  BY DEF Pairs
<1>2. IsFiniteSet(Xs) /\ IsFiniteSet(Ys)
  <2> DEFINE f == [p \in P |-> p[1]]
             g == [p \in P |-> p[2]]
  <2>1. DOMAIN f = P /\ DOMAIN g = P /\ \A p \in P : f[p] = p[1] /\ g[p] = p[2]
    OBVIOUS
  <2> HIDE DEF f, g
  <2>2. IsFiniteSet({f[x] : x \in DOMAIN f}) /\ IsFiniteSet({g[x] : x \in DOMAIN g})
    BY <2>1, FiniteImage
  <2>3. {f[x] : x \in DOMAIN f} = Xs /\ {g[x] : x \in DOMAIN g} = Ys
    BY <2>1
  <2> QED
    BY <2>2, <2>3
<1>3. RangeOf(P) = [min |-> <<Min(Xs), Min(Ys)>>, max |-> <<Max(Xs), Max(Ys)>>]
  BY DEF RangeOf
<1>4. /\ Min(Xs) \in Xs /\ Max(Xs) \in Xs /\ \A y \in Xs : Min(Xs) <= y /\ y <= Max(Xs)
      /\ Min(Ys) \in Ys /\ Max(Ys) \in Ys /\ \A y \in Ys : Min(Ys) <= y /\ y <= Max(Ys)
  <2> HIDE DEF Xs, Ys
  <2> QED
    BY <1>1, <1>2, FiniteSetOfInts
<1>5. \A p \in P : p[1] \in Xs /\ p[2] \in Ys
  OBVIOUS
<1> HIDE DEF Xs, Ys
<1>6. RangeOf(P) \in Ranges
  <2>1. /\ Min(Xs) \in Int /\ Max(Xs) \in Int /\ Min(Ys) \in Int /\ Max(Ys) \in Int
        /\ Min(Xs) <= Max(Xs) /\ Min(Ys) <= Max(Ys)
    BY <1>1, <1>4
  <2> QED
    BY <1>3, <2>1 DEF Ranges, Pairs, Leq
<1>7. RangeOf(P) # NoRange
  BY <1>3 DEF NoRange
<1>8. \A p \in P : IsValueOverlapping(RangeOf(P), p)
  BY <1>3, <1>4, <1>5 DEF IsValueOverlapping, Leq
<1> QED
  BY <1>6, <1>7, <1>8

-----------------------------------------------------------------------------
(* The direction of a query's agent.                                       *)

\* Two neighbours are CLPs, or an ALP and its CLP.
LEMMA NeighbourKinds ==
  ASSUME NEW pair \in Neighbours
  PROVE  /\ pair = <<pair[1], pair[2]>> /\ <<pair[2], pair[1]>> \in Neighbours
         /\ pair[1] \in Clps <=> pair[1] \notin Alps
         /\ pair[2] \in Clps <=> pair[2] \notin Alps
         /\ pair[1] \in Alps => pair[2] = AlpToClp[pair[1]] /\ pair[2] \in Clps
         /\ pair[2] \in Alps => pair[1] = AlpToClp[pair[2]] /\ pair[1] \in Clps
         /\ pair[1] # pair[2]
<1>1. CASE pair \in Clps \X Clps
  <2>1. PICK x \in Clps, y \in Clps : pair = <<x, y>>
    BY <1>1
  <2>2. x # y /\ <<y, x>> \in Neighbours
    BY <2>1, Adjacent
  <2>3. x \notin Alps /\ y \notin Alps
    BY ClpTreeAssumption
  <2> QED
    BY <2>1, <2>2, <2>3
<1>2. CASE pair \notin Clps \X Clps
  <2>1. PICK r \in Alps : pair = <<r, AlpToClp[r]>> \/ pair = <<AlpToClp[r], r>>
    BY <1>2 DEF Neighbours
  <2>2. AlpToClp[r] \in Clps /\ AlpToClp[r] \notin Alps /\ r \notin Clps
    BY ClpTreeAssumption
  <2>3. <<r, AlpToClp[r]>> \in Neighbours /\ <<AlpToClp[r], r>> \in Neighbours
    BY DEF Neighbours
  <2> QED
    BY <2>1, <2>2, <2>3
<1> QED
  BY <1>1, <1>2

\* The ALP of the agent that asks a query is a leaf of the tree.
LEMMA AgentsAlp ==
  ASSUME NEW q \in Queries
  PROVE  /\ From[q] \in Alps /\ From[q] \notin Clps
         /\ AlpToClp[From[q]] \in Clps
BY RangeQueriesAssumption, ClpTreeAssumption

\* The neighbour in the direction of the agent: a CLP, or its ALP.
LEMMA UpFacts ==
  ASSUME NEW q \in Queries, NEW c \in Clps
  PROVE  /\ UpPort(q, c) \in PortsOf(c) /\ UpPort(q, c) \in Ports
         /\ PortTo(c, Up(q, c)) = UpPort(q, c)
         /\ <<c, Up(q, c)>> \in Neighbours /\ <<Up(q, c), c>> \in Neighbours
         /\ c = AlpToClp[From[q]] => Up(q, c) = From[q]
         /\ c # AlpToClp[From[q]] => /\ Up(q, c) = NextClp(c, AlpToClp[From[q]])
                                     /\ Up(q, c) \in Clps
<1> DEFINE A == AlpToClp[From[q]]
<1>1. From[q] \in Alps /\ From[q] \notin Clps /\ A \in Clps
  BY AgentsAlp
<1>2. UpPort(q, c) \in PortsOf(c) /\ UpPort(q, c) \in Ports
  BY <1>1, PortToAlpIsPort, PortRank DEF UpPort
<1>3. <<c, Up(q, c)>> \in Neighbours /\ PortTo(c, Up(q, c)) = UpPort(q, c)
  BY <1>2, PortRank DEF Up
<1>4. <<Up(q, c), c>> \in Neighbours
  BY <1>3, NeighbourKinds
<1>5. ASSUME c = A PROVE Up(q, c) = From[q]
  <2>1. <<c, From[q]>> \in Neighbours
    BY <1>1, <1>5 DEF Neighbours
  <2> QED
    BY <1>5, <2>1, PortToNeighbour DEF Up, UpPort, PortToAlp
<1>6. ASSUME c # A PROVE Up(q, c) = NextClp(c, A) /\ Up(q, c) \in Clps
  <2>1. NextClp(c, A) \in Clps /\ <<c, NextClp(c, A)>> \in Neighbours
    BY <1>1, <1>6, NextIsNeighbour
  <2> QED
    BY <1>6, <2>1, PortToNeighbour DEF Up, UpPort, PortToAlp
<1> QED
  BY <1>2, <1>3, <1>4, <1>5, <1>6

\* Between two neighbours one is in the direction of the agent from the other.
LEMMA UpOrDown ==
  ASSUME NEW q \in Queries, NEW x \in Clps, NEW y \in Clps, <<x, y>> \in Neighbours
  PROVE  y = Up(q, x) <=> x # Up(q, y)
<1> DEFINE A == AlpToClp[From[q]]
<1>1. A \in Clps /\ From[q] \notin Clps
  BY AgentsAlp
<1>2. <<y, x>> \in Neighbours
  BY Adjacent
<1>3. /\ Distance(y, A) = Distance(x, A) + 1 \/ Distance(y, A) = Distance(x, A) - 1
      /\ Distance(y, A) = Distance(x, A) - 1 <=> x # A /\ y = NextClp(x, A)
      /\ Distance(x, A) = Distance(y, A) - 1 <=> y # A /\ x = NextClp(y, A)
  BY <1>1, <1>2, NeighbourDistance
<1>4. /\ y = Up(q, x) <=> x # A /\ y = NextClp(x, A)
      /\ x = Up(q, y) <=> y # A /\ x = NextClp(y, A)
  BY <1>1, UpFacts
<1>5. Distance(x, A) \in Nat /\ Distance(y, A) \in Nat
  BY <1>1, ApartIsFinite
<1> QED
  BY <1>3, <1>4, <1>5

\* Every other neighbouring CLP is further from the agent.
LEMMA DownPort ==
  ASSUME NEW q \in Queries, NEW c \in Clps, NEW p \in ClpPorts(c), p # UpPort(q, c)
  PROVE  /\ RankOf(c, p) \in Clps /\ <<c, RankOf(c, p)>> \in Neighbours
         /\ <<RankOf(c, p), c>> \in Neighbours
         /\ PortTo(c, RankOf(c, p)) = p /\ Up(q, RankOf(c, p)) = c
<1>1. p \in PortsOf(c) /\ RankOf(c, p) \in Clps
  BY DEF ClpPorts
<1>2. <<c, RankOf(c, p)>> \in Neighbours /\ PortTo(c, RankOf(c, p)) = p
  BY <1>1, PortRank
<1>3. RankOf(c, p) # Up(q, c)
  BY <1>2, UpFacts
<1> QED
  BY <1>1, <1>2, <1>3, UpOrDown, Adjacent

\* One step towards the agent is one step nearer.
LEMMA UpDistance ==
  ASSUME NEW q \in Queries, NEW c \in Clps, Up(q, c) \in Clps
  PROVE  /\ Distance(Up(q, c), AlpToClp[From[q]]) < Distance(c, AlpToClp[From[q]])
         /\ Distance(c, AlpToClp[From[q]]) \in Nat
         /\ Distance(Up(q, c), AlpToClp[From[q]]) \in Nat
<1> DEFINE A == AlpToClp[From[q]]
<1>1. A \in Clps /\ From[q] \notin Clps
  BY AgentsAlp
<1>2. c # A /\ Up(q, c) = NextClp(c, A) /\ <<c, Up(q, c)>> \in Neighbours
  BY <1>1, UpFacts
<1>3. Distance(Up(q, c), A) = Distance(c, A) - 1
  BY <1>1, <1>2, NeighbourDistance
<1>4. Distance(c, A) \in Nat /\ Distance(Up(q, c), A) \in Nat
  BY <1>1, ApartIsFinite
<1> QED
  BY <1>3, <1>4

\* A message comes from a neighbour, through the port for it.
LEMMA ReceiverPort ==
  ASSUME NEW pair \in IntoClp
  PROVE  /\ pair \in Neighbours /\ pair[2] \in Clps
         /\ <<pair[2], pair[1]>> \in Neighbours
         /\ PortTo(pair[2], pair[1]) \in PortsOf(pair[2])
         /\ PortTo(pair[2], pair[1]) \in Ports
         /\ RankOf(pair[2], PortTo(pair[2], pair[1])) = pair[1]
         /\ \A q \in Queries : PortTo(pair[2], pair[1]) = UpPort(q, pair[2]) <=> pair[1] = Up(q, pair[2])
<1>1. pair \in Neighbours /\ pair[2] \in Clps /\ <<pair[2], pair[1]>> \in Neighbours
  BY NeighbourKinds DEF IntoClp
<1>2. /\ PortTo(pair[2], pair[1]) \in PortsOf(pair[2])
      /\ RankOf(pair[2], PortTo(pair[2], pair[1])) = pair[1]
  BY <1>1, PortToNeighbour
<1>3. PortTo(pair[2], pair[1]) \in Ports
  BY <1>1, <1>2, PortRank
<1>4. ASSUME NEW q \in Queries
      PROVE  PortTo(pair[2], pair[1]) = UpPort(q, pair[2]) <=> pair[1] = Up(q, pair[2])
  <2>1. PortTo(pair[2], Up(q, pair[2])) = UpPort(q, pair[2])
    BY <1>1, UpFacts
  <2>2. RankOf(pair[2], UpPort(q, pair[2])) = Up(q, pair[2])
    BY DEF Up
  <2> QED
    BY <1>2, <2>1, <2>2
<1> QED
  BY <1>1, <1>2, <1>3, <1>4

-----------------------------------------------------------------------------
(* Places of messages in lists.                                            *)

Is(m, kind, q) == m.kind = kind /\ m.query = q

\* The places of list s with a message of that kind about q.
Pos(s, kind, q) == {k \in 1 .. Len(s) : Is(s[k], kind, q)}

AtMostOne(S) == \A k, l \in S : k = l

\* A message of that kind about q is behind place k.
Later(s, kind, q, k) == \E j \in Pos(s, kind, q) : j > k

\* The places of messages when one is added.
LEMMA PosAppend ==
  ASSUME NEW T, NEW s \in Seq(T), NEW m \in T, NEW kind, NEW q
  PROVE  /\ Pos(Append(s, m), kind, q) = Pos(s, kind, q) \union (IF Is(m, kind, q) THEN {Len(s) + 1} ELSE {})
         /\ Pos(s, kind, q) \subseteq 1 .. Len(s) /\ Len(s) \in Nat
<1>1. /\ Len(Append(s, m)) = Len(s) + 1 /\ Len(s) \in Nat
      /\ \A k \in 1 .. Len(s) : Append(s, m)[k] = s[k]
      /\ Append(s, m)[Len(s) + 1] = m
  BY AppendProperties, LenProperties
<1>2. 1 .. Len(s) + 1 = (1 .. Len(s)) \union {Len(s) + 1}
  BY <1>1
<1>3. \A k : k \in Pos(Append(s, m), kind, q) <=> k \in Pos(s, kind, q) \/ (k = Len(s) + 1 /\ Is(m, kind, q))
  BY <1>1, <1>2 DEF Pos
<1>4. Pos(s, kind, q) \subseteq 1 .. Len(s)
  BY DEF Pos
<1> QED
  BY <1>1, <1>3, <1>4

\* And when the first is taken: all move up by one.
LEMMA PosTail ==
  ASSUME NEW T, NEW s \in Seq(T), s # <<>>, NEW kind, NEW q
  PROVE  /\ \A k \in Pos(Tail(s), kind, q) : k \in Nat /\ k >= 1 /\ k + 1 \in Pos(s, kind, q)
         /\ \A k \in Pos(s, kind, q) : k # 1 => k - 1 \in Pos(Tail(s), kind, q)
         /\ 1 \in Pos(s, kind, q) <=> Is(Head(s), kind, q)
         /\ Pos(s, kind, q) \subseteq Nat \ {0}
<1>1. /\ Len(s) \in Nat /\ Len(s) # 0 /\ Len(Tail(s)) = Len(s) - 1 /\ Head(s) = s[1]
      /\ \A k \in 1 .. Len(s) - 1 : Tail(s)[k] = s[k + 1]
  BY HeadTailProperties, EmptySeq, LenProperties
<1>2. ASSUME NEW k \in Pos(Tail(s), kind, q) PROVE k \in Nat /\ k >= 1 /\ k + 1 \in Pos(s, kind, q)
  <2>1. k \in 1 .. Len(s) - 1
    BY <1>1 DEF Pos
  <2>2. k + 1 \in 1 .. Len(s) /\ k \in Nat /\ k >= 1
    BY <1>1, <2>1
  <2> QED
    BY <1>1, <2>1, <2>2 DEF Pos
<1>3. ASSUME NEW k \in Pos(s, kind, q), k # 1 PROVE k - 1 \in Pos(Tail(s), kind, q)
  <2>1. k \in 1 .. Len(s)
    BY DEF Pos
  <2>2. k - 1 \in 1 .. Len(s) - 1 /\ (k - 1) + 1 = k
    BY <1>1, <1>3, <2>1
  <2>3. Tail(s)[k - 1] = s[k]
    BY <1>1, <2>2
  <2> QED
    BY <1>1, <2>2, <2>3 DEF Pos
<1>4. 1 \in Pos(s, kind, q) <=> Is(Head(s), kind, q)
  <2>1. 1 \in 1 .. Len(s)
    BY <1>1
  <2> QED
    BY <1>1, <2>1 DEF Pos
<1>5. Pos(s, kind, q) \subseteq Nat \ {0}
  BY <1>1 DEF Pos
<1> QED
  BY <1>2, <1>3, <1>4, <1>5

\* Places and members.
LEMMA PosMembers ==
  ASSUME NEW T, NEW s \in Seq(T), NEW kind, NEW q
  PROVE  Pos(s, kind, q) # {} <=> \E m \in ToSet(s) : Is(m, kind, q)
<1>1. ToSet(s) = {s[k] : k \in DOMAIN s} /\ DOMAIN s = 1 .. Len(s)
  BY LenProperties DEF ToSet
<1> QED
  BY <1>1 DEF Pos

\* What the head was about may be gone from the rest.
LEMMA OneTail ==
  ASSUME NEW T, NEW s \in Seq(T), s # <<>>, NEW kind, NEW q, AtMostOne(Pos(s, kind, q))
  PROVE  /\ AtMostOne(Pos(Tail(s), kind, q))
         /\ Is(Head(s), kind, q) => Pos(Tail(s), kind, q) = {} /\ Pos(s, kind, q) # {}
         /\ ~Is(Head(s), kind, q) => (Pos(Tail(s), kind, q) = {} <=> Pos(s, kind, q) = {})
         /\ Pos(s, kind, q) = {} => Pos(Tail(s), kind, q) = {}
<1> USE PosTail
<1>1. ASSUME NEW k \in Pos(Tail(s), kind, q), NEW l \in Pos(Tail(s), kind, q) PROVE k = l
  <2>1. k + 1 \in Pos(s, kind, q) /\ l + 1 \in Pos(s, kind, q) /\ k \in Nat /\ l \in Nat
    OBVIOUS
  <2>2. k + 1 = l + 1
    BY <2>1 DEF AtMostOne
  <2> QED
    BY <2>1, <2>2
<1>2. ASSUME Is(Head(s), kind, q), NEW k \in Pos(Tail(s), kind, q) PROVE FALSE
  <2>1. k + 1 \in Pos(s, kind, q) /\ 1 \in Pos(s, kind, q) /\ k \in Nat /\ k >= 1
    BY <1>2
  <2>2. k + 1 = 1
    BY <2>1 DEF AtMostOne
  <2> QED
    BY <2>1, <2>2
<1>3. Is(Head(s), kind, q) => Pos(s, kind, q) # {}
  OBVIOUS
<1>4. ASSUME ~Is(Head(s), kind, q), NEW k \in Pos(s, kind, q) PROVE Pos(Tail(s), kind, q) # {}
  BY <1>4
<1>5. ASSUME NEW k \in Pos(Tail(s), kind, q) PROVE Pos(s, kind, q) # {}
  OBVIOUS
<1>6. AtMostOne(Pos(Tail(s), kind, q))
  BY <1>1 DEF AtMostOne
<1> QED
  BY <1>2, <1>3, <1>4, <1>5, <1>6

\* What is behind a place stays there when a message is added.
LEMMA LaterAppend ==
  ASSUME NEW T, NEW s \in Seq(T), NEW m \in T, NEW kind, NEW q, NEW k
  PROVE  /\ Later(s, kind, q, k) => Later(Append(s, m), kind, q, k)
         /\ Is(m, kind, q) /\ k \in 0 .. Len(s) => Later(Append(s, m), kind, q, k)
<1>1. /\ Pos(s, kind, q) \subseteq Pos(Append(s, m), kind, q) /\ Len(s) \in Nat
      /\ Is(m, kind, q) => Len(s) + 1 \in Pos(Append(s, m), kind, q)
  BY PosAppend
<1>2. Later(s, kind, q, k) => Later(Append(s, m), kind, q, k)
  BY <1>1 DEF Later
<1>3. ASSUME Is(m, kind, q), k \in 0 .. Len(s) PROVE Later(Append(s, m), kind, q, k)
  <2>1. Len(s) + 1 > k
    BY <1>1, <1>3
  <2> QED
    BY <1>1, <1>3, <2>1 DEF Later
<1> QED
  BY <1>2, <1>3

\* And is behind the place before when the first is taken.
LEMMA LaterTail ==
  ASSUME NEW T, NEW s \in Seq(T), s # <<>>, NEW kind, NEW q, NEW k \in Nat, Later(s, kind, q, k)
  PROVE  /\ k # 0 => Later(Tail(s), kind, q, k - 1)
         /\ ~Is(Head(s), kind, q) => Later(Tail(s), kind, q, 0)
<1>1. PICK j \in Pos(s, kind, q) : j > k
  BY DEF Later
<1>2. j \in Nat /\ j >= 1
  BY PosTail
<1>3. ASSUME k # 0 PROVE Later(Tail(s), kind, q, k - 1)
  <2>1. j - 1 \in Pos(Tail(s), kind, q) /\ j - 1 > k - 1
    BY <1>1, <1>2, <1>3, PosTail
  <2> QED
    BY <2>1 DEF Later
<1>4. ASSUME ~Is(Head(s), kind, q) PROVE Later(Tail(s), kind, q, 0)
  <2>1. j # 1
    BY <1>1, <1>4, PosTail
  <2>2. j - 1 \in Pos(Tail(s), kind, q) /\ j - 1 > 0
    BY <1>1, <1>2, <2>1, PosTail
  <2> QED
    BY <2>2 DEF Later
<1> QED
  BY <1>3, <1>4

-----------------------------------------------------------------------------
(* Links.                                                                  *)

\* Links new are links old without the first message of those in take and with
\* message sent[pair] added to each pair that is in its domain.
Moved(old, new, take, sent) ==
  /\ DOMAIN sent \subseteq Neighbours /\ DOMAIN sent \intersect take = {}
  /\ \A pair \in DOMAIN sent : sent[pair] \in Messages
  /\ \A pair \in take \intersect Neighbours : old[pair] # <<>>
  /\ new \in [Neighbours -> Seq(Messages)]
  /\ \A pair \in Neighbours :
       /\ pair \in take => new[pair] = Tail(old[pair])
       /\ pair \in DOMAIN sent => new[pair] = Append(old[pair], sent[pair])
       /\ pair \notin take /\ pair \notin DOMAIN sent => new[pair] = old[pair]

\* What CLP c sends as messages through its ports, by pair of neighbours.
OnLinks(c, messages) ==
  [pair \in {pair \in Neighbours : pair[1] = c /\ PortTo(c, pair[2]) \in DOMAIN messages} |->
     messages[PortTo(c, pair[2])]]

\* A CLP that takes a message and sends some.
LEMMA SentAfterTaken ==
  ASSUME link \in [Neighbours -> Seq(Messages)], NEW pair \in IntoClp, link[pair] # <<>>,
         NEW ms, \A p \in DOMAIN ms : ms[p] \in Messages
  PROVE  Moved(link, Sent(Taken(pair[1], pair[2]), pair[2], ms), {pair}, OnLinks(pair[2], ms))
<1> DEFINE c == pair[2]
           l == Taken(pair[1], pair[2])
           new == Sent(l, c, ms)
           sent == OnLinks(c, ms)
<1>1. pair = <<pair[1], pair[2]>> /\ pair \in Neighbours /\ pair[1] # pair[2]
  BY ReceiverPort, NeighbourKinds
<1>2. \A p \in Neighbours : link[p] \in Seq(Messages)
  OBVIOUS
<1>3. Tail(link[pair]) \in Seq(Messages)
  BY <1>1, <1>2, HeadTailProperties
<1>4. /\ \A p \in Neighbours : l[p] \in Seq(Messages)
      /\ l[pair] = Tail(link[pair]) /\ \A p \in Neighbours : p # pair => l[p] = link[p]
  BY <1>1, <1>2, <1>3 DEF Taken
<1> HIDE DEF l
<1>5. /\ DOMAIN sent \subseteq Neighbours /\ pair \notin DOMAIN sent
      /\ \A p \in DOMAIN sent : sent[p] \in Messages
  BY <1>1 DEF OnLinks
<1>6. ASSUME NEW p \in Neighbours
      PROVE  new[p] = IF p \in DOMAIN sent THEN Append(l[p], sent[p]) ELSE l[p]
  <2>1. p \in DOMAIN sent <=> p[1] = c /\ PortTo(c, p[2]) \in DOMAIN ms
    BY DEF OnLinks
  <2>2. p \in DOMAIN sent => sent[p] = ms[PortTo(c, p[2])]
    BY DEF OnLinks
  <2> HIDE DEF sent
  <2> QED
    BY <2>1, <2>2 DEF Sent
<1>7. new \in [Neighbours -> Seq(Messages)]
  <2>1. ASSUME NEW p \in Neighbours PROVE new[p] \in Seq(Messages)
    <3> HIDE DEF new, sent
    <3>1. CASE p \in DOMAIN sent
      <4>1. l[p] \in Seq(Messages) /\ sent[p] \in Messages
        BY <1>4, <1>5, <1>6, <3>1
      <4>2. Append(l[p], sent[p]) \in Seq(Messages)
        BY <4>1, AppendProperties
      <4>3. new[p] = Append(l[p], sent[p])
        BY <1>4, <1>5, <1>6, <3>1
      <4> QED
        BY <4>2, <4>3
    <3>2. CASE p \notin DOMAIN sent
      BY <1>4, <1>5, <1>6, <3>2
    <3> QED
      BY <3>1, <3>2
  <2>2. new = [p \in Neighbours |-> new[p]]
    BY DEF Sent
  <2> HIDE DEF new
  <2> QED
    BY <2>1, <2>2
<1> HIDE DEF new, sent
<1>8. \A p \in Neighbours :
       /\ p \in {pair} => new[p] = Tail(link[p])
       /\ p \in DOMAIN sent => new[p] = Append(link[p], sent[p])
       /\ p \notin {pair} /\ p \notin DOMAIN sent => new[p] = link[p]
  BY <1>4, <1>5, <1>6
<1>9. Moved(link, new, {pair}, sent)
  BY <1>5, <1>7, <1>8 DEF Moved
<1> QED
  BY <1>9 DEF new, sent, l

\* A CLP that takes a message and sends none.
LEMMA OnlyTaken ==
  ASSUME link \in [Neighbours -> Seq(Messages)], NEW pair \in Neighbours, link[pair] # <<>>
  PROVE  Moved(link, [link EXCEPT ![pair] = Tail(@)], {pair}, <<>>)
<1>1. Tail(link[pair]) \in Seq(Messages)
  BY HeadTailProperties
<1>2. DOMAIN <<>> = {}
  OBVIOUS
<1>3. [link EXCEPT ![pair] = Tail(@)] \in [Neighbours -> Seq(Messages)]
  BY <1>1
<1> QED
  BY <1>2, <1>3 DEF Moved

\* A CLP that sends messages of its own accord.
LEMMA OnlySent ==
  ASSUME link \in [Neighbours -> Seq(Messages)], NEW c,
         NEW ms, \A p \in DOMAIN ms : ms[p] \in Messages
  PROVE  Moved(link, Sent(link, c, ms), {}, OnLinks(c, ms))
<1> DEFINE new == Sent(link, c, ms)
           sent == OnLinks(c, ms)
<1>1. DOMAIN sent \subseteq Neighbours /\ \A p \in DOMAIN sent : sent[p] \in Messages
  BY DEF OnLinks
<1>2. ASSUME NEW p \in Neighbours
      PROVE  new[p] = IF p \in DOMAIN sent THEN Append(link[p], sent[p]) ELSE link[p]
  <2>1. p \in DOMAIN sent <=> p[1] = c /\ PortTo(c, p[2]) \in DOMAIN ms
    BY DEF OnLinks
  <2>2. p \in DOMAIN sent => sent[p] = ms[PortTo(c, p[2])]
    BY DEF OnLinks
  <2> HIDE DEF sent
  <2> QED
    BY <2>1, <2>2 DEF Sent
<1>3. new \in [Neighbours -> Seq(Messages)]
  <2>1. ASSUME NEW p \in Neighbours PROVE new[p] \in Seq(Messages)
    <3> HIDE DEF new, sent
    <3>1. CASE p \in DOMAIN sent
      <4>1. link[p] \in Seq(Messages) /\ sent[p] \in Messages
        BY <1>1, <1>2, <3>1
      <4>2. Append(link[p], sent[p]) \in Seq(Messages)
        BY <4>1, AppendProperties
      <4>3. new[p] = Append(link[p], sent[p])
        BY <1>1, <1>2, <3>1
      <4> QED
        BY <4>2, <4>3
    <3>2. CASE p \notin DOMAIN sent
      BY <1>1, <1>2, <3>2
    <3> QED
      BY <3>1, <3>2
  <2>2. new = [p \in Neighbours |-> new[p]]
    BY DEF Sent
  <2> HIDE DEF new
  <2> QED
    BY <2>1, <2>2
<1> HIDE DEF new, sent
<1>4. Moved(link, new, {}, sent)
  BY <1>1, <1>2, <1>3 DEF Moved
<1> QED
  BY <1>4 DEF new, sent

\* One message more.
LEMMA OneSent ==
  ASSUME link \in [Neighbours -> Seq(Messages)], NEW pair \in Neighbours, NEW m \in Messages
  PROVE  Moved(link, [link EXCEPT ![pair] = Append(@, m)], {}, [p \in {pair} |-> m])
<1>1. Append(link[pair], m) \in Seq(Messages)
  BY AppendProperties
<1>2. [link EXCEPT ![pair] = Append(@, m)] \in [Neighbours -> Seq(Messages)]
  BY <1>1
<1> QED
  BY <1>2 DEF Moved

\* No message at all.
LEMMA NoneMoved ==
  ASSUME link \in [Neighbours -> Seq(Messages)]
  PROVE  Moved(link, link, {}, <<>>)
<1>1. DOMAIN <<>> = {}
  OBVIOUS
<1> QED
  BY <1>1 DEF Moved

\* What a CLP sends through the ports for which there are messages.
LEMMA OnLinksFacts ==
  ASSUME NEW c \in Clps, NEW ms, DOMAIN ms \subseteq PortsOf(c)
  PROVE  /\ \A p \in DOMAIN ms : /\ <<c, RankOf(c, p)>> \in DOMAIN OnLinks(c, ms)
                                 /\ OnLinks(c, ms)[<<c, RankOf(c, p)>>] = ms[p]
         /\ \A pair \in DOMAIN OnLinks(c, ms) :
              /\ pair \in Neighbours /\ pair[1] = c /\ PortTo(c, pair[2]) \in DOMAIN ms
              /\ pair[2] = RankOf(c, PortTo(c, pair[2]))
              /\ OnLinks(c, ms)[pair] = ms[PortTo(c, pair[2])]
<1>1. ASSUME NEW p \in DOMAIN ms
      PROVE  /\ <<c, RankOf(c, p)>> \in DOMAIN OnLinks(c, ms)
             /\ OnLinks(c, ms)[<<c, RankOf(c, p)>>] = ms[p]
  <2>1. <<c, RankOf(c, p)>> \in Neighbours /\ PortTo(c, RankOf(c, p)) = p
    BY PortRank
  <2> QED
    BY <2>1 DEF OnLinks
<1>2. ASSUME NEW pair \in DOMAIN OnLinks(c, ms)
      PROVE  /\ pair \in Neighbours /\ pair[1] = c /\ PortTo(c, pair[2]) \in DOMAIN ms
             /\ OnLinks(c, ms)[pair] = ms[PortTo(c, pair[2])]
  BY DEF OnLinks
<1>3. ASSUME NEW pair \in DOMAIN OnLinks(c, ms)
      PROVE  pair[2] = RankOf(c, PortTo(c, pair[2]))
  <2>1. pair = <<c, pair[2]>>
    BY <1>2, NeighbourKinds
  <2> QED
    BY <1>2, <2>1, PortToNeighbour
<1> QED
  BY <1>1, <1>2, <1>3

-----------------------------------------------------------------------------
(* The type invariant, step by step.                                       *)

\* The kinds of messages exclude each other.
LEMMA MessageKinds ==
  /\ \A m \in Messages :
       /\ m.kind = "query" <=> m \in QueryMessages
       /\ m.kind = "anti" <=> m \in AntiMessages
       /\ m.kind = "update" <=> m \in UpdateMessages
  /\ \A m \in QueryMessages : m.query \in Queries /\ m.found \subseteq Found
  /\ \A m \in AntiMessages : m.query \in Queries /\ m = Anti(m.query)
  /\ \A m \in UpdateMessages : m.range \in Ranges /\ m.source \in AllPorts
  /\ \A q \in Queries : /\ Anti(q) \in Messages /\ Anti(q).kind = "anti" /\ Anti(q).query = q
                        /\ \A f \in SUBSET Found : /\ Query(q, f) \in Messages
                                                   /\ Query(q, f).kind = "query" /\ Query(q, f).query = q
<1>1. \A m \in QueryMessages : m.kind = "query" /\ m.query \in Queries /\ m.found \subseteq Found
  BY DEF QueryMessages
<1>2. \A m \in AntiMessages : m.kind = "anti" /\ m.query \in Queries /\ m = Anti(m.query)
  BY DEF AntiMessages, Anti
<1>3. \A m \in UpdateMessages : m.kind = "update" /\ m.range \in Ranges /\ m.source \in AllPorts
  BY DEF UpdateMessages
<1>4. \A m \in Messages : m \in QueryMessages \/ m \in AntiMessages \/ m \in UpdateMessages
  BY DEF Messages
<1>5. \A q \in Queries : Anti(q) \in Messages /\ Anti(q).kind = "anti" /\ Anti(q).query = q
  BY DEF Anti, AntiMessages, Messages
<1>6. \A q \in Queries : \A f \in SUBSET Found :
        Query(q, f) \in Messages /\ Query(q, f).kind = "query" /\ Query(q, f).query = q
  BY DEF Query, QueryMessages, Messages
<1> QED
  BY <1>1, <1>2, <1>3, <1>4, <1>5, <1>6

\* The first message of a link is one of the allowed.
LEMMA HeadOf ==
  ASSUME Typed, NEW pair \in Neighbours, link[pair] # <<>>
  PROVE  /\ Head(link[pair]) \in Messages /\ Head(link[pair]) \in ToSet(link[pair])
         /\ Allowed(pair, Head(link[pair]), asked, cancelled)
<1>1. link[pair] \in Seq(Messages)
  BY DEF Typed, TypedState
<1>2. Head(link[pair]) \in Messages /\ Head(link[pair]) \in ToSet(link[pair])
  BY <1>1, TailFacts
<1> QED
  BY <1>2 DEF Typed, AllAllowed

\* What holds of the messages on their way and of those sent holds afterwards.
LEMMA AllowedAfter ==
  ASSUME Typed, NEW new, NEW take, NEW sent, Moved(link, new, take, sent),
         NEW as, asked \subseteq as, NEW cs, cancelled \subseteq cs,
         \A pair \in DOMAIN sent : Allowed(pair, sent[pair], as, cs)
  PROVE  \A pair \in Neighbours : \A m \in ToSet(new[pair]) : Allowed(pair, m, as, cs)
<1> SUFFICES ASSUME NEW pair \in Neighbours, NEW m \in ToSet(new[pair]) PROVE Allowed(pair, m, as, cs)
  OBVIOUS
<1>1. link[pair] \in Seq(Messages)
  BY DEF Typed, TypedState
<1>2. m \in ToSet(link[pair]) \/ (pair \in DOMAIN sent /\ m = sent[pair])
  <2>1. CASE pair \in take
    <3>1. new[pair] = Tail(link[pair]) /\ link[pair] # <<>>
      BY <2>1 DEF Moved
    <3> QED
      BY <1>1, <3>1, TailFacts
  <2>2. CASE pair \in DOMAIN sent
    <3>1. new[pair] = Append(link[pair], sent[pair]) /\ sent[pair] \in Messages
      BY <2>2 DEF Moved
    <3>2. ToSet(new[pair]) = ToSet(link[pair]) \union {sent[pair]}
      BY <1>1, <3>1, AppendFacts
    <3> QED
      BY <2>2, <3>2
  <2>3. CASE pair \notin take /\ pair \notin DOMAIN sent
    BY <2>3 DEF Moved
  <2> QED
    BY <2>1, <2>2, <2>3
<1>3. CASE m \in ToSet(link[pair])
  <2>1. Allowed(pair, m, asked, cancelled)
    BY <1>3 DEF Typed, AllAllowed
  <2> QED
    BY <2>1 DEF Allowed
<1>4. CASE pair \in DOMAIN sent /\ m = sent[pair]
  BY <1>4
<1> QED
  BY <1>2, <1>3, <1>4

\* The entries of a tracker.
LEMMA TrackerFacts ==
  ASSUME NEW f \in Trackers
  PROVE  DOMAIN f \subseteq Queries /\ \A q \in DOMAIN f : f[q] \in Entries
<1>1. PICK S \in SUBSET Queries : f \in [S -> Entries]
  BY DEF Trackers
<1> QED
  BY <1>1

\* A tracker without an entry.
LEMMA WithoutEntry ==
  ASSUME NEW f \in Trackers, NEW q \in Queries, NEW g, g = Restrict(f, DOMAIN f \ {q})
  PROVE  /\ g \in Trackers /\ DOMAIN g = DOMAIN f \ {q}
         /\ \A r \in DOMAIN f \ {q} : g[r] = f[r]
<1> DEFINE S == DOMAIN f \ {q}
<1>1. S \in SUBSET Queries /\ \A r \in S : f[r] \in Entries
  BY TrackerFacts
<1>2. g \in [S -> Entries] /\ \A r \in S : g[r] = f[r]
  BY <1>1 DEF Restrict
<1>3. g \in Trackers
  BY <1>1, <1>2 DEF Trackers
<1> QED
  BY <1>2, <1>3

\* A tracker with an entry.
LEMMA WithEntry ==
  ASSUME NEW f \in Trackers, NEW q \in Queries, NEW e \in Entries, NEW g, g = AddEntry(f, q, e)
  PROVE  /\ g \in Trackers /\ DOMAIN g = DOMAIN f \union {q} /\ g[q] = e
         /\ \A r \in DOMAIN f \ {q} : g[r] = f[r]
<1> DEFINE S == DOMAIN f \union {q}
<1>1. S \in SUBSET Queries /\ \A r \in DOMAIN f : f[r] \in Entries
  BY TrackerFacts
<1>2. g \in [S -> Entries] /\ g[q] = e /\ \A r \in DOMAIN f \ {q} : g[r] = f[r]
  BY <1>1 DEF AddEntry
<1>3. g \in Trackers
  BY <1>1, <1>2 DEF Trackers
<1> QED
  BY <1>2, <1>3

\* What Proceed does to the tracker.
LEMMA ProceedTracker ==
  ASSUME tracker \in [Clps -> Trackers], NEW c \in Clps, NEW q \in Queries, NEW l,
         NEW outstanding \in SUBSET Ports, NEW found \in SUBSET Found,
         Proceed(c, q, l, outstanding, found)
  PROVE  /\ tracker' \in [Clps -> Trackers]
         /\ \A d \in Clps \ {c} : tracker'[d] = tracker[d]
         /\ \A r \in Queries \ {q} : /\ r \in DOMAIN tracker'[c] <=> r \in DOMAIN tracker[c]
                                     /\ r \in DOMAIN tracker[c] => tracker'[c][r] = tracker[c][r]
         /\ outstanding = {} => q \notin DOMAIN tracker'[c]
         /\ outstanding # {} => /\ q \in DOMAIN tracker'[c]
                                /\ tracker'[c][q].outstanding = outstanding
<1>1. tracker[c] \in Trackers
  OBVIOUS
<1>2. CASE outstanding = {}
  <2>1. tracker' = [tracker EXCEPT ![c] = Restrict(@, DOMAIN @ \ {q})]
    BY <1>2 DEF Proceed, Complete
  <2>2. tracker'[c] = Restrict(tracker[c], DOMAIN tracker[c] \ {q})
    BY <2>1
  <2>3. /\ tracker'[c] \in Trackers /\ DOMAIN tracker'[c] = DOMAIN tracker[c] \ {q}
        /\ \A r \in DOMAIN tracker[c] \ {q} : tracker'[c][r] = tracker[c][r]
    BY <1>1, <2>2, WithoutEntry
  <2>4. tracker' \in [Clps -> Trackers] /\ \A d \in Clps \ {c} : tracker'[d] = tracker[d]
    BY <2>1, <2>2, <2>3
  <2> QED
    BY <1>2, <2>3, <2>4
<1>3. CASE outstanding # {}
  <2> DEFINE e == [outstanding |-> outstanding, found |-> found]
  <2>1. tracker' = [tracker EXCEPT ![c] = AddEntry(@, q, e)]
    BY <1>3 DEF Proceed, Complete
  <2>2. tracker'[c] = AddEntry(tracker[c], q, e)
    BY <2>1
  <2>3. e \in Entries /\ e.outstanding = outstanding
    BY DEF Entries
  <2> HIDE DEF e
  <2>4. /\ tracker'[c] \in Trackers /\ DOMAIN tracker'[c] = DOMAIN tracker[c] \union {q}
        /\ tracker'[c][q] = e /\ \A r \in DOMAIN tracker[c] \ {q} : tracker'[c][r] = tracker[c][r]
    BY <1>1, <2>2, <2>3, WithEntry
  <2>5. tracker' \in [Clps -> Trackers] /\ \A d \in Clps \ {c} : tracker'[d] = tracker[d]
    BY <2>1, <2>2, <2>4
  <2> QED
    BY <1>3, <2>3, <2>4, <2>5
<1> QED
  BY <1>2, <1>3

\* What a step does to the tracker of CLP c, which from now on waits for replies to
\* q through the ports in outstanding.
Tracked(c, q, outstanding) ==
  /\ tracker' \in [Clps -> Trackers]
  /\ \A d \in Clps \ {c} : tracker'[d] = tracker[d]
  /\ \A r \in Queries \ {q} : /\ r \in DOMAIN tracker'[c] <=> r \in DOMAIN tracker[c]
                              /\ r \in DOMAIN tracker[c] => tracker'[c][r] = tracker[c][r]
  /\ outstanding = {} => q \notin DOMAIN tracker'[c]
  /\ outstanding # {} => q \in DOMAIN tracker'[c] /\ tracker'[c][q].outstanding = outstanding

\* CLP pair[2] takes a message about q and sends those in sent, all about q: a reply
\* if it waits for none, and else query messages through the ports in asks.
Passed(pair, q, outstanding, asks, sent) ==
  /\ link[pair] # <<>> /\ Is(Head(link[pair]), "query", q)
  /\ outstanding \subseteq ClpPorts(pair[2]) \ {UpPort(q, pair[2])}
  /\ asks \subseteq outstanding
  /\ Tracked(pair[2], q, outstanding)
  /\ Moved(link, link', {pair}, sent)
  /\ \A p \in DOMAIN sent : Is(sent[p], "query", q)
  /\ DOMAIN sent = IF outstanding = {} THEN {<<pair[2], Up(q, pair[2])>>}
                   ELSE {<<pair[2], RankOf(pair[2], p)>> : p \in asks}

\* The two ends of Proceed.
LEMMA ProceedPassed ==
  ASSUME Typed, NEW pair \in IntoClp, link[pair] # <<>>, NEW q \in Queries,
         Is(Head(link[pair]), "query", q),
         NEW outstanding \in SUBSET (ClpPorts(pair[2]) \ {UpPort(q, pair[2])}),
         NEW found \in SUBSET Found, NEW asks \in SUBSET outstanding,
         NEW l, Proceed(pair[2], q, l, outstanding, found),
         outstanding # {} => l = Sent(Taken(pair[1], pair[2]), pair[2], [p \in asks |-> Query(q, {})]),
         outstanding = {} => l = Taken(pair[1], pair[2])
  PROVE  \E sent : Passed(pair, q, outstanding, asks, sent)
<1> DEFINE c == pair[2]
<1>1. /\ c \in Clps /\ link \in [Neighbours -> Seq(Messages)] /\ tracker \in [Clps -> Trackers]
      /\ {} \in SUBSET Found
  BY ReceiverPort DEF Typed, TypedState
<1>2. outstanding \subseteq PortsOf(c) /\ PortsOf(c) \subseteq Ports
  BY DEF ClpPorts, PortsOf
<1>3. Tracked(c, q, outstanding)
  <2>1. outstanding \in SUBSET Ports
    BY <1>2
  <2> QED
    BY <1>1, <2>1, ProceedTracker DEF Tracked
<1>4. CASE outstanding = {}
  <2> DEFINE ms == [p \in {PortToAlp(c, From[q])} |-> Query(q, found)]
  <2>1. link' = Sent(Taken(pair[1], pair[2]), c, ms)
    BY <1>4 DEF Proceed, Complete
  <2>2. \A p \in DOMAIN ms : ms[p] \in Messages /\ Is(ms[p], "query", q)
    BY MessageKinds DEF Is
  <2>3. DOMAIN ms = {UpPort(q, c)}
    BY DEF UpPort
  <2>4. DOMAIN ms \subseteq PortsOf(c)
    BY ZenonT(60), <1>1, <2>3, UpFacts
  <2> HIDE DEF ms
  <2>5. Moved(link, link', {pair}, OnLinks(c, ms))
    BY <1>1, <2>1, <2>2, SentAfterTaken
  <2>6. DOMAIN OnLinks(c, ms) = {<<c, Up(q, c)>>}
    <3>1. <<c, Up(q, c)>> \in DOMAIN OnLinks(c, ms)
      BY <1>1, <2>3, <2>4, OnLinksFacts DEF Up
    <3>2. ASSUME NEW p \in DOMAIN OnLinks(c, ms) PROVE p = <<c, Up(q, c)>>
      <4>1. p \in Neighbours /\ p[1] = c /\ PortTo(c, p[2]) = UpPort(q, c) /\ p[2] = RankOf(c, PortTo(c, p[2]))
        BY <1>1, <2>3, <2>4, OnLinksFacts
      <4>2. p = <<p[1], p[2]>>
        BY <4>1, NeighbourKinds
      <4> QED
        BY <4>1, <4>2 DEF Up
    <3> QED
      BY <3>1, <3>2
  <2>7. \A p \in DOMAIN OnLinks(c, ms) : Is(OnLinks(c, ms)[p], "query", q)
    BY <1>1, <2>2, <2>4, OnLinksFacts
  <2> QED
    BY <1>3, <1>4, <2>5, <2>6, <2>7 DEF Passed
<1>5. CASE outstanding # {}
  <2> DEFINE ms == [p \in asks |-> Query(q, {})]
  <2>1. link' = Sent(Taken(pair[1], pair[2]), c, ms)
    BY <1>5 DEF Proceed, Complete
  <2>2. \A p \in DOMAIN ms : ms[p] \in Messages /\ Is(ms[p], "query", q)
    BY <1>1, MessageKinds DEF Is
  <2>3. DOMAIN ms = asks /\ DOMAIN ms \subseteq PortsOf(c)
    BY <1>2
  <2> HIDE DEF ms
  <2>4. Moved(link, link', {pair}, OnLinks(c, ms))
    BY <1>1, <2>1, <2>2, SentAfterTaken
  <2>5. DOMAIN OnLinks(c, ms) = {<<c, RankOf(c, p)>> : p \in asks}
    <3>1. \A p \in asks : <<c, RankOf(c, p)>> \in DOMAIN OnLinks(c, ms)
      BY <1>1, <2>3, OnLinksFacts
    <3>2. ASSUME NEW pr \in DOMAIN OnLinks(c, ms) PROVE \E p \in asks : pr = <<c, RankOf(c, p)>>
      <4>1. /\ pr \in Neighbours /\ pr[1] = c /\ PortTo(c, pr[2]) \in asks
            /\ pr[2] = RankOf(c, PortTo(c, pr[2]))
        BY <1>1, <2>3, OnLinksFacts
      <4>2. pr = <<pr[1], pr[2]>>
        BY <4>1, NeighbourKinds
      <4> QED
        BY <4>1, <4>2
    <3> QED
      BY <3>1, <3>2
  <2>6. \A p \in DOMAIN OnLinks(c, ms) : Is(OnLinks(c, ms)[p], "query", q)
    BY <1>1, <2>2, <2>3, OnLinksFacts
  <2> QED
    BY <1>3, <1>5, <2>4, <2>5, <2>6 DEF Passed
<1> QED
  BY <1>4, <1>5

\* A CLP that takes a message has one.
LEMMA TakenIs ==
  ASSUME Typed, NEW pair \in IntoClp, NEW kind, IsNext(pair[1], pair[2], kind)
  PROVE  /\ pair \in Neighbours /\ pair[2] \in Clps /\ pair = <<pair[1], pair[2]>>
         /\ link[pair] # <<>> /\ Head(link[pair]) \in Messages /\ Head(link[pair]).kind = kind
         /\ Allowed(pair, Head(link[pair]), asked, cancelled)
<1>1. pair \in Neighbours /\ pair[2] \in Clps /\ pair = <<pair[1], pair[2]>>
  BY ReceiverPort, NeighbourKinds
<1>2. link[pair] # <<>> /\ Head(link[pair]).kind = kind
  BY <1>1 DEF IsNext
<1> QED
  BY <1>1, <1>2, HeadOf

\* Passing a query on: the CLP sends it where a range overlaps, and notes it at all
\* ports but one.
Visited(pair, q, away, sent) ==
  /\ q \in asked /\ q \notin DOMAIN tracker[pair[2]]
  /\ Passed(pair, q, away, away, sent)
  /\ \E blocked \in [AllPorts -> BOOLEAN] :
       /\ \A p \in ClpPorts(pair[2]) \ {UpPort(q, pair[2])} : blocked[p] = (p \notin away)
       /\ noted' = [noted EXCEPT ![pair[2]] = [p \in AllPorts |->
                      IF p \in (ClpPorts(pair[2]) \union {"HERE"}) \ {UpPort(q, pair[2])}
                      THEN Append(@[p], [query |-> q, blocked |-> blocked[p]])
                      ELSE @[p]]]

\* The ports that CLP c does not block for q.
Open(c, q) == {p \in TargetPorts(c, q) : Overlaps(range[c][p], Rectangle[q])}

\* FirstVisit is such a step.
LEMMA VisitEffect ==
  ASSUME Typed, NEW pair \in IntoClp, FirstVisit(pair[1], pair[2])
  PROVE  \E q \in Queries : \E away, sent : /\ Visited(pair, q, away, sent)
                                          /\ away = Open(pair[2], q) \ {"HERE"}
<1> DEFINE x == pair[1]
           c == pair[2]
           q == Head(link[<<x, c>>]).query
           targets == TargetPorts(c, q)
           open    == {p \in targets : Overlaps(range[c][p], Rectangle[q])}
           away    == open \ {"HERE"}
           found   == IF "HERE" \in open THEN RangeRead(c, q) ELSE {}
           l       == Sent(Taken(x, c), c, [p \in away |-> Query(q, {})])
           blocked == [p \in AllPorts |-> p \notin open]
<1>1. IsNext(x, c, "query")
  BY DEF FirstVisit
<1>2. /\ pair \in Neighbours /\ c \in Clps /\ pair = <<x, c>>
      /\ link[pair] # <<>> /\ Head(link[pair]) \in Messages /\ Head(link[pair]).kind = "query"
      /\ Allowed(pair, Head(link[pair]), asked, cancelled)
  BY <1>1, TakenIs
<1>3. q = Head(link[pair]).query
  BY <1>2
<1>4. q \in Queries /\ q \in asked /\ Is(Head(link[pair]), "query", q)
  BY <1>2, <1>3, MessageKinds DEF Is, Allowed
<1>5. /\ q \notin DOMAIN tracker[c]
      /\ Proceed(c, q, l, away, found)
      /\ noted'   = [noted EXCEPT ![c] = [p \in AllPorts |->
                         IF p \in targets
                         THEN Append(@[p], [query |-> q, blocked |-> p \notin open])
                         ELSE @[p]]]
  BY DEF FirstVisit
<1>6. targets = (ClpPorts(c) \union {"HERE"}) \ {UpPort(q, c)}
  BY DEF TargetPorts, UpPort
<1>7. away \in SUBSET (ClpPorts(c) \ {UpPort(q, c)}) /\ "HERE" \notin ClpPorts(c)
  BY <1>6 DEF ClpPorts, PortsOf, Ports
<1>8. found \in SUBSET Found
  <2>1. \A v \in Variables : value[v] \in Values[v]
    BY DEF Typed, TypedState
  <2>2. RangeRead(c, q) \subseteq Found
    BY <2>1 DEF RangeRead, Found
  <2> HIDE DEF open, q
  <2> QED
    BY <2>2
<1>9. away = {} => l = Taken(x, c)
  <2>1. \A ms : DOMAIN ms = {} => Sent(Taken(x, c), c, ms) = [pr \in Neighbours |-> Taken(x, c)[pr]]
    BY DEF Sent
  <2>2. Taken(x, c) = [pr \in Neighbours |-> Taken(x, c)[pr]]
    <3>1. DOMAIN link = Neighbours
      BY DEF Typed, TypedState
    <3> QED
      BY <3>1 DEF Taken
  <2>3. DOMAIN [p \in away |-> Query(q, {})] = away
    OBVIOUS
  <2> HIDE DEF away, q
  <2> QED
    BY <2>1, <2>2, <2>3
<1>10. blocked \in [AllPorts -> BOOLEAN] /\ \A p \in AllPorts : blocked[p] = (p \notin open)
  OBVIOUS
<1>11. \E sent : Passed(pair, q, away, away, sent)
  <2> HIDE DEF q, away, found, l
  <2>1. away \in SUBSET away
    OBVIOUS
  <2>2. l = Sent(Taken(x, c), c, [p \in away |-> Query(q, {})])
    BY DEF l
  <2> QED
    BY <1>2, <1>4, <1>5, <1>7, <1>8, <1>9, <2>1, <2>2, ProceedPassed
<1>12. /\ \A p \in ClpPorts(c) \ {UpPort(q, c)} : blocked[p] = (p \notin away)
       /\ \A p \in targets : blocked[p] = (p \notin open)
  <2>1. \A p \in ClpPorts(c) : p \in AllPorts /\ p # "HERE"
    BY DEF AllPorts, ClpPorts, PortsOf, Ports
  <2>2. \A p \in targets : p \in AllPorts
    BY <1>6, <2>1 DEF AllPorts
  <2>3. \A p : p # "HERE" => (p \in away <=> p \in open)
    OBVIOUS
  <2> HIDE DEF blocked, open, away, q, targets
  <2> QED
    BY <1>10, <2>1, <2>2, <2>3
<1>13. noted' = [noted EXCEPT ![c] = [p \in AllPorts |->
                   IF p \in (ClpPorts(c) \union {"HERE"}) \ {UpPort(q, c)}
                   THEN Append(@[p], [query |-> q, blocked |-> blocked[p]])
                   ELSE @[p]]]
  <2> HIDE DEF blocked, open, away, q, targets
  <2>1. [p \in AllPorts |-> IF p \in targets
                            THEN Append(noted[c][p], [query |-> q, blocked |-> p \notin open])
                            ELSE noted[c][p]]
        = [p \in AllPorts |-> IF p \in (ClpPorts(c) \union {"HERE"}) \ {UpPort(q, c)}
                   THEN Append(noted[c][p], [query |-> q, blocked |-> blocked[p]])
                   ELSE noted[c][p]]
    BY <1>6, <1>12
  <2> QED
    BY <1>5, <2>1
<1>14. PICK sent : Passed(pair, q, away, away, sent)
  BY <1>11
<1>15. Visited(pair, q, away, sent)
  <2> HIDE DEF blocked, open, away, q, targets
  <2> QED
    BY <1>4, <1>5, <1>10, <1>12, <1>13, <1>14 DEF Visited
<1>16. away = Open(c, q) \ {"HERE"}
  BY DEF Open
<1> HIDE DEF away, q
<1> QED
  BY <1>4, <1>15, <1>16

\* Taking a reply: the CLP sends its own when it was the last.
Replied(pair, q, sent) ==
  /\ q \in asked /\ q \in DOMAIN tracker[pair[2]]
  /\ Passed(pair, q, tracker[pair[2]][q].outstanding \ {PortTo(pair[2], pair[1])}, {}, sent)

\* Reply is such a step.
LEMMA ReplyEffect ==
  ASSUME Typed, NEW pair \in IntoClp, Reply(pair[1], pair[2])
  PROVE  \E q \in Queries : \E sent : Replied(pair, q, sent)
<1> DEFINE x == pair[1]
           c == pair[2]
           m == Head(link[<<x, c>>])
           q == m.query
           out == tracker[c][q].outstanding \ {PortTo(c, x)}
           found == tracker[c][q].found \union m.found
<1>1. IsNext(x, c, "query")
  BY DEF Reply
<1>2. /\ pair \in Neighbours /\ c \in Clps /\ pair = <<x, c>>
      /\ link[pair] # <<>> /\ Head(link[pair]) \in Messages /\ Head(link[pair]).kind = "query"
      /\ Allowed(pair, Head(link[pair]), asked, cancelled)
  BY <1>1, TakenIs
<1>3. m = Head(link[pair])
  BY <1>2
<1>4. q \in Queries /\ q \in asked /\ Is(Head(link[pair]), "query", q) /\ m.found \subseteq Found
  BY <1>2, <1>3, MessageKinds DEF Is, Allowed
<1>5. q \in DOMAIN tracker[c] /\ Proceed(c, q, Taken(x, c), out, found)
  BY DEF Reply, ReplyPort
<1>6. tracker[c][q].found \subseteq Found
  <2>1. tracker[c] \in Trackers
    BY <1>2 DEF Typed, TypedState
  <2>2. tracker[c][q] \in Entries
    BY <1>5, <2>1, TrackerFacts
  <2> QED
    BY <2>2 DEF Entries
<1>7. found \in SUBSET Found
  BY <1>4, <1>6
<1>8. out \in SUBSET (ClpPorts(c) \ {UpPort(q, c)})
  <2>1. tracker[c][q].outstanding \subseteq ClpPorts(c) \ {UpPort(q, c)}
    BY <1>2, <1>5 DEF Typed, Known
  <2> QED
    BY <2>1
<1>9. Taken(x, c) = Sent(Taken(x, c), c, [p \in {} |-> Query(q, {})])
  <2>1. \A ms : DOMAIN ms = {} => Sent(Taken(x, c), c, ms) = [pr \in Neighbours |-> Taken(x, c)[pr]]
    BY DEF Sent
  <2>2. Taken(x, c) = [pr \in Neighbours |-> Taken(x, c)[pr]]
    <3>1. DOMAIN link = Neighbours
      BY DEF Typed, TypedState
    <3> QED
      BY <3>1 DEF Taken
  <2>3. DOMAIN [p \in {} |-> Query(q, {})] = {}
    OBVIOUS
  <2> HIDE DEF q
  <2> QED
    BY <2>1, <2>2, <2>3
<1>10. \E sent : Passed(pair, q, out, {}, sent)
  <2> HIDE DEF q, m, found, out
  <2>1. {} \in SUBSET out
    OBVIOUS
  <2> QED
    BY <1>2, <1>4, <1>5, <1>7, <1>8, <1>9, <2>1, ProceedPassed
<1> HIDE DEF m, found
<1> QED
  BY <1>4, <1>5, <1>10 DEF Replied

\* Messages that CLP c sends through its ports go over these links.
LEMMA PassedIsAllowed ==
  ASSUME Typed, NEW pair \in IntoClp, NEW q \in Queries, q \in asked, NEW outstanding, NEW asks, NEW sent,
         Passed(pair, q, outstanding, asks, sent)
  PROVE  \A p \in DOMAIN sent : Allowed(p, sent[p], asked, cancelled)
<1> SUFFICES ASSUME NEW p \in DOMAIN sent PROVE Allowed(p, sent[p], asked, cancelled)
  OBVIOUS
<1>1. /\ Is(sent[p], "query", q) /\ pair[2] \in Clps
      /\ outstanding \subseteq ClpPorts(pair[2]) \ {UpPort(q, pair[2])} /\ asks \subseteq outstanding
  BY ReceiverPort DEF Passed
<1>2. pair[2] \notin Alps
  BY <1>1, ClpTreeAssumption
<1>3. p[1] = pair[2] /\ (p[2] \in Alps => p[2] = From[q])
  <2>1. CASE outstanding = {}
    <3>1. p = <<pair[2], Up(q, pair[2])>>
      BY <2>1 DEF Passed
    <3>2. Up(q, pair[2]) \in Clps \/ Up(q, pair[2]) = From[q]
      BY <1>1, UpFacts
    <3> QED
      BY <3>1, <3>2, ClpTreeAssumption
  <2>2. CASE outstanding # {}
    <3>1. PICK o \in asks : p = <<pair[2], RankOf(pair[2], o)>>
      BY <2>2 DEF Passed
    <3>2. RankOf(pair[2], o) \in Clps
      BY <1>1 DEF ClpPorts
    <3> QED
      BY <3>1, <3>2, ClpTreeAssumption
  <2> QED
    BY <2>1, <2>2
<1> QED
  BY <1>1, <1>2, <1>3 DEF Allowed, Is

\* The types, step by step.
LEMMA TypedInit ==
  ASSUME Init
  PROVE  Typed
<1>1. \A v \in Variables : InitialValue[v] \in Values[v] /\ InitialValue[v] \in Pairs
  BY RangeQueriesAssumption DEF IsPoint, Pairs
<1>2. value \in [Variables -> Pairs] /\ \A v \in Variables : value[v] \in Values[v]
  BY <1>1, RangeQueriesAssumption DEF Init
<1>3. ASSUME NEW S PROVE RangeOf(UNION {Points(d, InitialValue) : d \in S}) \in Ranges \union {NoRange}
  <2> DEFINE P == UNION {Points(d, InitialValue) : d \in S}
             all == {InitialValue[v] : v \in Variables}
  <2>1. IsFiniteSet(all)
    <3>1. IsFiniteSet(DOMAIN InitialValue) /\ all = {InitialValue[v] : v \in DOMAIN InitialValue}
      BY RangeQueriesAssumption
    <3> QED
      BY <3>1, FiniteImage
  <2>2. P \subseteq all
    BY DEF Points
  <2>3. IsFiniteSet(P) /\ P \in SUBSET Pairs
    BY <1>1, <2>1, <2>2, FS_Subset
  <2>4. P = {} => RangeOf(P) = NoRange
    BY DEF RangeOf
  <2>5. P # {} => RangeOf(P) \in Ranges
    <3> HIDE DEF P
    <3> QED
      BY <2>3, RangeOfPoints
  <2> HIDE DEF P
  <2>6. RangeOf(P) \in Ranges \union {NoRange}
    BY <2>4, <2>5
  <2> QED
    BY <2>6 DEF P
<1>4. range \in [Clps -> [AllPorts -> Ranges \union {NoRange}]]
  BY <1>3 DEF Init
<1>5. noted \in [Clps -> [AllPorts -> Seq(Infos)]] /\ \A c \in Clps, p \in AllPorts : noted[c][p] = <<>>
  BY EmptySeq DEF Init
<1>6. tracker \in [Clps -> Trackers] /\ \A c \in Clps : DOMAIN tracker[c] = {}
  <2>1. <<>> \in [{} -> Entries] /\ DOMAIN <<>> = {}
    OBVIOUS
  <2>2. <<>> \in Trackers
    BY <2>1 DEF Trackers
  <2> QED
    BY <2>1, <2>2 DEF Init
<1>7. link \in [Neighbours -> Seq(Messages)] /\ \A pair \in Neighbours : link[pair] = <<>>
  BY EmptySeq DEF Init
<1>8. TypedState
  <2>1. changes \in 0 .. MaxChanges
    BY RangeQueriesAssumption DEF Init
  <2>2. answer \in [Queries -> {NoAnswer} \union SUBSET Found]
    BY DEF Init
  <2>3. replaced \subseteq Clps \X Ports \X Clps
    BY DEF Init
  <2> QED
    BY <1>2, <1>4, <1>5, <1>6, <1>7, <2>1, <2>2, <2>3 DEF TypedState
<1>9. ToSet(<<>>) = {}
  BY TailFacts, EmptySeq
<1>10. Known
  BY <1>5, <1>6, <1>9 DEF Init, Known
<1>11. AllAllowed
  BY <1>7, <1>9 DEF AllAllowed
<1> QED
  BY <1>8, <1>10, <1>11 DEF Typed

\* A query message enters the link from the ALP.
LEMMA TypedAsk ==
  ASSUME Typed, NEW q \in Queries, Ask(q)
  PROVE  /\ Typed'
         /\ Moved(link, link', {}, [p \in {ToParent(q)} |-> Query(q, {})])
         /\ ToParent(q) \in Neighbours
<1>1. ToParent(q) \in Neighbours /\ From[q] \in Alps /\ AlpToClp[From[q]] \in Clps /\ AlpToClp[From[q]] \notin Alps
  BY AgentsAlp, ClpTreeAssumption DEF ToParent, Neighbours
<1>2. Query(q, {}) \in Messages /\ Query(q, {}).kind = "query" /\ Query(q, {}).query = q
  <2>1. {} \in SUBSET Found
    OBVIOUS
  <2> QED
    BY <2>1, MessageKinds
<1>3. Moved(link, link', {}, [p \in {ToParent(q)} |-> Query(q, {})])
  BY <1>1, <1>2, OneSent DEF Typed, TypedState, Ask
<1>4. asked' = asked \union {q} /\ cancelled' = cancelled
  BY DEF Ask
<1>5. \A pair \in Neighbours : \A m \in ToSet(link'[pair]) : Allowed(pair, m, asked', cancelled')
  <2>1. Allowed(ToParent(q), Query(q, {}), asked', cancelled')
    BY <1>1, <1>2, <1>4 DEF Allowed, ToParent
  <2>2. PICK sent : sent = [p \in {ToParent(q)} |-> Query(q, {})]
    OBVIOUS
  <2>3. \A pair \in DOMAIN sent : Allowed(pair, sent[pair], asked', cancelled')
    BY <2>1, <2>2
  <2> QED
    BY <1>3, <1>4, <2>2, <2>3, AllowedAfter
<1>6. AllAllowed'
  BY <1>5 DEF AllAllowed
<1>7. TypedState'
  BY <1>3 DEF Ask, clpVars, Typed, TypedState, Moved
<1>8. Known'
  BY <1>4 DEF Ask, clpVars, Typed, Known
<1> QED
  BY <1>1, <1>3, <1>6, <1>7, <1>8 DEF Typed

\* An anti-message follows it.
LEMMA TypedCancel ==
  ASSUME Typed, NEW q \in Queries, Cancel(q)
  PROVE  /\ Typed'
         /\ Moved(link, link', {}, [p \in {ToParent(q)} |-> Anti(q)])
         /\ ToParent(q) \in Neighbours
<1>1. /\ ToParent(q) \in Neighbours /\ From[q] \in Alps /\ AlpToClp[From[q]] \in Clps /\ AlpToClp[From[q]] \notin Alps
      /\ Up(q, AlpToClp[From[q]]) = From[q]
  BY AgentsAlp, UpFacts, ClpTreeAssumption DEF ToParent, Neighbours
<1>2. Anti(q) \in Messages /\ Anti(q).kind = "anti" /\ Anti(q).query = q
  BY MessageKinds
<1>3. Moved(link, link', {}, [p \in {ToParent(q)} |-> Anti(q)])
  BY <1>1, <1>2, OneSent DEF Typed, TypedState, Cancel
<1>4. asked' = asked /\ cancelled' = cancelled \union {q} /\ q \in asked
  BY DEF Cancel
<1>5. \A pair \in Neighbours : \A m \in ToSet(link'[pair]) : Allowed(pair, m, asked', cancelled')
  <2>1. Allowed(ToParent(q), Anti(q), asked', cancelled')
    BY <1>1, <1>2, <1>4 DEF Allowed, ToParent
  <2>2. PICK sent : sent = [p \in {ToParent(q)} |-> Anti(q)]
    OBVIOUS
  <2>3. \A pair \in DOMAIN sent : Allowed(pair, sent[pair], asked', cancelled')
    BY <2>1, <2>2
  <2> QED
    BY <1>3, <1>4, <2>2, <2>3, AllowedAfter
<1>6. AllAllowed'
  BY <1>5 DEF AllAllowed
<1>7. TypedState'
  BY <1>3 DEF Cancel, clpVars, Typed, TypedState, Moved
<1>8. Known'
  BY <1>4 DEF Cancel, clpVars, Typed, Known
<1> QED
  BY <1>1, <1>3, <1>6, <1>7, <1>8 DEF Typed

\* The ALP takes the reply to its query.
LEMMA TypedAlpReceive ==
  ASSUME Typed, NEW r \in Alps, AlpReceive(r)
  PROVE  /\ Typed'
         /\ <<AlpToClp[r], r>> \in Neighbours /\ Moved(link, link', {<<AlpToClp[r], r>>}, <<>>)
<1> DEFINE in == <<AlpToClp[r], r>>
           m == Head(link[in])
<1>1. in \in Neighbours /\ AlpToClp[r] \in Clps /\ r \notin Clps
  BY ClpTreeAssumption DEF Neighbours
<1>2. link[in] # <<>> /\ link \in [Neighbours -> Seq(Messages)]
  BY DEF AlpReceive, Typed, TypedState
<1>3. m \in Messages /\ Allowed(in, m, asked, cancelled)
  BY <1>1, <1>2, HeadOf
<1>4. Moved(link, link', {in}, <<>>)
  BY <1>1, <1>2, OnlyTaken DEF AlpReceive
<1>5. m.kind = "query"
  <2>1. m.kind # "anti" /\ m.kind # "update"
    BY <1>1, <1>3 DEF Allowed
  <2> QED
    BY <1>3, <2>1, MessageKinds DEF Messages
<1>6. m.query \in Queries /\ m.found \in SUBSET Found
  BY <1>3, <1>5, MessageKinds
<1>7. asked' = asked /\ cancelled' = cancelled
  BY DEF AlpReceive
<1>8. \A pair \in Neighbours : \A e \in ToSet(link'[pair]) : Allowed(pair, e, asked', cancelled')
  <2>1. DOMAIN <<>> = {}
    OBVIOUS
  <2> QED
    BY <1>4, <1>7, <2>1, AllowedAfter
<1>9. AllAllowed'
  BY <1>8 DEF AllAllowed
<1>10. answer' \in [Queries -> {NoAnswer} \union SUBSET Found]
  <2>1. answer' = [answer EXCEPT ![m.query] = m.found]
    BY DEF AlpReceive
  <2> HIDE DEF m
  <2> QED
    BY <1>6, <2>1 DEF Typed, TypedState
<1>11. TypedState'
  BY <1>4, <1>10 DEF AlpReceive, clpVars, Typed, TypedState, Moved
<1>12. Known'
  BY <1>7 DEF AlpReceive, clpVars, Typed, Known
<1> QED
  BY <1>1, <1>4, <1>9, <1>11, <1>12 DEF Typed

\* A query that is passed on.
LEMMA TypedVisit ==
  ASSUME Typed, NEW pair \in IntoClp, FirstVisit(pair[1], pair[2])
  PROVE  Typed'
<1>1. PICK q \in Queries : \E away, sent : Visited(pair, q, away, sent)
  BY VisitEffect
<1>2. PICK away, sent : Visited(pair, q, away, sent)
  BY <1>1
<1> DEFINE c == pair[2]
<1>3. c \in Clps /\ UpPort(q, c) \in Ports
  BY ReceiverPort, UpFacts
<1>4. /\ q \in asked /\ q \notin DOMAIN tracker[c] /\ Passed(pair, q, away, away, sent)
  BY <1>2 DEF Visited
<1>5. UNCHANGED <<value, range, changes, agentVars, rolledBack, lost, replaced, misled>>
  BY DEF FirstVisit
<1>6. asked' = asked /\ cancelled' = cancelled
  BY <1>5 DEF agentVars
<1>7. PICK blocked \in [AllPorts -> BOOLEAN] :
        noted' = [noted EXCEPT ![c] = [p \in AllPorts |->
                      IF p \in (ClpPorts(c) \union {"HERE"}) \ {UpPort(q, c)}
                      THEN Append(@[p], [query |-> q, blocked |-> blocked[p]])
                      ELSE @[p]]]
  BY <1>2 DEF Visited
<1>8. ASSUME NEW p \in AllPorts
      PROVE  /\ noted'[c][p] \in Seq(Infos)
             /\ \A e \in ToSet(noted'[c][p]) : \/ e \in ToSet(noted[c][p])
                                               \/ e.query = q /\ p \in (ClpPorts(c) \union {"HERE"}) \ {UpPort(q, c)}
  <2>1. noted[c][p] \in Seq(Infos)
    BY <1>3 DEF Typed, TypedState
  <2>2. [query |-> q, blocked |-> blocked[p]] \in Infos
    BY DEF Infos
  <2>3. noted'[c][p] = IF p \in (ClpPorts(c) \union {"HERE"}) \ {UpPort(q, c)}
                       THEN Append(noted[c][p], [query |-> q, blocked |-> blocked[p]])
                       ELSE noted[c][p]
    BY <1>3, <1>7 DEF Typed, TypedState
  <2>4. /\ Append(noted[c][p], [query |-> q, blocked |-> blocked[p]]) \in Seq(Infos)
        /\ ToSet(Append(noted[c][p], [query |-> q, blocked |-> blocked[p]]))
             = ToSet(noted[c][p]) \union {[query |-> q, blocked |-> blocked[p]]}
    BY <2>1, <2>2, AppendFacts
  <2> QED
    BY <2>1, <2>3, <2>4
<1>9. \A d \in Clps \ {c} : noted'[d] = noted[d]
  BY <1>3, <1>7 DEF Typed, TypedState
<1>10. noted' \in [Clps -> [AllPorts -> Seq(Infos)]]
  <2>1. noted'[c] \in [AllPorts -> Seq(Infos)]
    <3>1. noted'[c] = [p \in AllPorts |-> noted'[c][p]]
      BY <1>3, <1>7 DEF Typed, TypedState
    <3> QED
      BY <1>8, <3>1
  <2>2. \A d \in Clps : noted'[d] \in [AllPorts -> Seq(Infos)]
    BY <1>9, <2>1 DEF Typed, TypedState
  <2>3. noted' = [d \in Clps |-> noted'[d]]
    BY <1>7 DEF Typed, TypedState
  <2> QED
    BY <2>2, <2>3
<1>11. crossed' \subseteq asked
  <2>1. Head(link[<<pair[1], pair[2]>>]).query = q
    <3>1. <<pair[1], pair[2]>> = pair
      BY ReceiverPort, NeighbourKinds
    <3> QED
      BY <1>4, <3>1 DEF Passed, Is
  <2>2. crossed' = crossed \/ crossed' = crossed \union {q}
    BY <2>1 DEF FirstVisit
  <2> QED
    BY <1>4, <2>2 DEF Typed, Known
<1>12. /\ Tracked(c, q, away) /\ away \subseteq ClpPorts(c) \ {UpPort(q, c)}
       /\ Moved(link, link', {pair}, sent)
  BY <1>4 DEF Passed
<1>13. TypedState'
  BY <1>5, <1>10, <1>12 DEF agentVars, Typed, TypedState, Moved, Tracked
<1>14. Known'
  <2>1. /\ asked' \subseteq Queries /\ cancelled' \subseteq asked' /\ rolledBack' \subseteq asked'
        /\ lost' \subseteq asked' /\ crossed' \subseteq asked' /\ misled' \subseteq asked'
    BY <1>5, <1>6, <1>11 DEF Typed, Known
  <2>2. ASSUME NEW d \in Clps, NEW r \in DOMAIN tracker'[d]
        PROVE  r \in asked' /\ tracker'[d][r].outstanding \subseteq ClpPorts(d) \ {UpPort(r, d)}
    <3>1. CASE d = c /\ r = q
      BY <1>4, <1>6, <1>12, <3>1 DEF Tracked
    <3>2. CASE d # c \/ r # q
      <4>1. r \in DOMAIN tracker[d] /\ tracker'[d][r] = tracker[d][r]
        <5>1. tracker'[d] \in Trackers
          BY <1>12 DEF Tracked
        <5>2. r \in Queries
          BY <5>1, TrackerFacts
        <5> QED
          BY <1>12, <3>2, <5>2 DEF Tracked
      <4> QED
        BY <1>6, <4>1 DEF Typed, Known
    <3> QED
      BY <3>1, <3>2
  <2>3. ASSUME NEW d \in Clps, NEW p \in AllPorts, NEW e \in ToSet(noted'[d][p])
        PROVE  e.query \in asked' /\ p \in (ClpPorts(d) \union {"HERE"}) \ {UpPort(e.query, d)}
    <3>1. CASE d = c
      BY <1>4, <1>6, <1>8, <3>1 DEF Typed, Known
    <3>2. CASE d # c
      BY <1>6, <1>9, <3>2 DEF Typed, Known
    <3> QED
      BY <3>1, <3>2
  <2> QED
    BY <2>1, <2>2, <2>3 DEF Known
<1>15. \A p \in Neighbours : \A m \in ToSet(link'[p]) : Allowed(p, m, asked', cancelled')
  <2>1. \A p \in DOMAIN sent : Allowed(p, sent[p], asked', cancelled')
    BY <1>4, <1>6, PassedIsAllowed
  <2> QED
    BY <1>6, <1>12, <2>1, AllowedAfter
<1>16. AllAllowed'
  BY <1>15 DEF AllAllowed
<1> QED
  BY <1>13, <1>14, <1>16 DEF Typed

\* A reply that is gathered.
LEMMA TypedReply ==
  ASSUME Typed, NEW pair \in IntoClp, Reply(pair[1], pair[2])
  PROVE  Typed'
<1>1. PICK q \in Queries : \E sent : Replied(pair, q, sent)
  BY ReplyEffect
<1>2. PICK sent : Replied(pair, q, sent)
  BY <1>1
<1>3. PICK out : out = tracker[pair[2]][q].outstanding \ {PortTo(pair[2], pair[1])}
  OBVIOUS
<1> DEFINE c == pair[2]
<1>4. c \in Clps
  BY ReceiverPort
<1>5. q \in asked /\ q \in DOMAIN tracker[c] /\ Passed(pair, q, out, {}, sent)
  BY <1>2, <1>3 DEF Replied
<1>6. UNCHANGED <<value, range, noted, changes, agentVars, rolledBack, lost, crossed, replaced, misled>>
  BY DEF Reply
<1>7. asked' = asked /\ cancelled' = cancelled
  BY <1>6 DEF agentVars
<1>8. /\ Tracked(c, q, out) /\ out \subseteq ClpPorts(c) \ {UpPort(q, c)}
      /\ Moved(link, link', {pair}, sent)
  BY <1>5 DEF Passed
<1>9. TypedState'
  BY <1>6, <1>8 DEF agentVars, Typed, TypedState, Moved, Tracked
<1>10. Known'
  <2>1. ASSUME NEW d \in Clps, NEW r \in DOMAIN tracker'[d]
        PROVE  r \in asked' /\ tracker'[d][r].outstanding \subseteq ClpPorts(d) \ {UpPort(r, d)}
    <3>1. CASE d = c /\ r = q
      BY <1>5, <1>7, <1>8, <3>1 DEF Tracked
    <3>2. CASE d # c \/ r # q
      <4>1. r \in DOMAIN tracker[d] /\ tracker'[d][r] = tracker[d][r]
        <5>1. tracker'[d] \in Trackers
          BY <1>8 DEF Tracked
        <5>2. r \in Queries
          BY <5>1, TrackerFacts
        <5> QED
          BY <1>8, <3>2, <5>2 DEF Tracked
      <4> QED
        BY <1>7, <4>1 DEF Typed, Known
    <3> QED
      BY <3>1, <3>2
  <2> QED
    BY <1>6, <1>7, <2>1 DEF Typed, Known
<1>11. \A p \in Neighbours : \A m \in ToSet(link'[p]) : Allowed(p, m, asked', cancelled')
  <2>1. \A p \in DOMAIN sent : Allowed(p, sent[p], asked', cancelled')
    BY <1>5, <1>7, PassedIsAllowed
  <2> QED
    BY <1>7, <1>8, <2>1, AllowedAfter
<1>12. AllAllowed'
  BY <1>11 DEF AllAllowed
<1> QED
  BY <1>9, <1>10, <1>12 DEF Typed

\* Following an anti-message: CLP c forgets the query, and sends the anti-message
\* through the ports in onward.
Forgotten(pair, q, onward, sent) ==
  /\ link[pair] # <<>> /\ Is(Head(link[pair]), "anti", q)
  /\ q \in cancelled /\ pair[1] = Up(q, pair[2])
  /\ onward \subseteq ClpPorts(pair[2]) \ {UpPort(q, pair[2])}
  /\ Moved(link, link', {pair}, sent)
  /\ DOMAIN sent = {<<pair[2], RankOf(pair[2], p)>> : p \in onward}
  /\ \A p \in DOMAIN sent : sent[p] = Anti(q)
  /\ noted' \in [Clps -> [AllPorts -> Seq(Infos)]]
  /\ \A d \in Clps \ {pair[2]} : noted'[d] = noted[d]
  /\ \A p \in AllPorts :
       /\ ToSet(noted'[pair[2]][p]) \subseteq ToSet(noted[pair[2]][p])
       /\ \A e \in ToSet(noted[pair[2]][p]) : e.query # q => e \in ToSet(noted'[pair[2]][p])
       /\ \A e \in ToSet(noted'[pair[2]][p]) : e.query # q
  /\ misled' \subseteq misled \union {q}
  /\ q \notin misled' =>
       \A p \in ClpPorts(pair[2]) \ {UpPort(q, pair[2])} :
         (\E e \in ToSet(noted[pair[2]][p]) : e.query = q /\ ~e.blocked) => p \in onward

\* Follow is such a step.
LEMMA FollowEffect ==
  ASSUME Typed, NEW pair \in IntoClp, Follow(pair[1], pair[2])
  PROVE  \E q \in Queries : \E onward, sent : Forgotten(pair, q, onward, sent)
<1> DEFINE x == pair[1]
           c == pair[2]
           q == Head(link[<<x, c>>]).query
           ports == AllPorts \ {PortToAlp(c, From[q])}
           onward == {p \in ports \ {"HERE"} : ~GetBlockStatus(noted[c][p], q)}
           own    == {p \in ports \ {"HERE"} :
                      \E e \in ToSet(noted[c][p]) : e.query = q /\ ~e.blocked}
           ms == [p \in onward |-> Anti(q)]
<1>1. IsNext(x, c, "anti")
  BY DEF Follow
<1>2. /\ pair \in Neighbours /\ c \in Clps /\ pair = <<x, c>>
      /\ link[pair] # <<>> /\ Head(link[pair]) \in Messages /\ Head(link[pair]).kind = "anti"
      /\ Allowed(pair, Head(link[pair]), asked, cancelled)
  BY <1>1, TakenIs
<1>3. q = Head(link[pair]).query
  BY <1>2
<1>4. /\ q \in Queries /\ q \in cancelled /\ pair[1] = Up(q, c) /\ Is(Head(link[pair]), "anti", q)
  BY <1>2, <1>3, MessageKinds DEF Is, Allowed
<1>5. /\ link'  = Sent(Taken(x, c), c, ms)
      /\ noted' = [noted EXCEPT ![c] = [p \in AllPorts |->
                        IF p \in ports THEN DeleteRangeQueryInfo(@[p], q) ELSE @[p]]]
      /\ misled' = IF own \subseteq onward THEN misled ELSE misled \union {q}
  BY DEF Follow
<1> HIDE DEF q
<1>6. /\ link \in [Neighbours -> Seq(Messages)] /\ noted \in [Clps -> [AllPorts -> Seq(Infos)]]
      /\ \A p \in AllPorts : noted[c][p] \in Seq(Infos)
  BY <1>2 DEF Typed, TypedState
<1>7. \A p \in AllPorts : \A e \in ToSet(noted[c][p]) :
        e.query \in asked /\ p \in (ClpPorts(c) \union {"HERE"}) \ {UpPort(e.query, c)}
  BY <1>2 DEF Typed, Known
<1>8. onward \subseteq ClpPorts(c) \ {UpPort(q, c)}
  <2> SUFFICES ASSUME NEW p \in onward PROVE p \in ClpPorts(c) \ {UpPort(q, c)}
    OBVIOUS
  <2>1. p \in AllPorts /\ p # "HERE" /\ p # UpPort(q, c) /\ noted[c][p] # <<>>
    BY DEF GetBlockStatus, UpPort
  <2>2. \E e : e \in ToSet(noted[c][p])
    BY <1>6, <2>1, TailFacts
  <2> QED
    BY <1>7, <2>1, <2>2
<1>9. onward \subseteq PortsOf(c)
  BY <1>8 DEF ClpPorts
<1>10. \E sent : /\ Moved(link, link', {pair}, sent)
                 /\ DOMAIN sent = {<<c, RankOf(c, p)>> : p \in onward}
                 /\ \A p \in DOMAIN sent : sent[p] = Anti(q)
  <2>1. DOMAIN ms = onward /\ \A p \in DOMAIN ms : ms[p] = Anti(q) /\ ms[p] \in Messages
    BY <1>4, MessageKinds
  <2> HIDE DEF ms, onward
  <2>2. Moved(link, link', {pair}, OnLinks(c, ms))
    BY <1>2, <1>5, <1>6, <2>1, SentAfterTaken
  <2>3. DOMAIN OnLinks(c, ms) = {<<c, RankOf(c, p)>> : p \in onward}
    <3>1. \A p \in onward : <<c, RankOf(c, p)>> \in DOMAIN OnLinks(c, ms)
      BY <1>2, <1>9, <2>1, OnLinksFacts
    <3>2. ASSUME NEW pr \in DOMAIN OnLinks(c, ms) PROVE \E p \in onward : pr = <<c, RankOf(c, p)>>
      <4>1. /\ pr \in Neighbours /\ pr[1] = c /\ PortTo(c, pr[2]) \in onward
            /\ pr[2] = RankOf(c, PortTo(c, pr[2]))
        BY <1>2, <1>9, <2>1, OnLinksFacts
      <4>2. pr = <<pr[1], pr[2]>>
        BY <4>1, NeighbourKinds
      <4> QED
        BY <4>1, <4>2
    <3> QED
      BY <3>1, <3>2
  <2>4. \A p \in DOMAIN OnLinks(c, ms) : OnLinks(c, ms)[p] = Anti(q)
    BY <1>2, <1>9, <2>1, OnLinksFacts
  <2> QED
    BY <2>2, <2>3, <2>4
<1>11. ASSUME NEW p \in AllPorts
       PROVE  /\ noted'[c][p] \in Seq(Infos)
              /\ ToSet(noted'[c][p]) \subseteq ToSet(noted[c][p])
              /\ \A e \in ToSet(noted[c][p]) : e.query # q => e \in ToSet(noted'[c][p])
              /\ \A e \in ToSet(noted'[c][p]) : e.query # q
  <2>1. noted'[c][p] = IF p \in ports THEN DeleteRangeQueryInfo(noted[c][p], q) ELSE noted[c][p]
    BY <1>2, <1>5, <1>6
  <2>2. CASE p \in ports
    <3> DEFINE gone == {e \in ToSet(noted[c][p]) : e.query = q}
    <3>1. noted'[c][p] = Remaining(noted[c][p], gone)
      BY <2>1, <2>2 DEF DeleteRangeQueryInfo
    <3>2. noted'[c][p] \in Seq(Infos) /\ ToSet(noted'[c][p]) = ToSet(noted[c][p]) \ gone
      <4> HIDE DEF gone
      <4> QED
        BY <1>6, <3>1, RemainingFacts
    <3> QED
      BY <3>2
  <2>3. CASE p \notin ports
    <3>1. p = UpPort(q, c) /\ noted'[c][p] = noted[c][p]
      BY <2>1, <2>3 DEF UpPort
    <3> QED
      BY <1>6, <1>7, <3>1
  <2> QED
    BY <2>2, <2>3
<1>12. /\ noted' \in [Clps -> [AllPorts -> Seq(Infos)]]
       /\ \A d \in Clps \ {c} : noted'[d] = noted[d]
  <2>1. \A d \in Clps \ {c} : noted'[d] = noted[d]
    BY <1>2, <1>5, <1>6
  <2>2. noted'[c] \in [AllPorts -> Seq(Infos)]
    <3>1. noted'[c] = [p \in AllPorts |-> noted'[c][p]]
      BY <1>2, <1>5, <1>6
    <3> QED
      BY <1>11, <3>1
  <2>3. \A d \in Clps : noted'[d] \in [AllPorts -> Seq(Infos)]
    BY <1>6, <2>1, <2>2
  <2>4. noted' = [d \in Clps |-> noted'[d]]
    BY <1>5, <1>6
  <2> QED
    BY <2>1, <2>3, <2>4
<1>13. misled' \subseteq misled \union {q}
  BY <1>5
<1>14. ASSUME q \notin misled', NEW p \in ClpPorts(c) \ {UpPort(q, c)},
              \E e \in ToSet(noted[c][p]) : e.query = q /\ ~e.blocked
       PROVE  p \in onward
  <2>1. p \in AllPorts \ {"HERE"} /\ p # PortToAlp(c, From[q])
    BY DEF ClpPorts, PortsOf, AllPorts, Ports, UpPort
  <2>2. p \in own
    BY <1>14, <2>1
  <2>3. own \subseteq onward
    <3> HIDE DEF own, onward
    <3> QED
      BY <1>5, <1>14
  <2> QED
    BY <2>2, <2>3
<1>15. PICK sent : /\ Moved(link, link', {pair}, sent)
                   /\ DOMAIN sent = {<<c, RankOf(c, p)>> : p \in onward}
                   /\ \A p \in DOMAIN sent : sent[p] = Anti(q)
  BY <1>10
<1> HIDE DEF onward, own, ports, ms
<1>16. Forgotten(pair, q, onward, sent)
  BY <1>2, <1>4, <1>8, <1>11, <1>12, <1>13, <1>14, <1>15 DEF Forgotten
<1> QED
  BY <1>4, <1>16

\* An anti-message that is passed on.
LEMMA TypedFollow ==
  ASSUME Typed, NEW pair \in IntoClp, Follow(pair[1], pair[2])
  PROVE  Typed'
<1>1. PICK q \in Queries : \E onward, sent : Forgotten(pair, q, onward, sent)
  BY FollowEffect
<1>2. PICK onward, sent : Forgotten(pair, q, onward, sent)
  BY <1>1
<1> DEFINE c == pair[2]
<1>3. c \in Clps /\ c \notin Alps
  BY ReceiverPort, ClpTreeAssumption
<1>4. UNCHANGED <<value, range, tracker, changes, agentVars, rolledBack, lost, crossed, replaced>>
  BY DEF Follow
<1>5. asked' = asked /\ cancelled' = cancelled
  BY <1>4 DEF agentVars
<1>6. TypedState'
  BY <1>2, <1>4 DEF agentVars, Typed, TypedState, Moved, Forgotten
<1>7. Known'
  <2>1. misled' \subseteq asked
    BY <1>2 DEF Forgotten, Typed, Known
  <2>2. ASSUME NEW d \in Clps, NEW p \in AllPorts, NEW e \in ToSet(noted'[d][p])
        PROVE  e.query \in asked /\ p \in (ClpPorts(d) \union {"HERE"}) \ {UpPort(e.query, d)}
    <3>1. e \in ToSet(noted[d][p])
      BY <1>2 DEF Forgotten
    <3> QED
      BY <3>1 DEF Typed, Known
  <2> QED
    BY <1>4, <1>5, <2>1, <2>2 DEF Typed, Known
<1>8. ASSUME NEW p \in DOMAIN sent PROVE Allowed(p, sent[p], asked, cancelled)
  <2>1. PICK o \in ClpPorts(c) \ {UpPort(q, c)} : p = <<c, RankOf(c, o)>>
    BY <1>2, <1>8 DEF Forgotten
  <2>2. sent[p] = Anti(q) /\ q \in cancelled /\ RankOf(c, o) \in Clps /\ Up(q, RankOf(c, o)) = c
    BY ZenonT(60), <1>2, <1>3, <1>8, <2>1, DownPort DEF Forgotten
  <2>3. sent[p].kind = "anti" /\ sent[p].query = q
    BY <2>2, MessageKinds
  <2> QED
    BY <2>1, <2>2, <2>3 DEF Allowed
<1>9. \A p \in Neighbours : \A m \in ToSet(link'[p]) : Allowed(p, m, asked', cancelled')
  <2>1. Moved(link, link', {pair}, sent)
    BY <1>2 DEF Forgotten
  <2> QED
    BY <1>5, <1>8, <2>1, AllowedAfter
<1>10. AllAllowed'
  BY <1>9 DEF AllAllowed
<1> QED
  BY <1>6, <1>7, <1>10 DEF Typed

\* A range is that of its two corners.
LEMMA RangeOfCorners ==
  ASSUME NEW r \in Ranges
  PROVE  RangeOf({r.min, r.max}) = r
<1>1. PICK a \in Int, b \in Int, x \in Int, y \in Int :
        /\ r = [min |-> <<a, b>>, max |-> <<x, y>>] /\ a <= x /\ b <= y
  BY DEF Ranges, Pairs, Leq
<1>2. r.min = <<a, b>> /\ r.max = <<x, y>>
  BY <1>1
<1> DEFINE P == {r.min, r.max}
<1>3. {p[1] : p \in P} = {a, x} /\ {p[2] : p \in P} = {b, y} /\ P # {}
  BY <1>2
<1> HIDE DEF P
<1>4. \A i, j \in Int : i <= j => Min({i, j}) = i /\ Max({i, j}) = j
  <2> SUFFICES ASSUME NEW i \in Int, NEW j \in Int, i <= j PROVE Min({i, j}) = i /\ Max({i, j}) = j
    OBVIOUS
  <2>1. IsFiniteSet({i, j})
    <3>1. IsFiniteSet({i} \union {j}) /\ {i} \union {j} = {i, j}
      BY FS_Singleton, FS_AddElement
    <3> QED
      BY <3>1
  <2> DEFINE S == {i, j}
  <2>2. S \in SUBSET Int /\ S # {} /\ i \in S /\ j \in S /\ \A k \in S : k = i \/ k = j
    OBVIOUS
  <2> HIDE DEF S
  <2>3. Min(S) \in S /\ Max(S) \in S /\ \A k \in S : Min(S) <= k /\ k <= Max(S)
    BY <2>1, <2>2, FiniteSetOfInts DEF S
  <2>4. Min(S) = i /\ Max(S) = j
    <3>1. PICK k, l : k = Min(S) /\ l = Max(S)
      OBVIOUS
    <3>2. /\ k = i \/ k = j
          /\ l = i \/ l = j
          /\ k <= i /\ j <= l
      BY <2>2, <2>3, <3>1
    <3>3. k = i /\ l = j
      BY <3>2
    <3> QED
      BY <3>1, <3>3
  <2> QED
    BY <2>4 DEF S
<1>5. RangeOf(P) = [min |-> <<Min({a, x}), Min({b, y})>>, max |-> <<Max({a, x}), Max({b, y})>>]
  BY <1>3 DEF RangeOf
<1>6. RangeOf(P) = r
  BY <1>1, <1>4, <1>5
<1> QED
  BY <1>6 DEF P

\* An update tells of the new range alone.
LEMMA UpdateIs ==
  ASSUME NEW c \in Clps, NEW p \in ClpPorts(c), NEW source \in AllPorts, NEW new \in Ranges
  PROVE  /\ UpdateFor(c, p, source, new) = Update(new, source)
         /\ UpdateFor(c, p, source, new) \in UpdateMessages
<1>1. RemotePorts(c, p, source) = {}
  <2> SUFFICES ASSUME IsParentClp(c), c = 0 PROVE FALSE
    BY DEF RemotePorts
  <2>1. p \in PortsOf(c) /\ RankOf(c, p) \in Clps
    BY DEF ClpPorts
  <2>2. p = "UP"
    BY <2>1, PortRank
  <2>3. "UP" \in Ports /\ (p \in PortsOf(c) => c # 0)
    BY <2>2 DEF PortsOf, Ports
  <2> QED
    BY <2>1, <2>3
<1>2. UNION {{r.min, r.max} : r \in ({range[c][o] : o \in {}} \ {NoRange}) \union {new}} = {new.min, new.max}
  OBVIOUS
<1>3. UpdateFor(c, p, source, new) = Update(RangeOf({new.min, new.max}), source)
  BY <1>1, <1>2 DEF UpdateFor
<1>4. UpdateFor(c, p, source, new) = Update(new, source)
  BY <1>3, RangeOfCorners
<1> QED
  BY <1>4 DEF Update, UpdateMessages

\* Updates that CLP c sends after a change of its range for the port source.
LEMMA UpdatesOnLinks ==
  ASSUME Typed, NEW c \in Clps, NEW source \in AllPorts, NEW new \in Ranges,
         NEW ms, ms = [p \in ClpPorts(c) \ {source} |-> UpdateFor(c, p, source, new)]
  PROVE  /\ \A p \in DOMAIN ms : ms[p] \in Messages
         /\ \A p \in DOMAIN OnLinks(c, ms) :
              /\ OnLinks(c, ms)[p] = Update(new, source) /\ OnLinks(c, ms)[p] \in UpdateMessages
              /\ p \in Clps \X Clps /\ p[1] = c /\ PortTo(c, p[2]) # source
              /\ Allowed(p, OnLinks(c, ms)[p], asked, cancelled)
         /\ \A p \in ClpPairs : p[1] = c /\ PortTo(c, p[2]) # source => p \in DOMAIN OnLinks(c, ms)
<1>1. \A p \in DOMAIN ms : ms[p] = Update(new, source) /\ ms[p] \in UpdateMessages /\ p \in ClpPorts(c)
  BY UpdateIs
<1>2. DOMAIN ms \subseteq PortsOf(c)
  BY <1>1 DEF ClpPorts
<1>3. \A p \in DOMAIN ms : ms[p] \in Messages
  BY <1>1 DEF Messages
<1>4. ASSUME NEW p \in DOMAIN OnLinks(c, ms)
      PROVE  /\ OnLinks(c, ms)[p] = Update(new, source) /\ OnLinks(c, ms)[p] \in UpdateMessages
             /\ p \in Clps \X Clps /\ p[1] = c /\ PortTo(c, p[2]) # source
             /\ Allowed(p, OnLinks(c, ms)[p], asked, cancelled)
  <2>1. /\ p \in Neighbours /\ p[1] = c /\ PortTo(c, p[2]) \in DOMAIN ms
        /\ p[2] = RankOf(c, PortTo(c, p[2]))
        /\ OnLinks(c, ms)[p] = ms[PortTo(c, p[2])]
    BY <1>2, OnLinksFacts
  <2>2. p[2] \in Clps /\ OnLinks(c, ms)[p] \in UpdateMessages /\ OnLinks(c, ms)[p] = Update(new, source)
    BY <1>1, <2>1 DEF ClpPorts
  <2>3. p \in Clps \X Clps
    <3>1. p = <<p[1], p[2]>>
      BY <2>1, NeighbourKinds
    <3> QED
      BY <2>1, <2>2, <3>1
  <2>4. OnLinks(c, ms)[p].kind = "update"
    BY <2>2, MessageKinds DEF Messages
  <2>5. PortTo(c, p[2]) # source
    BY <2>1
  <2> HIDE DEF OnLinks
  <2>6. Allowed(p, OnLinks(c, ms)[p], asked, cancelled)
    BY <2>3, <2>4 DEF Allowed
  <2> QED
    BY <2>1, <2>2, <2>3, <2>5, <2>6
<1>5. ASSUME NEW p \in ClpPairs, p[1] = c, PortTo(c, p[2]) # source
      PROVE  p \in DOMAIN OnLinks(c, ms)
  <2>1. p \in Neighbours /\ p[2] \in Clps /\ p = <<c, p[2]>>
    BY <1>5 DEF ClpPairs
  <2>2. PortTo(c, p[2]) \in ClpPorts(c)
    BY <2>1, PortToNeighbour DEF ClpPorts
  <2>3. PortTo(c, p[2]) \in DOMAIN ms
    BY <1>5, <2>2
  <2> QED
    BY <1>5, <2>1, <2>3 DEF OnLinks
<1> QED
  BY <1>3, <1>4, <1>5

\* What a change or an update does to the links: nothing that queries could see.
Updated(take, sent) ==
  /\ Moved(link, link', take, sent)
  /\ \A pair \in take : /\ pair \in Clps \X Clps /\ pair \in Neighbours /\ link[pair] # <<>>
                        /\ Head(link[pair]) \in UpdateMessages
  /\ \A pair \in DOMAIN sent : /\ pair \in Clps \X Clps /\ sent[pair] \in UpdateMessages
                               /\ Allowed(pair, sent[pair], asked, cancelled)

\* The new range of CLP c for the port source is sent to all other neighbours.
Announced(c, source, sent) ==
  /\ \A pair \in DOMAIN sent : /\ sent[pair] = Update(range'[c][source], source)
                               /\ pair[1] = c /\ PortTo(c, pair[2]) # source
  /\ range'[c][source] # range[c][source] =>
       \A pair \in ClpPairs : pair[1] = c /\ PortTo(c, pair[2]) # source => pair \in DOMAIN sent

\* Each of the queries is rolled back or lost.
LEMMA SentOrLost ==
  ASSUME NEW list, NEW queries, SendRollbacks(list, queries)
  PROVE  /\ rolledBack \union queries \subseteq rolledBack' \union lost'
         /\ rolledBack \subseteq rolledBack' /\ rolledBack' \subseteq rolledBack \union queries
         /\ lost \subseteq lost' /\ lost' \subseteq lost \union queries
<1>1. AddLp(list, queries) \subseteq queries
  BY DEF AddLp
<1> QED
  BY <1>1 DEF SendRollbacks

\* A write that is refused leaves the value.
LEMMA ChangedValue ==
  ASSUME Typed, NEW v \in Variables, NEW new \in Values[v],
         value' = [value EXCEPT ![v] = new] \/ value' = value
  PROVE  /\ value' \in [Variables -> Pairs] /\ \A w \in Variables : value'[w] \in Values[w]
         /\ value'[v] \in {value[v], new} /\ \A w \in Variables \ {v} : value'[w] = value[w]
<1>1. new \in Pairs
  BY RangeQueriesAssumption DEF IsPoint, Pairs
<1>2. value \in [Variables -> Pairs] /\ \A w \in Variables : value[w] \in Values[w]
  BY DEF Typed, TypedState
<1> QED
  BY <1>1, <1>2

\* Change is such a step: the new range is that of the points.
LEMMA ChangeEffect ==
  ASSUME Typed, NEW v \in Variables, NEW new \in Values[v], Change(v, new)
  PROVE  Typed' /\ \E sent : Updated({}, sent) /\ Announced(Home[v], "HERE", sent)
<1> DEFINE c == Home[v]
           box == RangeOf(Points(c, value'))
           ms == [p \in ClpPorts(c) \ {"HERE"} |-> UpdateFor(c, p, "HERE", box)]
<1>1. c \in Clps /\ new \in Pairs
  BY RangeQueriesAssumption DEF IsPoint, Pairs
<1>2. /\ changes < MaxChanges /\ changes' = changes + 1
      /\ value' = [value EXCEPT ![v] = new] \/ value' = value
      /\ range' = [range EXCEPT ![c]["HERE"] = box]
      /\ SendRollbacks(noted[c]["HERE"], RolledBackByChange(noted[c]["HERE"], value[v], new))
      /\ link' = IF box = range[c]["HERE"] THEN link ELSE WithUpdates(link, c, "HERE", box)
      /\ UNCHANGED <<noted, tracker, agentVars, crossed, replaced, misled>>
  BY DEF Change
<1>3. value' \in [Variables -> Pairs] /\ \A w \in Variables : value'[w] \in Values[w]
  BY <1>2, ChangedValue
<1>4. box \in Ranges
  <2> DEFINE P == Points(c, value')
  <2>1. value'[v] \in P /\ P \in SUBSET Pairs
    BY <1>3 DEF Points
  <2>2. IsFiniteSet(P)
    <3>1. IsFiniteSet({value'[w] : w \in DOMAIN value'})
      <4>1. DOMAIN value' = Variables
        BY <1>3
      <4> QED
        BY <4>1, FiniteImage, RangeQueriesAssumption
    <3>2. P \in SUBSET {value'[w] : w \in DOMAIN value'}
      BY <1>3 DEF Points
    <3> HIDE DEF P
    <3> QED
      BY <3>1, <3>2, FS_Subset
  <2> HIDE DEF P
  <2>3. RangeOf(P) \in Ranges
    BY <2>1, <2>2, RangeOfPoints
  <2> QED
    BY <2>3 DEF P
<1> HIDE DEF box, c
<1>5. \E sent : Updated({}, sent) /\ Announced(c, "HERE", sent)
  <2>1. link \in [Neighbours -> Seq(Messages)]
    BY DEF Typed, TypedState
  <2>2. range'[c]["HERE"] = box
    <3>1. range \in [Clps -> [AllPorts -> Ranges \union {NoRange}]] /\ "HERE" \in AllPorts
      BY DEF Typed, TypedState, AllPorts
    <3> QED
      BY <1>1, <1>2, <3>1
  <2>3. CASE box = range[c]["HERE"]
    <3>1. Moved(link, link', {}, <<>>) /\ DOMAIN <<>> = {}
      <4>1. link' = link
        BY <1>2, <2>3
      <4> QED
        BY <2>1, <4>1, NoneMoved
    <3>2. Updated({}, <<>>) /\ Announced(c, "HERE", <<>>)
      BY <2>2, <2>3, <3>1 DEF Updated, Announced
    <3> QED
      BY <3>2
  <2>4. CASE box # range[c]["HERE"]
    <3>1. /\ \A p \in DOMAIN ms : ms[p] \in Messages
          /\ \A p \in DOMAIN OnLinks(c, ms) :
              /\ OnLinks(c, ms)[p] = Update(box, "HERE") /\ OnLinks(c, ms)[p] \in UpdateMessages
              /\ p \in Clps \X Clps /\ p[1] = c /\ PortTo(c, p[2]) # "HERE"
              /\ Allowed(p, OnLinks(c, ms)[p], asked, cancelled)
          /\ \A p \in ClpPairs : p[1] = c /\ PortTo(c, p[2]) # "HERE" => p \in DOMAIN OnLinks(c, ms)
      <4> HIDE DEF ms
      <4>1. ms = [p \in ClpPorts(c) \ {"HERE"} |-> UpdateFor(c, p, "HERE", box)]
        BY DEF ms
      <4>2. "HERE" \in AllPorts
        BY DEF AllPorts
      <4> QED
        BY <1>1, <1>4, <4>1, <4>2, UpdatesOnLinks
    <3>2. link' = Sent(link, c, ms)
      BY <1>2, <2>4 DEF WithUpdates
    <3> HIDE DEF ms
    <3>3. Moved(link, link', {}, OnLinks(c, ms))
      BY <2>1, <3>1, <3>2, OnlySent
    <3> DEFINE sent == OnLinks(c, ms)
    <3> HIDE DEF sent
    <3>4. Updated({}, sent)
      BY <3>1, <3>3 DEF Updated, sent
    <3>5. Announced(c, "HERE", sent)
      BY <2>2, <3>1 DEF Announced, sent
    <3> QED
      BY <3>4, <3>5
  <2> QED
    BY <2>3, <2>4
<1>6. PICK sent : Updated({}, sent)
  BY <1>5
<1>7. asked' = asked /\ cancelled' = cancelled
  BY <1>2 DEF agentVars
<1>8. TypedState'
  <2>1. link' \in [Neighbours -> Seq(Messages)]
    BY <1>6 DEF Updated, Moved
  <2>2. range' \in [Clps -> [AllPorts -> Ranges \union {NoRange}]]
    BY <1>1, <1>2, <1>4 DEF Typed, TypedState
  <2>3. changes' \in 0 .. MaxChanges
    BY <1>2, RangeQueriesAssumption DEF Typed, TypedState
  <2> QED
    BY <1>2, <1>3, <2>1, <2>2, <2>3 DEF agentVars, Typed, TypedState
<1>9. rolledBack' \subseteq asked /\ lost' \subseteq asked
  <2>1. RolledBackByChange(noted[c]["HERE"], value[v], new) \subseteq asked
    BY <1>1 DEF RolledBackByChange, Typed, Known, AllPorts
  <2>2. /\ rolledBack' \subseteq rolledBack \union RolledBackByChange(noted[c]["HERE"], value[v], new)
        /\ lost' \subseteq lost \union RolledBackByChange(noted[c]["HERE"], value[v], new)
    BY <1>2, SentOrLost
  <2> QED
    BY <2>1, <2>2 DEF Typed, Known
<1>10. Known'
  BY <1>2, <1>7, <1>9 DEF Typed, Known
<1>11. \A p \in Neighbours : \A m \in ToSet(link'[p]) : Allowed(p, m, asked', cancelled')
  BY <1>6, <1>7, AllowedAfter DEF Updated
<1>12. AllAllowed'
  BY <1>11 DEF AllAllowed
<1> QED
  BY <1>5, <1>8, <1>10, <1>12 DEF Typed, c

\* Learn is such a step.
LEMMA LearnEffect ==
  ASSUME Typed, NEW pair \in IntoClp, Learn(pair[1], pair[2])
  PROVE  Typed' /\ \E sent : Updated({pair}, sent) /\ Announced(pair[2], PortTo(pair[2], pair[1]), sent)
<1> DEFINE x    == pair[1]
           c    == pair[2]
           new  == Head(link[<<x, c>>]).range
           source == Head(link[<<x, c>>]).source
           port == PortTo(c, x)
           list == noted[c][port]
           ms   == [p \in ClpPorts(c) \ {port} |-> UpdateFor(c, p, port, new)]
<1>1. IsNext(x, c, "update")
  BY DEF Learn
<1>2. /\ pair \in Neighbours /\ c \in Clps /\ pair = <<x, c>>
      /\ link[pair] # <<>> /\ Head(link[pair]) \in Messages /\ Head(link[pair]).kind = "update"
      /\ Allowed(pair, Head(link[pair]), asked, cancelled)
  BY <1>1, TakenIs
<1>3. Head(link[pair]) \in UpdateMessages /\ pair \in Clps \X Clps
  BY <1>2, MessageKinds DEF Allowed
<1>4. new \in Ranges
  BY <1>2, <1>3, MessageKinds
<1>5. port \in Ports /\ port \in AllPorts
  BY ReceiverPort DEF AllPorts
<1>6. /\ range'      = [range EXCEPT ![c][port] = new]
      /\ SendRollbacks(list, RolledBackByUpdate(list, new))
      /\ link'       = IF new = range[c][port] THEN Taken(x, c)
                       ELSE WithUpdates(Taken(x, c), c, port, new)
      /\ crossed'    = crossed \union
             {e.query : e \in {e \in ToSet(list) : Cross(new, Rectangle[e.query])}}
      /\ replaced'   = {t \in replaced : <<t[1], t[2]>> # <<c, port>>} \union
             {<<c, port, d>> : d \in {d \in Behind(c, port) :
                /\ PortToward(x, d) # source
                /\ ~Within(new, range[x][PortToward(x, d)])}}
      /\ UNCHANGED <<value, noted, tracker, changes, agentVars, misled>>
  BY DEF Learn
<1> HIDE DEF new, source
<1>7. \E sent : Updated({pair}, sent) /\ Announced(c, port, sent)
  <2>1. link \in [Neighbours -> Seq(Messages)]
    BY DEF Typed, TypedState
  <2>4. range'[c][port] = new
    <3>1. range \in [Clps -> [AllPorts -> Ranges \union {NoRange}]]
      BY DEF Typed, TypedState
    <3> HIDE DEF port
    <3> QED
      BY <1>2, <1>5, <1>6, <3>1
  <2>2. CASE new = range[c][port]
    <3>1. Moved(link, link', {pair}, <<>>) /\ DOMAIN <<>> = {}
      <4>1. link' = [link EXCEPT ![pair] = Tail(@)]
        BY <1>2, <1>6, <2>2 DEF Taken
      <4>2. Moved(link, [link EXCEPT ![pair] = Tail(@)], {pair}, <<>>)
        BY <1>2, <2>1, OnlyTaken
      <4>3. DOMAIN <<>> = {}
        OBVIOUS
      <4> QED
        BY <4>1, <4>2, <4>3
    <3>2. Updated({pair}, <<>>)
      BY <1>2, <1>3, <3>1 DEF Updated
    <3>3. Announced(c, port, <<>>)
      BY <2>2, <2>4, <3>1 DEF Announced
    <3> QED
      BY <3>2, <3>3
  <2>3. CASE new # range[c][port]
    <3>1. /\ \A p \in DOMAIN ms : ms[p] \in Messages
          /\ \A p \in DOMAIN OnLinks(c, ms) :
              /\ OnLinks(c, ms)[p] = Update(new, port) /\ OnLinks(c, ms)[p] \in UpdateMessages
              /\ p \in Clps \X Clps /\ p[1] = c /\ PortTo(c, p[2]) # port
              /\ Allowed(p, OnLinks(c, ms)[p], asked, cancelled)
          /\ \A p \in ClpPairs : p[1] = c /\ PortTo(c, p[2]) # port => p \in DOMAIN OnLinks(c, ms)
      <4> HIDE DEF ms, port, c
      <4>1. ms = [p \in ClpPorts(c) \ {port} |-> UpdateFor(c, p, port, new)]
        BY DEF ms
      <4>2. c \in Clps /\ port \in AllPorts /\ new \in Ranges
        BY <1>2, <1>4, <1>5
      <4> QED
        BY <4>1, <4>2, UpdatesOnLinks
    <3>2. link' = Sent(Taken(x, c), c, ms)
      BY <1>6, <2>3 DEF WithUpdates
    <3> HIDE DEF ms
    <3>3. Moved(link, link', {pair}, OnLinks(c, ms))
      BY <1>2, <2>1, <3>1, <3>2, SentAfterTaken
    <3> DEFINE sent == OnLinks(c, ms)
    <3> HIDE DEF sent, port
    <3>4. Updated({pair}, sent)
      BY <1>2, <1>3, <3>1, <3>3 DEF Updated, sent
    <3>5. Announced(c, port, sent)
      BY <2>4, <3>1 DEF Announced, sent
    <3> QED
      BY <3>4, <3>5
  <2> QED
    BY <2>2, <2>3
<1>8. PICK sent : Updated({pair}, sent)
  BY <1>7
<1>9. asked' = asked /\ cancelled' = cancelled
  BY <1>6 DEF agentVars
<1> HIDE DEF port
<1>10. TypedState'
  <2>1. link' \in [Neighbours -> Seq(Messages)]
    BY <1>8 DEF Updated, Moved
  <2>2. range' \in [Clps -> [AllPorts -> Ranges \union {NoRange}]]
    BY <1>2, <1>4, <1>5, <1>6 DEF Typed, TypedState
  <2>3. replaced' \subseteq Clps \X Ports \X Clps
    <3>1. Behind(c, port) \subseteq Clps
      BY DEF Behind
    <3> QED
      BY <1>2, <1>5, <1>6, <3>1 DEF Typed, TypedState
  <2> QED
    BY <1>6, <2>1, <2>2, <2>3 DEF agentVars, Typed, TypedState
<1>11. rolledBack' \subseteq asked /\ lost' \subseteq asked /\ crossed' \subseteq asked
  <2>1. \A e \in ToSet(list) : e.query \in asked
    BY <1>2, <1>5 DEF Typed, Known
  <2>2. RolledBackByUpdate(list, new) \subseteq asked
    BY <2>1 DEF RolledBackByUpdate
  <2>3. /\ rolledBack' \subseteq rolledBack \union RolledBackByUpdate(list, new)
        /\ lost' \subseteq lost \union RolledBackByUpdate(list, new)
    BY <1>6, SentOrLost
  <2> HIDE DEF list
  <2> QED
    BY <1>6, <2>1, <2>2, <2>3 DEF Typed, Known
<1>12. Known'
  BY <1>6, <1>9, <1>11 DEF Typed, Known
<1>13. \A p \in Neighbours : \A m \in ToSet(link'[p]) : Allowed(p, m, asked', cancelled')
  BY <1>8, <1>9, AllowedAfter DEF Updated
<1>14. AllAllowed'
  BY <1>13 DEF AllAllowed
<1> QED
  BY <1>7, <1>10, <1>12, <1>14 DEF Typed, port

\* Nothing happens to the types when nothing happens.
LEMMA TypedNext ==
  ASSUME Typed, [Next]_vars
  PROVE  Typed'
<1>1. ASSUME NEW q \in Queries, Ask(q) PROVE Typed'
  BY <1>1, TypedAsk
<1>2. ASSUME NEW q \in Queries, Cancel(q) PROVE Typed'
  BY <1>2, TypedCancel
<1>3. ASSUME NEW v \in Variables, NEW p \in Values[v], Change(v, p) PROVE Typed'
  BY <1>3, ChangeEffect
<1>4. ASSUME NEW r \in Alps, AlpReceive(r) PROVE Typed'
  BY <1>4, TypedAlpReceive
<1>5. ASSUME NEW pair \in IntoClp, ClpReceive(pair[1], pair[2]) PROVE Typed'
  BY <1>5, TypedVisit, TypedReply, TypedFollow, LearnEffect DEF ClpReceive
<1>6. CASE UNCHANGED vars
  BY <1>6 DEF vars, clpVars, agentVars, Typed, TypedState, Known, AllAllowed
<1> QED
  BY <1>1, <1>2, <1>3, <1>4, <1>5, <1>6 DEF Next, Receive

\* Types hold in every behaviour.
LEMMA TypedHolds == Spec => []Typed
<1>1. Init => Typed
  BY TypedInit
<1>2. Typed /\ [Next]_vars => Typed'
  BY TypedNext
<1> QED
  BY <1>1, <1>2, PTL DEF Spec

\* Every variable of the model has a value of its type, and what a CLP waits for
\* comes from neighbours that the query did not come from.
THEOREM TypeCorrect == Spec => []TypeOK
<1>1. Typed => TypeOK
  <2> SUFFICES ASSUME Typed PROVE TypeOK
    OBVIOUS
  <2>1. \A v \in Variables : value[v] \in Values[v]
    BY DEF Typed, TypedState
  <2>2. ASSUME NEW c \in Clps, NEW p \in AllPorts
        PROVE  IsRange(range[c][p]) /\ noted[c][p] \in Seq([query : Queries, blocked : BOOLEAN])
    <3>1. range[c][p] \in Ranges \union {NoRange} /\ noted[c][p] \in Seq(Infos)
      BY DEF Typed, TypedState
    <3>2. IsRange(range[c][p])
      BY <3>1 DEF IsRange, Ranges, IsPoint, Pairs
    <3> QED
      BY <3>1, <3>2 DEF Infos
  <2>3. ASSUME NEW c \in Clps, NEW q \in DOMAIN tracker[c]
        PROVE  /\ tracker[c][q].outstanding \subseteq ClpPorts(c) \ {PortToAlp(c, From[q])}
               /\ tracker[c][q].found \subseteq Found
    <3>1. tracker[c][q].outstanding \subseteq ClpPorts(c) \ {UpPort(q, c)}
      BY DEF Typed, Known
    <3>2. tracker[c] \in Trackers
      BY DEF Typed, TypedState
    <3>3. tracker[c][q] \in Entries
      BY <3>2, TrackerFacts
    <3> QED
      BY <3>1, <3>3 DEF Entries, UpPort
  <2>4. ASSUME NEW pair \in Neighbours, NEW m \in ToSet(link[pair])
        PROVE  \/ m.kind = "query" /\ m.query \in asked /\ m.found \subseteq Found
               \/ m.kind = "anti" /\ m.query \in cancelled
               \/ m.kind = "update" /\ IsRange(m.range) /\ pair \in Clps \X Clps
    <3>1. link[pair] \in Seq(Messages) /\ Allowed(pair, m, asked, cancelled)
      BY DEF Typed, TypedState, AllAllowed
    <3>2. m \in Messages
      BY <3>1, TailFacts
    <3>3. m.kind = "query" => m.found \subseteq Found
      BY <3>2, MessageKinds
    <3>4. m.kind = "update" => IsRange(m.range)
      <4>1. m.kind = "update" => m.range \in Ranges
        BY <3>2, MessageKinds
      <4> QED
        BY <4>1 DEF IsRange, Ranges, IsPoint, Pairs
    <3>5. m.kind = "query" \/ m.kind = "anti" \/ m.kind = "update"
      BY <3>2, MessageKinds DEF Messages
    <3> QED
      BY <3>1, <3>3, <3>4, <3>5 DEF Allowed
  <2>5. cancelled \union rolledBack \union lost \union crossed \union misled \subseteq asked
    BY DEF Typed, Known
  <2>6. \A q \in Queries : answer[q] = NoAnswer \/ answer[q] \subseteq Found
    BY DEF Typed, TypedState
  <2>7. replaced \subseteq Clps \X Ports \X Clps /\ changes \in 0 .. MaxChanges
    BY DEF Typed, TypedState
  <2> QED
    BY <2>1, <2>2, <2>3, <2>4, <2>5, <2>6, <2>7 DEF TypeOK
<1> QED
  BY <1>1, TypedHolds, PTL

-----------------------------------------------------------------------------
(* Queries and replies.  Between a CLP and its neighbour towards the agent *)
(* there is at most one message about a query: the query on its way out,   *)
(* or, when the CLP has been there and waits for nobody, the reply; and    *)
(* there is one, or the CLP waits, only if the neighbour waits for it.     *)

OutOf(q, c)  == Pos(link[<<Up(q, c), c>>], "query", q)
BackTo(q, c) == Pos(link[<<c, Up(q, c)>>], "query", q)

\* The neighbour waits for CLP c to reply.
Waits(q, c) ==
  IF Up(q, c) \in Clps
  THEN q \in DOMAIN tracker[Up(q, c)] /\ PortTo(Up(q, c), c) \in tracker[Up(q, c)][q].outstanding
  ELSE q \in asked

OnceAt(q, c) ==
  /\ AtMostOne(OutOf(q, c)) /\ AtMostOne(BackTo(q, c))
  /\ OutOf(q, c) # {} => BackTo(q, c) = {} /\ q \notin DOMAIN tracker[c] /\ Waits(q, c)
  /\ BackTo(q, c) # {} => q \notin DOMAIN tracker[c] /\ Waits(q, c)
  /\ q \in DOMAIN tracker[c] => Waits(q, c)

Once == \A q \in Queries, c \in Clps : OnceAt(q, c)

\* List t has one message about q at most, and none if s has none.
Less(s, t, kind, q) == AtMostOne(Pos(t, kind, q)) /\ (Pos(s, kind, q) = {} => Pos(t, kind, q) = {})

\* Where no message about q is added, there is none that was not there.
LEMMA LessMoved ==
  ASSUME link \in [Neighbours -> Seq(Messages)], NEW new, NEW take, NEW sent, Moved(link, new, take, sent),
         NEW p \in Neighbours, NEW kind, NEW q, AtMostOne(Pos(link[p], kind, q)),
         p \in DOMAIN sent => ~Is(sent[p], kind, q)
  PROVE  Less(link[p], new[p], kind, q)
<1>1. link[p] \in Seq(Messages)
  OBVIOUS
<1>2. CASE p \in take
  <2>1. new[p] = Tail(link[p]) /\ link[p] # <<>>
    BY <1>2 DEF Moved
  <2>2. /\ AtMostOne(Pos(Tail(link[p]), kind, q))
        /\ Pos(link[p], kind, q) = {} => Pos(Tail(link[p]), kind, q) = {}
    BY <1>1, <2>1, OneTail
  <2> QED
    BY <2>1, <2>2 DEF Less
<1>3. CASE p \in DOMAIN sent
  <2>1. new[p] = Append(link[p], sent[p]) /\ sent[p] \in Messages
    BY <1>3 DEF Moved
  <2>2. Pos(new[p], kind, q) = Pos(link[p], kind, q)
    <3>1. Pos(Append(link[p], sent[p]), kind, q)
          = Pos(link[p], kind, q) \union (IF Is(sent[p], kind, q) THEN {Len(link[p]) + 1} ELSE {})
      BY <1>1, <2>1, PosAppend
    <3> QED
      BY <1>3, <2>1, <3>1
  <2> QED
    BY <2>2 DEF Less
<1>4. CASE p \notin take /\ p \notin DOMAIN sent
  <2>1. new[p] = link[p]
    BY <1>4 DEF Moved
  <2> QED
    BY <2>1 DEF Less
<1> QED
  BY <1>2, <1>3, <1>4

\* Where the only message about q is taken, there is none left.
LEMMA GoneMoved ==
  ASSUME link \in [Neighbours -> Seq(Messages)], NEW new, NEW take, NEW sent, Moved(link, new, take, sent),
         NEW p \in Neighbours, NEW kind, NEW q, AtMostOne(Pos(link[p], kind, q)),
         p \in take, Is(Head(link[p]), kind, q)
  PROVE  Pos(new[p], kind, q) = {}
<1>1. link[p] \in Seq(Messages) /\ new[p] = Tail(link[p]) /\ link[p] # <<>>
  BY DEF Moved
<1>2. Pos(Tail(link[p]), kind, q) = {}
  BY <1>1, OneTail
<1> QED
  BY <1>1, <1>2

\* The first message has place 1.
LEMMA HeadIsThere ==
  ASSUME link \in [Neighbours -> Seq(Messages)], NEW p \in Neighbours, link[p] # <<>>,
         NEW kind, NEW q, Is(Head(link[p]), kind, q)
  PROVE  1 \in Pos(link[p], kind, q)
<1>1. link[p] \in Seq(Messages)
  OBVIOUS
<1> QED
  BY <1>1, PosTail

\* Where a first message about q is added, there is one.
LEMMA CameMoved ==
  ASSUME link \in [Neighbours -> Seq(Messages)], NEW new, NEW take, NEW sent, Moved(link, new, take, sent),
         NEW p \in Neighbours, NEW kind, NEW q, Pos(link[p], kind, q) = {},
         p \in DOMAIN sent, Is(sent[p], kind, q)
  PROVE  Pos(new[p], kind, q) # {} /\ AtMostOne(Pos(new[p], kind, q))
<1>1. new[p] = Append(link[p], sent[p]) /\ sent[p] \in Messages /\ link[p] \in Seq(Messages)
  BY DEF Moved
<1>2. Pos(new[p], kind, q) = {Len(link[p]) + 1}
  <2>1. Pos(Append(link[p], sent[p]), kind, q) = Pos(link[p], kind, q) \union {Len(link[p]) + 1}
    BY <1>1, PosAppend
  <2> QED
    BY <1>1, <2>1
<1> QED
  BY <1>2 DEF AtMostOne

\* An edge that gets no message about q, and on which the waiting stays.
LEMMA OnceSame ==
  ASSUME NEW q \in Queries, NEW c \in Clps, OnceAt(q, c),
         Less(link[<<Up(q, c), c>>], link'[<<Up(q, c), c>>], "query", q),
         Less(link[<<c, Up(q, c)>>], link'[<<c, Up(q, c)>>], "query", q),
         q \in DOMAIN tracker'[c] => q \in DOMAIN tracker[c],
         Waits(q, c) => Waits(q, c)'
  PROVE  OnceAt(q, c)'
<1>1. /\ AtMostOne(OutOf(q, c)') /\ AtMostOne(BackTo(q, c)')
      /\ OutOf(q, c) = {} => OutOf(q, c)' = {}
      /\ BackTo(q, c) = {} => BackTo(q, c)' = {}
  BY DEF Less, OutOf, BackTo
<1> QED
  BY <1>1 DEF OnceAt

\* A step that sends no query message, and leaves the trackers alone.
LEMMA OnceUntouched ==
  ASSUME Typed, Once, NEW take, NEW sent, Moved(link, link', take, sent),
         \A p \in DOMAIN sent : sent[p].kind # "query",
         tracker' = tracker, asked \subseteq asked'
  PROVE  Once'
<1> SUFFICES ASSUME NEW q \in Queries, NEW c \in Clps PROVE OnceAt(q, c)'
  BY DEF Once
<1>1. OnceAt(q, c)
  BY DEF Once
<1>2. <<Up(q, c), c>> \in Neighbours /\ <<c, Up(q, c)>> \in Neighbours
  BY UpFacts
<1>3. link \in [Neighbours -> Seq(Messages)]
  BY DEF Typed, TypedState
<1>4. /\ Less(link[<<Up(q, c), c>>], link'[<<Up(q, c), c>>], "query", q)
      /\ Less(link[<<c, Up(q, c)>>], link'[<<c, Up(q, c)>>], "query", q)
  BY <1>1, <1>2, <1>3, LessMoved DEF OnceAt, OutOf, BackTo, Is
<1>5. Waits(q, c) => Waits(q, c)'
  BY DEF Waits
<1> QED
  BY <1>1, <1>4, <1>5, OnceSame

\* Where a message about q comes from.
LEMMA Sender ==
  ASSUME Typed, NEW pair \in IntoClp, NEW q \in Queries, NEW m \in ToSet(link[pair]), Is(m, "query", q)
  PROVE  pair[1] = Up(q, pair[2]) \/ (pair[1] \in Clps /\ pair[2] = Up(q, pair[1]))
<1>1. pair \in Neighbours /\ pair[2] \in Clps /\ pair = <<pair[1], pair[2]>>
  BY ReceiverPort, NeighbourKinds
<1>2. CASE pair[1] \in Alps
  <2>1. pair[1] = From[q] /\ pair[2] = AlpToClp[From[q]]
    BY <1>1, <1>2, NeighbourKinds DEF Typed, AllAllowed, Allowed, Is
  <2> QED
    BY <1>1, <2>1, UpFacts
<1>3. CASE pair[1] \in Clps
  BY <1>1, <1>3, UpOrDown
<1> QED
  BY <1>1, <1>2, <1>3, NeighbourKinds

\* A query that a CLP has no entry for came from the agent's side.
LEMMA VisitSender ==
  ASSUME Typed, Once, NEW pair \in IntoClp, NEW q \in Queries, link[pair] # <<>>,
         Is(Head(link[pair]), "query", q), q \notin DOMAIN tracker[pair[2]]
  PROVE  pair[1] = Up(q, pair[2])
<1>1. pair \in Neighbours /\ pair[2] \in Clps /\ pair = <<pair[1], pair[2]>>
  BY ReceiverPort, NeighbourKinds
<1>2. Head(link[pair]) \in ToSet(link[pair]) /\ link \in [Neighbours -> Seq(Messages)]
  BY <1>1, HeadOf DEF Typed, TypedState
<1>3. ASSUME pair[1] \in Clps, pair[2] = Up(q, pair[1]) PROVE FALSE
  <2>1. BackTo(q, pair[1]) # {}
    <3>1. 1 \in Pos(link[pair], "query", q)
      BY <1>1, <1>2, HeadIsThere
    <3> QED
      BY <1>1, <1>3, <3>1 DEF BackTo
  <2>2. Waits(q, pair[1])
    BY <1>3, <2>1 DEF Once, OnceAt
  <2> QED
    BY <1>1, <1>3, <2>2 DEF Waits
<1> QED
  BY <1>2, <1>3, Sender

\* One that it has an entry for came from the other side.
LEMMA ReplySender ==
  ASSUME Typed, Once, NEW pair \in IntoClp, NEW q \in Queries, link[pair] # <<>>,
         Is(Head(link[pair]), "query", q), q \in DOMAIN tracker[pair[2]]
  PROVE  pair[1] \in Clps /\ pair[2] = Up(q, pair[1])
<1>1. pair \in Neighbours /\ pair[2] \in Clps /\ pair = <<pair[1], pair[2]>>
  BY ReceiverPort, NeighbourKinds
<1>2. Head(link[pair]) \in ToSet(link[pair]) /\ link \in [Neighbours -> Seq(Messages)]
  BY <1>1, HeadOf DEF Typed, TypedState
<1>3. ASSUME pair[1] = Up(q, pair[2]) PROVE FALSE
  <2>1. OutOf(q, pair[2]) # {}
    <3>1. 1 \in Pos(link[pair], "query", q)
      BY <1>1, <1>2, HeadIsThere
    <3> QED
      BY <1>1, <1>3, <3>1 DEF OutOf
  <2> QED
    BY <1>1, <2>1 DEF Once, OnceAt
<1> QED
  BY <1>2, <1>3, Sender

\* The agent asks once.
LEMMA OnceAsk ==
  ASSUME Typed, Once, NEW q0 \in Queries, Ask(q0)
  PROVE  Once'
<1> SUFFICES ASSUME NEW q \in Queries, NEW c \in Clps PROVE OnceAt(q, c)'
  BY DEF Once
<1>1. PICK sent : sent = [p \in {ToParent(q0)} |-> Query(q0, {})]
  OBVIOUS
<1>2. /\ Moved(link, link', {}, sent) /\ DOMAIN sent = {ToParent(q0)} /\ ToParent(q0) \in Neighbours
      /\ \A k \in Queries : Is(sent[ToParent(q0)], "query", k) <=> k = q0
  <2>1. {} \in SUBSET Found
    OBVIOUS
  <2>2. Query(q0, {}).kind = "query" /\ Query(q0, {}).query = q0
    BY <2>1, MessageKinds
  <2>3. sent[ToParent(q0)] = Query(q0, {}) /\ DOMAIN sent = {ToParent(q0)}
    BY <1>1
  <2> QED
    BY <1>1, <2>2, <2>3, TypedAsk DEF Is
<1>3. OnceAt(q, c)
  BY DEF Once
<1>4. <<Up(q, c), c>> \in Neighbours /\ <<c, Up(q, c)>> \in Neighbours
  BY UpFacts
<1>5. link \in [Neighbours -> Seq(Messages)]
  BY DEF Typed, TypedState
<1>6. tracker' = tracker /\ asked' = asked \union {q0} /\ q0 \notin asked
  BY DEF Ask, clpVars
<1>7. Waits(q, c) => Waits(q, c)'
  BY <1>6 DEF Waits
<1>8. ToParent(q0) = <<From[q0], AlpToClp[From[q0]]>> /\ From[q0] \notin Clps
  BY AgentsAlp DEF ToParent
<1>9. <<c, Up(q, c)>> # ToParent(q0)
  BY <1>8
<1>10. Less(link[<<c, Up(q, c)>>], link'[<<c, Up(q, c)>>], "query", q)
  <2>1. <<c, Up(q, c)>> \notin DOMAIN sent /\ AtMostOne(Pos(link[<<c, Up(q, c)>>], "query", q))
    BY <1>2, <1>3, <1>9 DEF OnceAt, BackTo
  <2> QED
    BY <1>2, <1>4, <1>5, <2>1, LessMoved
<1>11. CASE q # q0 \/ <<Up(q, c), c>> # ToParent(q0)
  <2>1. /\ <<Up(q, c), c>> \in DOMAIN sent => ~Is(sent[<<Up(q, c), c>>], "query", q)
        /\ AtMostOne(Pos(link[<<Up(q, c), c>>], "query", q))
    BY <1>2, <1>3, <1>11 DEF OnceAt, OutOf
  <2>2. Less(link[<<Up(q, c), c>>], link'[<<Up(q, c), c>>], "query", q)
    BY <1>2, <1>4, <1>5, <2>1, LessMoved
  <2> QED
    BY <1>3, <1>6, <1>7, <1>10, <2>2, OnceSame
<1>12. CASE q = q0 /\ <<Up(q, c), c>> = ToParent(q0)
  <2>1. Up(q, c) \notin Clps
    BY <1>8, <1>12
  <2>2. ~Waits(q, c) /\ Waits(q, c)'
    BY <1>6, <1>12, <2>1 DEF Waits
  <2>3. OutOf(q, c) = {} /\ BackTo(q, c) = {} /\ q \notin DOMAIN tracker[c]
    BY <1>3, <2>2 DEF OnceAt
  <2>4. Pos(link'[<<Up(q, c), c>>], "query", q) # {} /\ AtMostOne(Pos(link'[<<Up(q, c), c>>], "query", q))
    <3>1. PICK p \in Neighbours : p = <<Up(q, c), c>>
      BY <1>4
    <3>2. Pos(link[p], "query", q) = {} /\ p \in DOMAIN sent /\ Is(sent[p], "query", q)
      BY <1>2, <1>12, <2>3, <3>1 DEF OutOf
    <3>3. Pos(link'[p], "query", q) # {} /\ AtMostOne(Pos(link'[p], "query", q))
      BY <1>2, <1>5, <3>2, CameMoved
    <3> QED
      BY <3>1, <3>3
  <2>5. Pos(link'[<<c, Up(q, c)>>], "query", q) = {}
    BY <1>10, <2>3 DEF BackTo, Less
  <2> QED
    BY <1>6, <2>2, <2>3, <2>4, <2>5 DEF OnceAt, OutOf, BackTo, AtMostOne
<1> QED
  BY <1>11, <1>12

\* The links of other CLPs, and those of queries that are not q0, stay as they are.
LEMMA OnceElsewhere ==
  ASSUME Typed, Once, NEW pair \in IntoClp, NEW q0 \in Queries, NEW out, NEW asks, NEW sent,
         Passed(pair, q0, out, asks, sent), asked' = asked,
         NEW q \in Queries, NEW c \in Clps,
         q # q0 \/ (c # pair[2] /\ Up(q, c) # pair[2])
  PROVE  OnceAt(q, c)'
<1>1. OnceAt(q, c)
  BY DEF Once
<1>2. <<Up(q, c), c>> \in Neighbours /\ <<c, Up(q, c)>> \in Neighbours
  BY UpFacts
<1>3. link \in [Neighbours -> Seq(Messages)]
  BY DEF Typed, TypedState
<1>4. /\ Moved(link, link', {pair}, sent) /\ Tracked(pair[2], q0, out)
      /\ \A p \in DOMAIN sent : Is(sent[p], "query", q0) /\ p[1] = pair[2]
  BY DEF Passed
<1>5. ASSUME NEW p \in {<<Up(q, c), c>>, <<c, Up(q, c)>>}, AtMostOne(Pos(link[p], "query", q))
      PROVE  Less(link[p], link'[p], "query", q)
  <2>1. p \in DOMAIN sent => ~Is(sent[p], "query", q)
    BY <1>4 DEF Is
  <2> QED
    BY <1>2, <1>3, <1>4, <1>5, <2>1, LessMoved
<1>6. /\ Less(link[<<Up(q, c), c>>], link'[<<Up(q, c), c>>], "query", q)
      /\ Less(link[<<c, Up(q, c)>>], link'[<<c, Up(q, c)>>], "query", q)
  BY <1>1, <1>5 DEF OnceAt, OutOf, BackTo
<1>7. \A d \in Clps : q # q0 \/ d # pair[2] =>
        /\ q \in DOMAIN tracker'[d] <=> q \in DOMAIN tracker[d]
        /\ q \in DOMAIN tracker[d] => tracker'[d][q] = tracker[d][q]
  BY <1>4 DEF Tracked
<1>8. Waits(q, c) => Waits(q, c)'
  BY <1>7 DEF Waits
<1> QED
  BY <1>1, <1>6, <1>7, <1>8, OnceSame

\* A query that is passed on leaves one edge and enters others, or turns back.
LEMMA OnceVisit ==
  ASSUME Typed, Once, NEW pair \in IntoClp, FirstVisit(pair[1], pair[2])
  PROVE  Once'
<1>1. PICK q \in Queries : \E away, sent : Visited(pair, q, away, sent)
  BY VisitEffect
<1>2. PICK away, sent : Visited(pair, q, away, sent)
  BY <1>1
<1> DEFINE x == pair[1]
           h == pair[2]
<1>3. /\ Passed(pair, q, away, away, sent) /\ q \notin DOMAIN tracker[h]
      /\ link[pair] # <<>> /\ Is(Head(link[pair]), "query", q)
      /\ away \subseteq ClpPorts(h) \ {UpPort(q, h)}
      /\ Moved(link, link', {pair}, sent) /\ Tracked(h, q, away)
      /\ \A p \in DOMAIN sent : Is(sent[p], "query", q) /\ p[1] = h
  BY <1>2 DEF Visited, Passed
<1>4. pair \in Neighbours /\ h \in Clps /\ pair = <<x, h>> /\ x # h
  BY ReceiverPort, NeighbourKinds
<1>5. x = Up(q, h)
  BY <1>3, VisitSender
<1>6. asked' = asked
  BY DEF FirstVisit, agentVars
<1>7. link \in [Neighbours -> Seq(Messages)]
  BY DEF Typed, TypedState
<1>8. DOMAIN sent = IF away = {} THEN {<<h, x>>} ELSE {<<h, RankOf(h, p)>> : p \in away}
  BY <1>3, <1>5 DEF Passed
<1> SUFFICES ASSUME NEW k \in Queries, NEW c \in Clps PROVE OnceAt(k, c)'
  BY DEF Once
<1>9. CASE k = q /\ c = h
  <2>1. OnceAt(q, h) /\ 1 \in OutOf(q, h)
    BY <1>3, <1>4, <1>5, <1>7, HeadIsThere DEF Once, OutOf
  <2>2. BackTo(q, h) = {} /\ Waits(q, h) /\ AtMostOne(OutOf(q, h))
    BY <2>1 DEF OnceAt
  <2>3. Pos(link'[<<x, h>>], "query", q) = {}
    BY <1>3, <1>4, <1>5, <1>7, <2>2, GoneMoved DEF OutOf
  <2>4. Waits(q, h)'
    BY <1>3, <1>4, <1>5, <1>6, <2>2 DEF Waits, Tracked
  <2>5. <<h, x>> \in Neighbours /\ Pos(link[<<h, x>>], "query", q) = {}
    BY <1>4, <1>5, <2>2, UpFacts DEF BackTo
  <2>6. CASE away = {}
    <3>1. Pos(link'[<<h, x>>], "query", q) # {} /\ AtMostOne(Pos(link'[<<h, x>>], "query", q))
      <4>1. <<h, x>> \in DOMAIN sent /\ Is(sent[<<h, x>>], "query", q)
        BY <1>3, <1>8, <2>6
      <4> QED
        BY <1>3, <1>7, <2>5, <4>1, CameMoved
    <3>2. q \notin DOMAIN tracker'[h]
      BY <1>3, <2>6 DEF Tracked
    <3> QED
      BY <1>5, <1>9, <2>3, <2>4, <3>1, <3>2 DEF OnceAt, OutOf, BackTo, AtMostOne
  <2>7. CASE away # {}
    <3>1. <<h, x>> \notin DOMAIN sent
      <4> SUFFICES ASSUME NEW p \in away, RankOf(h, p) = x PROVE FALSE
        BY <1>8, <2>7
      <4>1. PortTo(h, RankOf(h, p)) = p
        BY <1>3, <1>4, DownPort
      <4>2. PortTo(h, Up(q, h)) = UpPort(q, h)
        BY <1>4, UpFacts
      <4> QED
        BY <1>3, <1>5, <4>1, <4>2
    <3>2. Pos(link'[<<h, x>>], "query", q) = {}
      <4>1. AtMostOne(Pos(link[<<h, x>>], "query", q))
        BY <2>5 DEF AtMostOne
      <4>2. Less(link[<<h, x>>], link'[<<h, x>>], "query", q)
        BY <1>3, <1>7, <2>5, <3>1, <4>1, LessMoved
      <4> QED
        BY <2>5, <4>2 DEF Less
    <3> QED
      BY <1>5, <1>9, <2>3, <2>4, <3>2 DEF OnceAt, OutOf, BackTo, AtMostOne
  <2> QED
    BY <2>6, <2>7
<1>10. CASE k = q /\ Up(q, c) = h
  <2>1. ~Waits(q, c)
    BY <1>3, <1>4, <1>10 DEF Waits
  <2>2. OutOf(q, c) = {} /\ BackTo(q, c) = {} /\ q \notin DOMAIN tracker[c]
    BY <2>1 DEF Once, OnceAt
  <2>3. <<h, c>> \in Neighbours /\ <<c, h>> \in Neighbours /\ c # h
    BY <1>10, UpFacts, NeighbourKinds
  <2>4. c # x
    <3> SUFFICES ASSUME c = x PROVE FALSE
      OBVIOUS
    <3>1. c = Up(q, h) <=> h # Up(q, c)
      BY <1>4, <2>3, UpOrDown
    <3> QED
      BY <1>5, <1>10, <3>1
  <2>5. q \notin DOMAIN tracker'[c]
    BY <1>3, <2>2, <2>3 DEF Tracked
  <2>6. Pos(link'[<<c, h>>], "query", q) = {}
    <3>1. AtMostOne(Pos(link[<<c, h>>], "query", q)) /\ Pos(link[<<c, h>>], "query", q) = {}
      BY <1>10, <2>2 DEF AtMostOne, BackTo
    <3>2. <<c, h>> \notin DOMAIN sent
      BY <1>3, <2>3
    <3>3. Less(link[<<c, h>>], link'[<<c, h>>], "query", q)
      BY <1>3, <1>7, <2>3, <3>1, <3>2, LessMoved
    <3> QED
      BY <3>1, <3>3 DEF Less
  <2>7. Pos(link[<<h, c>>], "query", q) = {} /\ AtMostOne(Pos(link[<<h, c>>], "query", q))
    BY <1>10, <2>2 DEF AtMostOne, OutOf
  <2>8. CASE <<h, c>> \in DOMAIN sent
    <3>1. Pos(link'[<<h, c>>], "query", q) # {} /\ AtMostOne(Pos(link'[<<h, c>>], "query", q))
      BY <1>3, <1>7, <2>3, <2>7, <2>8, CameMoved
    <3>2. PICK p \in away : c = RankOf(h, p)
      BY <1>8, <2>4, <2>8
    <3>3. PortTo(h, c) = p /\ away # {}
      BY ZenonT(60), <1>3, <1>4, <3>2, DownPort
    <3>4. Waits(q, c)'
      BY <1>3, <1>4, <1>10, <3>2, <3>3 DEF Waits, Tracked
    <3> QED
      BY <1>10, <2>5, <2>6, <3>1, <3>4 DEF OnceAt, OutOf, BackTo, AtMostOne
  <2>9. CASE <<h, c>> \notin DOMAIN sent
    <3>1. Less(link[<<h, c>>], link'[<<h, c>>], "query", q)
      BY <1>3, <1>7, <2>3, <2>7, <2>9, LessMoved
    <3>2. Pos(link'[<<h, c>>], "query", q) = {}
      BY <2>7, <3>1 DEF Less
    <3> QED
      BY <1>10, <2>5, <2>6, <3>2 DEF OnceAt, OutOf, BackTo, AtMostOne
  <2> QED
    BY <2>8, <2>9
<1>11. CASE k # q \/ (c # h /\ Up(k, c) # h)
  BY <1>3, <1>6, <1>11, OnceElsewhere
<1> QED
  BY <1>9, <1>10, <1>11

\* A reply leaves one edge, and may be followed by one on the next.
LEMMA OnceReply ==
  ASSUME Typed, Once, NEW pair \in IntoClp, Reply(pair[1], pair[2])
  PROVE  Once'
<1>1. PICK q \in Queries : \E sent : Replied(pair, q, sent)
  BY ReplyEffect
<1>2. PICK sent : Replied(pair, q, sent)
  BY <1>1
<1> DEFINE x == pair[1]
           h == pair[2]
<1>3. PICK out : out = tracker[h][q].outstanding \ {PortTo(h, x)}
  OBVIOUS
<1>4. /\ Passed(pair, q, out, {}, sent) /\ q \in DOMAIN tracker[h]
      /\ link[pair] # <<>> /\ Is(Head(link[pair]), "query", q)
      /\ Moved(link, link', {pair}, sent) /\ Tracked(h, q, out)
      /\ \A p \in DOMAIN sent : Is(sent[p], "query", q)
      /\ DOMAIN sent = IF out = {} THEN {<<h, Up(q, h)>>} ELSE {}
  BY <1>2, <1>3 DEF Replied, Passed
<1>5. pair \in Neighbours /\ h \in Clps /\ pair = <<x, h>> /\ x # h
  BY ReceiverPort, NeighbourKinds
<1>6. x \in Clps /\ h = Up(q, x)
  BY <1>4, ReplySender
<1>7. x # Up(q, h)
  BY <1>5, <1>6, UpOrDown
<1>8. asked' = asked
  BY DEF Reply, agentVars
<1>9. link \in [Neighbours -> Seq(Messages)]
  BY DEF Typed, TypedState
<1> SUFFICES ASSUME NEW k \in Queries, NEW c \in Clps PROVE OnceAt(k, c)'
  BY DEF Once
<1>10. CASE k = q /\ c = h
  <2> DEFINE u == Up(q, h)
  <2>1. OutOf(q, h) = {} /\ BackTo(q, h) = {} /\ Waits(q, h)
    BY <1>4, <1>5 DEF Once, OnceAt
  <2>2. <<u, h>> \in Neighbours /\ <<h, u>> \in Neighbours /\ u # h
    BY <1>5, UpFacts, NeighbourKinds
  <2>3. Waits(q, h)'
    BY <1>4, <1>5, <1>8, <2>1, <2>2 DEF Waits, Tracked
  <2>4. Pos(link[<<u, h>>], "query", q) = {} /\ Pos(link[<<h, u>>], "query", q) = {}
    BY <2>1 DEF OutOf, BackTo
  <2>5. AtMostOne(Pos(link[<<u, h>>], "query", q)) /\ AtMostOne(Pos(link[<<h, u>>], "query", q))
    BY <2>4 DEF AtMostOne
  <2> HIDE DEF u
  <2>6. Pos(link'[<<u, h>>], "query", q) = {}
    <3>1. <<u, h>> \notin DOMAIN sent
      BY <1>4, <2>2
    <3>2. Less(link[<<u, h>>], link'[<<u, h>>], "query", q)
      BY <1>4, <1>9, <2>2, <2>5, <3>1, LessMoved
    <3> QED
      BY <2>4, <3>2 DEF Less
  <2>7. CASE out = {}
    <3>1. <<h, u>> \in DOMAIN sent
      BY <1>4, <2>7 DEF u
    <3>2. Pos(link'[<<h, u>>], "query", q) # {} /\ AtMostOne(Pos(link'[<<h, u>>], "query", q))
      BY <1>4, <1>9, <2>2, <2>4, <3>1, CameMoved
    <3>3. q \notin DOMAIN tracker'[h]
      BY <1>4, <2>7 DEF Tracked
    <3> QED
      BY <1>10, <2>3, <2>6, <3>2, <3>3 DEF OnceAt, OutOf, BackTo, AtMostOne, u
  <2>8. CASE out # {}
    <3>1. <<h, u>> \notin DOMAIN sent
      BY <1>4, <2>8
    <3>2. Less(link[<<h, u>>], link'[<<h, u>>], "query", q)
      BY <1>4, <1>9, <2>2, <2>5, <3>1, LessMoved
    <3>3. Pos(link'[<<h, u>>], "query", q) = {}
      BY <2>4, <3>2 DEF Less
    <3> QED
      BY <1>10, <2>3, <2>6, <3>3 DEF OnceAt, OutOf, BackTo, AtMostOne, u
  <2> QED
    BY <2>7, <2>8
<1>11. CASE k = q /\ Up(q, c) = h
  <2>1. <<h, c>> \in Neighbours /\ <<c, h>> \in Neighbours /\ c # h
    BY <1>11, UpFacts, NeighbourKinds
  <2>2. c # Up(q, h)
    BY <1>5, <1>11, <2>1, UpOrDown
  <2>3. <<h, c>> \notin DOMAIN sent /\ <<c, h>> \notin DOMAIN sent
    BY <1>4, <2>1, <2>2
  <2>4. OnceAt(q, c)
    BY DEF Once
  <2>5. AtMostOne(Pos(link[<<h, c>>], "query", q)) /\ AtMostOne(Pos(link[<<c, h>>], "query", q))
    BY <1>11, <2>4 DEF OnceAt, OutOf, BackTo
  <2>6. /\ Less(link[<<h, c>>], link'[<<h, c>>], "query", q)
        /\ Less(link[<<c, h>>], link'[<<c, h>>], "query", q)
    BY <1>4, <1>9, <2>1, <2>3, <2>5, LessMoved
  <2>7. q \in DOMAIN tracker'[c] <=> q \in DOMAIN tracker[c]
    BY <1>4, <2>1 DEF Tracked
  <2>8. CASE c = x
    <3>1. 1 \in BackTo(q, c)
      BY <1>4, <1>5, <1>9, <1>11, <2>8, HeadIsThere DEF BackTo
    <3>2. OutOf(q, c) = {} /\ q \notin DOMAIN tracker[c]
      BY <2>4, <3>1 DEF OnceAt
    <3>3. Pos(link'[<<c, h>>], "query", q) = {}
      BY <1>4, <1>5, <1>9, <2>5, <2>8, GoneMoved
    <3>4. Pos(link'[<<h, c>>], "query", q) = {}
      BY <1>11, <2>6, <3>2 DEF Less, OutOf
    <3> QED
      BY <1>11, <2>7, <3>2, <3>3, <3>4 DEF OnceAt, OutOf, BackTo, AtMostOne
  <2>9. CASE c # x
    <3>1. Waits(q, c) => Waits(q, c)'
      <4> SUFFICES ASSUME Waits(q, c) PROVE Waits(q, c)'
        OBVIOUS
      <4>1. PortTo(h, c) \in tracker[h][q].outstanding
        BY <1>5, <1>11 DEF Waits
      <4>2. PortTo(h, c) # PortTo(h, x)
        <5>1. RankOf(h, PortTo(h, c)) = c
          BY <1>5, <2>1, PortToNeighbour
        <5>2. RankOf(h, PortTo(h, x)) = x
          BY ReceiverPort
        <5> QED
          BY <2>9, <5>1, <5>2
      <4>3. PortTo(h, c) \in out /\ out # {}
        BY <1>3, <4>1, <4>2
      <4> QED
        BY <1>4, <1>5, <1>11, <4>3 DEF Waits, Tracked
    <3> QED
      BY <1>11, <2>4, <2>6, <2>7, <3>1, OnceSame
  <2> QED
    BY <2>8, <2>9
<1>12. CASE k # q \/ (c # h /\ Up(k, c) # h)
  BY <1>4, <1>8, <1>12, OnceElsewhere
<1> QED
  BY <1>10, <1>11, <1>12

\* Every step leaves one message per edge.
LEMMA OnceNext ==
  ASSUME Typed, Once, [Next]_vars
  PROVE  Once'
<1>1. ASSUME NEW q \in Queries, Ask(q) PROVE Once'
  BY <1>1, OnceAsk
<1>2. ASSUME NEW q \in Queries, Cancel(q) PROVE Once'
  <2>1. PICK sent : sent = [p \in {ToParent(q)} |-> Anti(q)]
    OBVIOUS
  <2>2. Moved(link, link', {}, sent) /\ \A p \in DOMAIN sent : sent[p] = Anti(q)
    BY <1>2, <2>1, TypedCancel
  <2>3. \A p \in DOMAIN sent : sent[p].kind # "query"
    BY <2>2, MessageKinds
  <2>4. tracker' = tracker /\ asked' = asked
    BY <1>2 DEF Cancel, clpVars
  <2> QED
    BY <2>2, <2>3, <2>4, OnceUntouched
<1>3. ASSUME NEW v \in Variables, NEW p \in Values[v], Change(v, p) PROVE Once'
  <2>1. PICK sent : Updated({}, sent)
    BY <1>3, ChangeEffect
  <2>2. \A pr \in DOMAIN sent : sent[pr].kind # "query"
    BY <2>1, MessageKinds DEF Updated, Messages
  <2>3. tracker' = tracker /\ asked' = asked
    BY <1>3 DEF Change, agentVars
  <2> QED
    BY <2>1, <2>2, <2>3, OnceUntouched DEF Updated
<1>4. ASSUME NEW r \in Alps, AlpReceive(r) PROVE Once'
  <2>1. Moved(link, link', {<<AlpToClp[r], r>>}, <<>>) /\ \A p \in DOMAIN <<>> : <<>>[p].kind # "query"
    <3>1. DOMAIN <<>> = {}
      OBVIOUS
    <3> QED
      BY <1>4, <3>1, TypedAlpReceive
  <2>2. tracker' = tracker /\ asked' = asked
    BY <1>4 DEF AlpReceive, clpVars
  <2> QED
    BY <2>1, <2>2, OnceUntouched
<1>5. ASSUME NEW pair \in IntoClp, Follow(pair[1], pair[2]) PROVE Once'
  <2>1. PICK q \in Queries : \E onward, sent : Forgotten(pair, q, onward, sent)
    BY <1>5, FollowEffect
  <2>2. PICK onward, sent : Forgotten(pair, q, onward, sent)
    BY <2>1
  <2>3. Moved(link, link', {pair}, sent) /\ \A pr \in DOMAIN sent : sent[pr].kind # "query"
    BY <2>2, MessageKinds DEF Forgotten
  <2>4. tracker' = tracker /\ asked' = asked
    BY <1>5 DEF Follow, agentVars
  <2> QED
    BY <2>3, <2>4, OnceUntouched
<1>6. ASSUME NEW pair \in IntoClp, Learn(pair[1], pair[2]) PROVE Once'
  <2>1. PICK sent : Updated({pair}, sent)
    BY <1>6, LearnEffect
  <2>2. \A pr \in DOMAIN sent : sent[pr].kind # "query"
    BY <2>1, MessageKinds DEF Updated, Messages
  <2>3. tracker' = tracker /\ asked' = asked
    BY <1>6 DEF Learn, agentVars
  <2> QED
    BY <2>1, <2>2, <2>3, OnceUntouched DEF Updated
<1>7. ASSUME NEW pair \in IntoClp, ClpReceive(pair[1], pair[2]) PROVE Once'
  BY <1>5, <1>6, <1>7, OnceVisit, OnceReply DEF ClpReceive
<1>8. CASE UNCHANGED vars
  BY <1>8 DEF vars, clpVars, agentVars, Once, OnceAt, OutOf, BackTo, Waits
<1> QED
  BY <1>1, <1>2, <1>3, <1>4, <1>7, <1>8 DEF Next, Receive

\* In the beginning there is none.
LEMMA OnceInit ==
  ASSUME Init
  PROVE  Once
<1> SUFFICES ASSUME NEW q \in Queries, NEW c \in Clps PROVE OnceAt(q, c)
  BY DEF Once
<1>1. Len(<<>>) = 0
  OBVIOUS
<1>2. \A p \in Neighbours : Pos(link[p], "query", q) = {}
  BY <1>1 DEF Init, Pos
<1>3. OutOf(q, c) = {} /\ BackTo(q, c) = {}
  BY <1>2, UpFacts DEF OutOf, BackTo
<1>4. DOMAIN tracker[c] = {}
  BY DEF Init
<1> QED
  BY <1>3, <1>4 DEF OnceAt, AtMostOne

\* One message per edge, in every behaviour.
LEMMA OnceHolds == Spec => [](Typed /\ Once)
<1>1. Init => Once
  BY OnceInit
<1>2. Typed /\ Once /\ [Next]_vars => Once'
  BY OnceNext
<1> QED
  BY <1>1, <1>2, TypedHolds, PTL DEF Spec

\* A query and a reply are the same message, and a CLP can tell which it gets by
\* whether it has an entry for the query: a reply finds one, and the port it comes in
\* by still outstanding; a query finds none.
THEOREM RepliesAreExpectedHolds == Spec => []RepliesAreExpected
<1>1. Typed /\ Once => RepliesAreExpected
  <2> SUFFICES ASSUME Typed, Once, NEW pair \in IntoClp, NEW m \in ToSet(link[pair]), m.kind = "query"
               PROVE  IF IsReply(pair, m.query)
                      THEN /\ m.query \in DOMAIN tracker[pair[2]]
                           /\ PortTo(pair[2], pair[1]) \in tracker[pair[2]][m.query].outstanding
                      ELSE m.query \notin DOMAIN tracker[pair[2]]
    BY DEF RepliesAreExpected
  <2>1. /\ pair \in Neighbours /\ pair[2] \in Clps /\ pair = <<pair[1], pair[2]>>
        /\ link[pair] \in Seq(Messages)
    BY ReceiverPort, NeighbourKinds DEF Typed, TypedState
  <2>2. m \in Messages
    BY <2>1, TailFacts
  <2>3. PICK q \in Queries : Is(m, "query", q) /\ q = m.query
    BY <2>2, MessageKinds DEF Is
  <2>4. IsReply(pair, q) <=> pair[1] # Up(q, pair[2])
    BY ReceiverPort DEF IsReply, UpPort
  <2>5. Pos(link[pair], "query", q) # {}
    BY <2>1, <2>3, PosMembers
  <2>6. CASE pair[1] = Up(q, pair[2])
    <3>1. OutOf(q, pair[2]) # {}
      BY <2>1, <2>5, <2>6 DEF OutOf
    <3> QED
      BY <2>1, <2>3, <2>4, <2>6, <3>1 DEF Once, OnceAt
  <2>7. CASE pair[1] # Up(q, pair[2])
    <3>1. pair[1] \in Clps /\ pair[2] = Up(q, pair[1])
      BY <2>3, <2>7, Sender
    <3>2. BackTo(q, pair[1]) # {}
      BY <2>1, <2>5, <3>1 DEF BackTo
    <3>3. Waits(q, pair[1])
      BY <3>1, <3>2 DEF Once, OnceAt
    <3> QED
      BY <2>1, <2>3, <2>4, <2>7, <3>1, <3>3 DEF Waits
  <2> QED
    BY <2>6, <2>7
<1> QED
  BY <1>1, OnceHolds, PTL

-----------------------------------------------------------------------------
(* Anti-messages.  Wherever a query is noted or on its way to, an anti-    *)
(* message follows it or will: it is on the link to that CLP, behind the   *)
(* query, or the neighbour it came from still has the query noted as       *)
(* passed on, and will send one on; but for queries whose anti-message     *)
(* followed another query, and until the agent sends one.                  *)

NotedAt(q, c) == \E p \in AllPorts : \E e \in ToSet(noted[c][p]) : e.query = q

\* The neighbour towards the agent will pass an anti-message on to CLP c.
Remembers(q, c) ==
  IF Up(q, c) \in Clps
  THEN \E e \in ToSet(noted[Up(q, c)][PortTo(Up(q, c), c)]) : e.query = q /\ ~e.blocked
  ELSE q \notin cancelled

Followed(q, c, k) == Later(link[<<Up(q, c), c>>], "anti", q, k) \/ Remembers(q, c)

FollowedAt(q, c) ==
  /\ NotedAt(q, c) => Followed(q, c, 0)
  /\ \A k \in OutOf(q, c) : Followed(q, c, k)

AllFollowed == \A q \in Queries \ misled, c \in Clps : FollowedAt(q, c)

\* A step that does not concern the query at this CLP.
FollowedSame(q, c, take, sent) ==
  /\ <<Up(q, c), c>> \in take =>
       /\ ~Is(Head(link[<<Up(q, c), c>>]), "query", q)
       /\ ~Is(Head(link[<<Up(q, c), c>>]), "anti", q)
  /\ <<Up(q, c), c>> \in DOMAIN sent /\ Is(sent[<<Up(q, c), c>>], "query", q) => Remembers(q, c)'
  /\ NotedAt(q, c)' => NotedAt(q, c)
  /\ Remembers(q, c) => \/ Remembers(q, c)'
                        \/ <<Up(q, c), c>> \in DOMAIN sent /\ Is(sent[<<Up(q, c), c>>], "anti", q)

\* What is on its way moves up by one when the first message is taken.
LEMMA FollowedTail ==
  ASSUME Typed, NEW q \in Queries, NEW c \in Clps, FollowedAt(q, c),
         NEW take, NEW sent, Moved(link, link', take, sent),
         <<Up(q, c), c>> \in take, Remembers(q, c) => Remembers(q, c)'
  PROVE  /\ \A k \in OutOf(q, c)' : Followed(q, c, k)'
         /\ NotedAt(q, c) /\ ~Is(Head(link[<<Up(q, c), c>>]), "anti", q) => Followed(q, c, 0)'
         /\ 1 \in OutOf(q, c) => Followed(q, c, 0)'
<1>1. PICK p \in Neighbours : p = <<Up(q, c), c>>
  BY UpFacts
<1>2. link[p] \in Seq(Messages) /\ link[p] # <<>> /\ link'[p] = Tail(link[p])
  BY <1>1 DEF Moved, Typed, TypedState
<1>3. /\ \A k : Followed(q, c, k) <=> Later(link[p], "anti", q, k) \/ Remembers(q, c)
      /\ \A k : Followed(q, c, k)' <=> Later(link'[p], "anti", q, k) \/ Remembers(q, c)'
  BY <1>1 DEF Followed
<1>4. OutOf(q, c) = Pos(link[p], "query", q) /\ OutOf(q, c)' = Pos(Tail(link[p]), "query", q)
  BY <1>1, <1>2 DEF OutOf
<1>5. ASSUME NEW k \in OutOf(q, c)' PROVE Followed(q, c, k)'
  <2>1. k \in Nat /\ k + 1 \in Pos(link[p], "query", q)
    BY <1>2, <1>4, PosTail
  <2>2. Followed(q, c, k + 1)
    BY <1>4, <2>1 DEF FollowedAt
  <2>3. ASSUME Later(link[p], "anti", q, k + 1) PROVE Later(Tail(link[p]), "anti", q, k)
    <3>1. k + 1 \in Nat /\ k + 1 # 0 /\ (k + 1) - 1 = k
      BY <2>1
    <3>2. Later(Tail(link[p]), "anti", q, (k + 1) - 1)
      BY <1>2, <2>3, <3>1, LaterTail
    <3> QED
      BY <3>1, <3>2
  <2> QED
    BY <1>2, <1>3, <2>2, <2>3
<1>6. ASSUME NotedAt(q, c), ~Is(Head(link[<<Up(q, c), c>>]), "anti", q) PROVE Followed(q, c, 0)'
  <2>1. Followed(q, c, 0)
    BY <1>6 DEF FollowedAt
  <2>2. Later(link[p], "anti", q, 0) => Later(Tail(link[p]), "anti", q, 0)
    BY <1>1, <1>2, <1>6, LaterTail
  <2> QED
    BY <1>2, <1>3, <2>1, <2>2
<1>7. ASSUME 1 \in OutOf(q, c) PROVE Followed(q, c, 0)'
  <2>1. Followed(q, c, 1)
    BY <1>7 DEF FollowedAt
  <2>2. ASSUME Later(link[p], "anti", q, 1) PROVE Later(Tail(link[p]), "anti", q, 0)
    <3>1. Later(Tail(link[p]), "anti", q, 1 - 1)
      BY <1>2, <2>2, LaterTail
    <3> QED
      BY <3>1
  <2> QED
    BY <1>2, <1>3, <2>1, <2>2
<1> QED
  BY <1>5, <1>6, <1>7

\* A step that does not concern the query at a CLP keeps it followed there.
LEMMA FollowedStays ==
  ASSUME Typed, NEW q \in Queries, NEW c \in Clps, FollowedAt(q, c),
         NEW take, NEW sent, Moved(link, link', take, sent), FollowedSame(q, c, take, sent)
  PROVE  FollowedAt(q, c)'
<1>1. PICK p \in Neighbours : p = <<Up(q, c), c>>
  BY UpFacts
<1>2. link[p] \in Seq(Messages)
  BY DEF Typed, TypedState
<1>3. /\ \A k : Followed(q, c, k) <=> Later(link[p], "anti", q, k) \/ Remembers(q, c)
      /\ \A k : Followed(q, c, k)' <=> Later(link'[p], "anti", q, k) \/ Remembers(q, c)'
  BY <1>1 DEF Followed
<1>4. OutOf(q, c) = Pos(link[p], "query", q) /\ OutOf(q, c)' = Pos(link'[p], "query", q)
  BY <1>1 DEF OutOf
<1>5. CASE p \in take
  <2>1. Remembers(q, c) => Remembers(q, c)'
    BY <1>1, <1>5 DEF FollowedSame, Moved
  <2>2. /\ \A k \in OutOf(q, c)' : Followed(q, c, k)'
        /\ NotedAt(q, c) /\ ~Is(Head(link[<<Up(q, c), c>>]), "anti", q) => Followed(q, c, 0)'
    BY <1>1, <1>5, <2>1, FollowedTail
  <2> QED
    BY <1>1, <1>5, <2>2 DEF FollowedAt, FollowedSame
<1>6. CASE p \in DOMAIN sent
  <2>1. link'[p] = Append(link[p], sent[p]) /\ sent[p] \in Messages
    BY <1>6 DEF Moved
  <2>2. ASSUME NEW k \in 0 .. Len(link[p]), Followed(q, c, k) PROVE Followed(q, c, k)'
    <3>1. Later(link[p], "anti", q, k) => Later(Append(link[p], sent[p]), "anti", q, k)
      BY <1>2, <2>1, LaterAppend
    <3>2. Is(sent[p], "anti", q) => Later(Append(link[p], sent[p]), "anti", q, k)
      BY <1>2, <2>1, LaterAppend
    <3>3. Remembers(q, c) => Remembers(q, c)' \/ Is(sent[p], "anti", q)
      BY <1>1 DEF FollowedSame
    <3> QED
      BY <1>3, <2>1, <2>2, <3>1, <3>2, <3>3
  <2>3. Len(link[p]) \in Nat /\ Pos(link[p], "query", q) \subseteq 1 .. Len(link[p])
    BY <1>2, <2>1, PosAppend
  <2>4. ASSUME NEW k \in OutOf(q, c)' PROVE Followed(q, c, k)'
    <3>1. Pos(Append(link[p], sent[p]), "query", q)
          = Pos(link[p], "query", q) \union (IF Is(sent[p], "query", q) THEN {Len(link[p]) + 1} ELSE {})
      BY <1>2, <2>1, PosAppend
    <3>2. k \in Pos(link[p], "query", q) \/ Is(sent[p], "query", q)
      BY <1>4, <2>1, <3>1
    <3>3. CASE k \in Pos(link[p], "query", q)
      <4>1. k \in 0 .. Len(link[p]) /\ Followed(q, c, k)
        BY <1>4, <2>3, <3>3 DEF FollowedAt
      <4> QED
        BY <2>2, <4>1
    <3>4. CASE Is(sent[p], "query", q)
      <4>1. Remembers(q, c)'
        BY <1>1, <1>6, <3>4 DEF FollowedSame
      <4> QED
        BY <1>3, <4>1
    <3> QED
      BY <3>2, <3>3, <3>4
  <2>5. NotedAt(q, c)' => Followed(q, c, 0)'
    <3>1. NotedAt(q, c)' => Followed(q, c, 0)
      BY DEF FollowedAt, FollowedSame
    <3>2. 0 \in 0 .. Len(link[p])
      BY <2>3
    <3> QED
      BY <2>2, <3>1, <3>2
  <2> QED
    BY <2>4, <2>5 DEF FollowedAt
<1>7. CASE p \notin take /\ p \notin DOMAIN sent
  <2>1. link'[p] = link[p]
    BY <1>7 DEF Moved
  <2>2. Remembers(q, c) => Remembers(q, c)'
    BY <1>1, <1>7 DEF FollowedSame
  <2>3. NotedAt(q, c)' => NotedAt(q, c)
    BY DEF FollowedSame
  <2>4. \A k : Followed(q, c, k) => Followed(q, c, k)'
    BY <1>3, <2>1, <2>2
  <2>5. OutOf(q, c)' = OutOf(q, c)
    BY <1>4, <2>1
  <2> QED
    BY <2>3, <2>4, <2>5 DEF FollowedAt
<1> QED
  BY <1>5, <1>6, <1>7

\* A step that takes and sends neither queries nor anti-messages, and changes no note.
LEMMA FollowedUntouched ==
  ASSUME Typed, AllFollowed, NEW take, NEW sent, Moved(link, link', take, sent),
         \A p \in take : p[2] \in Clps => Head(link[p]).kind = "update",
         \A p \in DOMAIN sent : sent[p].kind = "update",
         noted' = noted, cancelled' = cancelled, misled \subseteq misled'
  PROVE  AllFollowed'
<1> SUFFICES ASSUME NEW q \in Queries, q \notin misled', NEW c \in Clps PROVE FollowedAt(q, c)'
  BY DEF AllFollowed
<1>1. FollowedAt(q, c)
  BY DEF AllFollowed
<1>2. Remembers(q, c)' <=> Remembers(q, c)
  BY DEF Remembers
<1>3. NotedAt(q, c)' <=> NotedAt(q, c)
  BY DEF NotedAt
<1>4. FollowedSame(q, c, take, sent)
  BY <1>2, <1>3 DEF FollowedSame, Is
<1> QED
  BY <1>1, <1>4, FollowedStays

\* What a CLP that passes a query on has noted then.
LEMMA VisitNotes ==
  ASSUME Typed, NEW pair \in IntoClp, NEW q \in Queries, NEW away, NEW sent, Visited(pair, q, away, sent)
  PROVE  /\ \A d \in Clps \ {pair[2]} : noted'[d] = noted[d]
         /\ \A p \in AllPorts :
              /\ ToSet(noted[pair[2]][p]) \subseteq ToSet(noted'[pair[2]][p])
              /\ \A e \in ToSet(noted'[pair[2]][p]) : e \in ToSet(noted[pair[2]][p]) \/ e.query = q
         /\ \A p \in away : \E e \in ToSet(noted'[pair[2]][p]) : e.query = q /\ ~e.blocked
<1> DEFINE c == pair[2]
<1>1. c \in Clps /\ away \subseteq ClpPorts(c) \ {UpPort(q, c)}
  BY ReceiverPort DEF Visited, Passed
<1>2. PICK blocked \in [AllPorts -> BOOLEAN] :
        /\ \A p \in ClpPorts(c) \ {UpPort(q, c)} : blocked[p] = (p \notin away)
        /\ noted' = [noted EXCEPT ![c] = [p \in AllPorts |->
                      IF p \in (ClpPorts(c) \union {"HERE"}) \ {UpPort(q, c)}
                      THEN Append(@[p], [query |-> q, blocked |-> blocked[p]])
                      ELSE @[p]]]
  BY DEF Visited
<1>3. \A d \in Clps \ {c} : noted'[d] = noted[d]
  BY <1>1, <1>2 DEF Typed, TypedState
<1>4. ASSUME NEW p \in AllPorts
      PROVE  /\ ToSet(noted[c][p]) \subseteq ToSet(noted'[c][p])
             /\ \A e \in ToSet(noted'[c][p]) : e \in ToSet(noted[c][p]) \/ e.query = q
             /\ p \in (ClpPorts(c) \union {"HERE"}) \ {UpPort(q, c)} =>
                  [query |-> q, blocked |-> blocked[p]] \in ToSet(noted'[c][p])
  <2>1. noted[c][p] \in Seq(Infos)
    BY <1>1 DEF Typed, TypedState
  <2>2. [query |-> q, blocked |-> blocked[p]] \in Infos
    BY DEF Infos
  <2>3. noted'[c][p] = IF p \in (ClpPorts(c) \union {"HERE"}) \ {UpPort(q, c)}
                       THEN Append(noted[c][p], [query |-> q, blocked |-> blocked[p]])
                       ELSE noted[c][p]
    BY <1>1, <1>2 DEF Typed, TypedState
  <2>4. ToSet(Append(noted[c][p], [query |-> q, blocked |-> blocked[p]]))
          = ToSet(noted[c][p]) \union {[query |-> q, blocked |-> blocked[p]]}
    BY <2>1, <2>2, AppendFacts
  <2> QED
    BY <2>3, <2>4
<1>5. ASSUME NEW p \in away PROVE \E e \in ToSet(noted'[c][p]) : e.query = q /\ ~e.blocked
  <2>1. p \in ClpPorts(c) \ {UpPort(q, c)} /\ p \in AllPorts
    BY <1>1 DEF ClpPorts, PortsOf, AllPorts, Ports
  <2>2. blocked[p] = FALSE
    BY <1>2, <1>5, <2>1
  <2>3. [query |-> q, blocked |-> blocked[p]] \in ToSet(noted'[c][p])
    BY <1>4, <2>1
  <2>4. [query |-> q, blocked |-> blocked[p]].query = q /\ ~[query |-> q, blocked |-> blocked[p]].blocked
    BY <2>2
  <2> QED
    BY <2>3, <2>4
<1> QED
  BY <1>3, <1>4, <1>5

\* A message that a CLP sends through a port away from the agent, and the CLP it goes to.
LEMMA SentDown ==
  ASSUME NEW q \in Queries, NEW h \in Clps, NEW away \in SUBSET (ClpPorts(h) \ {UpPort(q, h)}),
         NEW c \in Clps, <<Up(q, c), c>> \in {<<h, RankOf(h, p)>> : p \in away}
  PROVE  Up(q, c) = h /\ PortTo(h, c) \in away
<1>1. PICK p \in away : <<Up(q, c), c>> = <<h, RankOf(h, p)>>
  OBVIOUS
<1>2. PortTo(h, RankOf(h, p)) = p
  BY DownPort
<1> QED
  BY <1>1, <1>2

\* A query on its way out of its agent.
LEMMA FollowedAsk ==
  ASSUME Typed, AllFollowed, NEW q0 \in Queries, Ask(q0)
  PROVE  AllFollowed'
<1> SUFFICES ASSUME NEW q \in Queries, q \notin misled', NEW c \in Clps PROVE FollowedAt(q, c)'
  BY DEF AllFollowed
<1>1. misled' = misled /\ noted' = noted /\ cancelled' = cancelled /\ q0 \notin asked
  BY DEF Ask, clpVars
<1>2. FollowedAt(q, c)
  BY <1>1 DEF AllFollowed
<1>3. PICK sent : sent = [p \in {ToParent(q0)} |-> Query(q0, {})]
  OBVIOUS
<1>4. Moved(link, link', {}, sent) /\ ToParent(q0) \in Neighbours
  BY <1>3, TypedAsk
<1>5. Remembers(q, c)' <=> Remembers(q, c)
  BY <1>1 DEF Remembers
<1>6. NotedAt(q, c)' <=> NotedAt(q, c)
  BY <1>1 DEF NotedAt
<1>7. ASSUME <<Up(q, c), c>> \in DOMAIN sent, Is(sent[<<Up(q, c), c>>], "query", q)
      PROVE  Remembers(q, c)'
  <2>1. <<Up(q, c), c>> = ToParent(q0) /\ Is(Query(q0, {}), "query", q)
    BY <1>3, <1>7
  <2>2. q = q0 /\ Up(q, c) = From[q0]
    BY <2>1 DEF Is, Query, ToParent
  <2>3. q \notin cancelled' /\ Up(q, c) \notin Clps
    BY <1>1, <2>2, AgentsAlp DEF Typed, Known
  <2> QED
    BY <2>3 DEF Remembers
<1>8. FollowedSame(q, c, {}, sent)
  BY <1>5, <1>6, <1>7 DEF FollowedSame
<1> QED
  BY <1>2, <1>4, <1>8, FollowedStays

\* An anti-message on its way out of the agent.
LEMMA FollowedCancel ==
  ASSUME Typed, AllFollowed, NEW q0 \in Queries, Cancel(q0)
  PROVE  AllFollowed'
<1> SUFFICES ASSUME NEW q \in Queries, q \notin misled', NEW c \in Clps PROVE FollowedAt(q, c)'
  BY DEF AllFollowed
<1>1. misled' = misled /\ noted' = noted /\ cancelled' = cancelled \union {q0}
  BY DEF Cancel, clpVars
<1>2. FollowedAt(q, c)
  BY <1>1 DEF AllFollowed
<1>3. PICK sent : sent = [p \in {ToParent(q0)} |-> Anti(q0)]
  OBVIOUS
<1>4. Moved(link, link', {}, sent) /\ ToParent(q0) \in Neighbours
  BY <1>3, TypedCancel
<1>5. \A p \in DOMAIN sent : sent[p].kind = "anti" /\ sent[p].query = q0 /\ p = ToParent(q0)
  BY <1>3, MessageKinds
<1>6. ASSUME Remembers(q, c), ~Remembers(q, c)'
      PROVE  <<Up(q, c), c>> \in DOMAIN sent /\ Is(sent[<<Up(q, c), c>>], "anti", q)
  <2>1. Up(q, c) \notin Clps /\ q = q0
    BY <1>1, <1>6 DEF Remembers
  <2>2. c = AlpToClp[From[q]] /\ Up(q, c) = From[q]
    BY <2>1, UpFacts
  <2>3. <<Up(q, c), c>> = ToParent(q0)
    BY <2>1, <2>2 DEF ToParent
  <2> QED
    BY <1>3, <1>5, <2>1, <2>3 DEF Is
<1>7. NotedAt(q, c)' <=> NotedAt(q, c)
  BY <1>1 DEF NotedAt
<1>8. FollowedSame(q, c, {}, sent)
  BY <1>5, <1>6, <1>7 DEF FollowedSame, Is
<1> QED
  BY <1>2, <1>4, <1>8, FollowedStays

\* A query that goes on from a CLP: the CLP remembers it where it sends it.
LEMMA FollowedVisit ==
  ASSUME Typed, Once, AllFollowed, NEW pair \in IntoClp, FirstVisit(pair[1], pair[2])
  PROVE  AllFollowed'
<1>1. PICK q0 \in Queries : \E away, sent : Visited(pair, q0, away, sent)
  BY VisitEffect
<1>2. PICK away, sent : Visited(pair, q0, away, sent)
  BY <1>1
<1> DEFINE x == pair[1]
           h == pair[2]
<1>3. /\ q0 \notin DOMAIN tracker[h]
      /\ link[pair] # <<>> /\ Is(Head(link[pair]), "query", q0)
      /\ away \in SUBSET (ClpPorts(h) \ {UpPort(q0, h)})
      /\ Moved(link, link', {pair}, sent)
      /\ \A p \in DOMAIN sent : Is(sent[p], "query", q0)
      /\ DOMAIN sent = IF away = {} THEN {<<h, Up(q0, h)>>} ELSE {<<h, RankOf(h, p)>> : p \in away}
  BY <1>2 DEF Visited, Passed
<1>4. pair \in Neighbours /\ h \in Clps /\ pair = <<x, h>> /\ x # h
  BY ReceiverPort, NeighbourKinds
<1>5. x = Up(q0, h)
  BY <1>3, VisitSender
<1>6. cancelled' = cancelled /\ misled' = misled
  BY DEF FirstVisit, agentVars
<1>7. /\ \A d \in Clps \ {h} : noted'[d] = noted[d]
      /\ \A p \in AllPorts :
           /\ ToSet(noted[h][p]) \subseteq ToSet(noted'[h][p])
           /\ \A e \in ToSet(noted'[h][p]) : e \in ToSet(noted[h][p]) \/ e.query = q0
      /\ \A p \in away : \E e \in ToSet(noted'[h][p]) : e.query = q0 /\ ~e.blocked
  BY <1>2, VisitNotes
<1> SUFFICES ASSUME NEW q \in Queries, q \notin misled', NEW c \in Clps PROVE FollowedAt(q, c)'
  BY DEF AllFollowed
<1>8. FollowedAt(q, c)
  BY <1>6 DEF AllFollowed
<1>9. Remembers(q, c) => Remembers(q, c)'
  <2>1. CASE Up(q, c) \in Clps
    <3>1. PortTo(Up(q, c), c) \in AllPorts
      BY <2>1, UpFacts, PortToNeighbour, PortRank DEF AllPorts
    <3>2. ToSet(noted[Up(q, c)][PortTo(Up(q, c), c)]) \subseteq ToSet(noted'[Up(q, c)][PortTo(Up(q, c), c)])
      BY <1>7, <2>1, <3>1
    <3> QED
      BY <2>1, <3>2 DEF Remembers
  <2>2. CASE Up(q, c) \notin Clps
    BY <1>6, <2>2 DEF Remembers
  <2> QED
    BY <2>1, <2>2
<1>10. ASSUME NEW p \in DOMAIN sent, p = <<Up(q, c), c>>, q = q0
       PROVE  Remembers(q, c)'
  <2>1. CASE away = {}
    <3>1. Up(q0, c) = h /\ c = Up(q0, h)
      BY <1>3, <1>10, <2>1
    <3>2. <<h, c>> \in Neighbours
      BY <1>4, <3>1, UpFacts
    <3>3. c = Up(q0, h) <=> h # Up(q0, c)
      BY <1>4, <3>2, UpOrDown
    <3> QED
      BY <3>1, <3>3
  <2>2. CASE away # {}
    <3>1. <<Up(q0, c), c>> \in {<<h, RankOf(h, o)>> : o \in away}
      BY <1>3, <1>10, <2>2
    <3>2. Up(q0, c) = h /\ PortTo(h, c) \in away
      BY <1>3, <1>4, <3>1, SentDown
    <3> QED
      BY <1>4, <1>7, <1>10, <3>2 DEF Remembers
  <2> QED
    BY <2>1, <2>2
<1>11. CASE q = q0 /\ c = h
  <2>1. pair = <<Up(q, c), c>>
    BY <1>4, <1>5, <1>11
  <2>2. 1 \in OutOf(q, c)
    <3>1. 1 \in Pos(link[pair], "query", q0)
      BY <1>3, <1>4, HeadIsThere DEF Typed, TypedState
    <3> QED
      BY <1>11, <2>1, <3>1 DEF OutOf
  <2>3. PICK take : take = {pair}
    OBVIOUS
  <2>4. (\A k \in OutOf(q, c)' : Followed(q, c, k)') /\ Followed(q, c, 0)'
    BY <1>3, <1>8, <1>9, <2>1, <2>2, <2>3, FollowedTail
  <2> QED
    BY <2>4 DEF FollowedAt
<1>12. CASE q # q0 \/ c # h
  <2>1. <<Up(q, c), c>> \in {pair} => /\ ~Is(Head(link[<<Up(q, c), c>>]), "query", q)
                                      /\ ~Is(Head(link[<<Up(q, c), c>>]), "anti", q)
    <3> SUFFICES ASSUME <<Up(q, c), c>> = pair
                 PROVE  ~Is(Head(link[pair]), "query", q) /\ ~Is(Head(link[pair]), "anti", q)
      BY Zenon
    <3>1. c = h /\ q # q0
      BY <1>4, <1>12
    <3> QED
      BY <1>3, <3>1 DEF Is
  <2>2. <<Up(q, c), c>> \in DOMAIN sent /\ Is(sent[<<Up(q, c), c>>], "query", q) => Remembers(q, c)'
    BY <1>3, <1>10 DEF Is
  <2>3. NotedAt(q, c)' => NotedAt(q, c)
    <3> SUFFICES ASSUME NEW p \in AllPorts, NEW e \in ToSet(noted'[c][p]), e.query = q
                 PROVE  NotedAt(q, c)
      BY DEF NotedAt
    <3>1. e \in ToSet(noted[c][p])
      BY <1>7, <1>12
    <3> QED
      BY <3>1 DEF NotedAt
  <2>4. FollowedSame(q, c, {pair}, sent)
    BY <1>9, <2>1, <2>2, <2>3 DEF FollowedSame
  <2> QED
    BY <1>3, <1>8, <2>4, FollowedStays
<1> QED
  BY <1>11, <1>12

\* A reply goes the other way.
LEMMA FollowedReply ==
  ASSUME Typed, Once, AllFollowed, NEW pair \in IntoClp, Reply(pair[1], pair[2])
  PROVE  AllFollowed'
<1>1. PICK q0 \in Queries : \E sent : Replied(pair, q0, sent)
  BY ReplyEffect
<1>2. PICK sent : Replied(pair, q0, sent)
  BY <1>1
<1> DEFINE x == pair[1]
           h == pair[2]
<1>3. /\ q0 \in DOMAIN tracker[h]
      /\ link[pair] # <<>> /\ Is(Head(link[pair]), "query", q0)
      /\ Moved(link, link', {pair}, sent)
      /\ \A p \in DOMAIN sent : Is(sent[p], "query", q0) /\ p = <<h, Up(q0, h)>>
  BY <1>2 DEF Replied, Passed
<1>4. pair \in Neighbours /\ h \in Clps /\ pair = <<x, h>> /\ x # h
  BY ReceiverPort, NeighbourKinds
<1>5. x \in Clps /\ h = Up(q0, x)
  BY <1>3, ReplySender
<1>6. x # Up(q0, h)
  BY <1>4, <1>5, UpOrDown
<1>7. cancelled' = cancelled /\ misled' = misled /\ noted' = noted
  BY DEF Reply, agentVars
<1> SUFFICES ASSUME NEW q \in Queries, q \notin misled', NEW c \in Clps PROVE FollowedAt(q, c)'
  BY DEF AllFollowed
<1>8. FollowedAt(q, c)
  BY <1>7 DEF AllFollowed
<1>9. Remembers(q, c)' <=> Remembers(q, c)
  BY <1>7 DEF Remembers
<1>10. NotedAt(q, c)' <=> NotedAt(q, c)
  BY <1>7 DEF NotedAt
<1>11. <<Up(q, c), c>> \in {pair} => /\ ~Is(Head(link[<<Up(q, c), c>>]), "query", q)
                                     /\ ~Is(Head(link[<<Up(q, c), c>>]), "anti", q)
  <2> SUFFICES ASSUME <<Up(q, c), c>> = pair
               PROVE  ~Is(Head(link[pair]), "query", q) /\ ~Is(Head(link[pair]), "anti", q)
    BY Zenon
  <2>1. c = h /\ Up(q, c) = x
    BY <1>4
  <2>2. q # q0
    BY <1>6, <2>1
  <2> QED
    BY <1>3, <2>2 DEF Is
<1>12. ~(<<Up(q, c), c>> \in DOMAIN sent /\ Is(sent[<<Up(q, c), c>>], "query", q))
  <2> SUFFICES ASSUME <<Up(q, c), c>> \in DOMAIN sent, Is(sent[<<Up(q, c), c>>], "query", q)
               PROVE  FALSE
    OBVIOUS
  <2>1. q = q0 /\ Up(q0, c) = h /\ c = Up(q0, h)
    BY <1>3 DEF Is
  <2>2. <<h, c>> \in Neighbours
    BY <1>4, <2>1, UpFacts
  <2>3. c = Up(q0, h) <=> h # Up(q0, c)
    BY <1>4, <2>2, UpOrDown
  <2> QED
    BY <2>1, <2>3
<1>13. FollowedSame(q, c, {pair}, sent)
  BY <1>9, <1>10, <1>11, <1>12 DEF FollowedSame
<1> QED
  BY <1>3, <1>8, <1>13, FollowedStays

\* An anti-message: the CLP forgets the query, and sends one where it had sent the query.
LEMMA FollowedFollow ==
  ASSUME Typed, AllFollowed, NEW pair \in IntoClp, Follow(pair[1], pair[2])
  PROVE  AllFollowed'
<1>1. PICK q0 \in Queries : \E onward, sent : Forgotten(pair, q0, onward, sent)
  BY FollowEffect
<1>2. PICK onward, sent : Forgotten(pair, q0, onward, sent)
  BY <1>1
<1> DEFINE x == pair[1]
           h == pair[2]
<1>3. /\ link[pair] # <<>> /\ Is(Head(link[pair]), "anti", q0)
      /\ pair[1] = Up(q0, h)
      /\ Moved(link, link', {pair}, sent)
      /\ DOMAIN sent = {<<h, RankOf(h, p)>> : p \in onward}
      /\ \A p \in DOMAIN sent : sent[p] = Anti(q0)
      /\ \A d \in Clps \ {h} : noted'[d] = noted[d]
      /\ \A p \in AllPorts :
           /\ ToSet(noted'[h][p]) \subseteq ToSet(noted[h][p])
           /\ \A e \in ToSet(noted[h][p]) : e.query # q0 => e \in ToSet(noted'[h][p])
           /\ \A e \in ToSet(noted'[h][p]) : e.query # q0
      /\ q0 \notin misled' =>
           \A p \in ClpPorts(h) \ {UpPort(q0, h)} :
             (\E e \in ToSet(noted[h][p]) : e.query = q0 /\ ~e.blocked) => p \in onward
  BY <1>2 DEF Forgotten
<1>4. pair \in Neighbours /\ h \in Clps /\ pair = <<x, h>> /\ x # h
  BY ReceiverPort, NeighbourKinds
<1>5. \A p \in DOMAIN sent : Is(sent[p], "anti", q0) /\ ~Is(sent[p], "query", q0)
  BY <1>3, MessageKinds DEF Is
<1>6. cancelled' = cancelled /\ misled \subseteq misled'
  BY DEF Follow, agentVars
<1> SUFFICES ASSUME NEW q \in Queries, q \notin misled', NEW c \in Clps PROVE FollowedAt(q, c)'
  BY DEF AllFollowed
<1>7. FollowedAt(q, c)
  BY <1>6 DEF AllFollowed
<1>8. ASSUME Remembers(q, c), ~(q = q0 /\ Up(q, c) = h) PROVE Remembers(q, c)'
  <2>1. CASE Up(q, c) \in Clps
    <3>1. PICK e \in ToSet(noted[Up(q, c)][PortTo(Up(q, c), c)]) : e.query = q /\ ~e.blocked
      BY <1>8, <2>1 DEF Remembers
    <3>2. PortTo(Up(q, c), c) \in AllPorts
      BY <2>1, UpFacts, PortToNeighbour, PortRank DEF AllPorts
    <3>3. e \in ToSet(noted'[Up(q, c)][PortTo(Up(q, c), c)])
      BY <1>3, <1>8, <2>1, <3>1, <3>2
    <3> QED
      BY <2>1, <3>1, <3>3 DEF Remembers
  <2>2. CASE Up(q, c) \notin Clps
    BY <1>6, <1>8, <2>2 DEF Remembers
  <2> QED
    BY <2>1, <2>2
<1>9. ASSUME Remembers(q, c), q = q0, Up(q, c) = h
      PROVE  <<h, c>> \in DOMAIN sent
  <2>1. <<h, c>> \in Neighbours /\ <<c, h>> \in Neighbours
    BY <1>9, UpFacts
  <2>2. PortTo(h, c) \in PortsOf(h) /\ RankOf(h, PortTo(h, c)) = c
    BY <1>4, <2>1, PortToNeighbour
  <2>3. PortTo(h, c) \in ClpPorts(h)
    BY <2>2 DEF ClpPorts
  <2>4. PortTo(h, c) # UpPort(q0, h)
    <3>1. c = Up(q0, h) <=> h # Up(q0, c)
      BY <1>4, <2>1, UpOrDown
    <3> QED
      BY <1>9, <2>2, <3>1 DEF Up
  <2>5. \E e \in ToSet(noted[h][PortTo(h, c)]) : e.query = q0 /\ ~e.blocked
    BY <1>4, <1>9 DEF Remembers
  <2>6. PortTo(h, c) \in onward
    BY <1>3, <1>9, <2>3, <2>4, <2>5
  <2> QED
    BY <1>3, <2>2, <2>6
<1>10. CASE q = q0 /\ c = h
  <2>1. pair = <<Up(q, c), c>> /\ ~(Up(q, c) = h)
    BY <1>3, <1>4, <1>10
  <2>2. ~NotedAt(q, c)'
    BY <1>3, <1>10 DEF NotedAt
  <2>3. PICK take : take = {pair}
    OBVIOUS
  <2>4. \A k \in OutOf(q, c)' : Followed(q, c, k)'
    BY <1>3, <1>7, <1>8, <2>1, <2>3, FollowedTail
  <2> QED
    BY <2>2, <2>4 DEF FollowedAt
<1>11. CASE q # q0 \/ c # h
  <2>1. <<Up(q, c), c>> \in {pair} => /\ ~Is(Head(link[<<Up(q, c), c>>]), "query", q)
                                      /\ ~Is(Head(link[<<Up(q, c), c>>]), "anti", q)
    <3> SUFFICES ASSUME <<Up(q, c), c>> = pair
                 PROVE  ~Is(Head(link[pair]), "query", q) /\ ~Is(Head(link[pair]), "anti", q)
      BY Zenon
    <3>1. c = h /\ q # q0
      BY <1>4, <1>11
    <3> QED
      BY <1>3, <3>1 DEF Is
  <2>2. ~(<<Up(q, c), c>> \in DOMAIN sent /\ Is(sent[<<Up(q, c), c>>], "query", q))
    BY <1>5 DEF Is
  <2>3. NotedAt(q, c)' => NotedAt(q, c)
    <3> SUFFICES ASSUME NEW p \in AllPorts, NEW e \in ToSet(noted'[c][p]), e.query = q
                 PROVE  NotedAt(q, c)
      BY DEF NotedAt
    <3>1. e \in ToSet(noted[c][p])
      BY <1>3
    <3> QED
      BY <3>1 DEF NotedAt
  <2>4. Remembers(q, c) => \/ Remembers(q, c)'
                           \/ <<Up(q, c), c>> \in DOMAIN sent /\ Is(sent[<<Up(q, c), c>>], "anti", q)
    BY <1>5, <1>8, <1>9
  <2>5. FollowedSame(q, c, {pair}, sent)
    BY <2>1, <2>2, <2>3, <2>4 DEF FollowedSame
  <2> QED
    BY <1>3, <1>7, <2>5, FollowedStays
<1> QED
  BY <1>10, <1>11

\* Every step keeps what is noted followed.
LEMMA FollowedNext ==
  ASSUME Typed, Once, AllFollowed, [Next]_vars
  PROVE  AllFollowed'
<1>1. ASSUME NEW v \in Variables, NEW p \in Values[v], Change(v, p) PROVE AllFollowed'
  <2>1. PICK sent : Updated({}, sent)
    BY <1>1, ChangeEffect
  <2>2. Moved(link, link', {}, sent) /\ \A pr \in DOMAIN sent : sent[pr].kind = "update"
    BY <2>1, MessageKinds DEF Updated, Messages
  <2>3. noted' = noted /\ cancelled' = cancelled /\ misled' = misled
    BY <1>1 DEF Change, agentVars
  <2> QED
    BY <2>2, <2>3, FollowedUntouched
<1>2. ASSUME NEW r \in Alps, AlpReceive(r) PROVE AllFollowed'
  <2>1. PICK take, sent : take = {<<AlpToClp[r], r>>} /\ sent = <<>>
    OBVIOUS
  <2>2. Moved(link, link', take, sent)
    BY <1>2, <2>1, TypedAlpReceive
  <2>3. \A p \in take : p[2] \notin Clps
    BY <2>1, ClpTreeAssumption
  <2>4. DOMAIN sent = {}
    BY <2>1
  <2>5. noted' = noted /\ cancelled' = cancelled /\ misled' = misled
    BY <1>2 DEF AlpReceive, clpVars
  <2> QED
    BY <2>2, <2>3, <2>4, <2>5, FollowedUntouched
<1>3. ASSUME NEW pair \in IntoClp, Learn(pair[1], pair[2]) PROVE AllFollowed'
  <2>1. PICK sent : Updated({pair}, sent)
    BY <1>3, LearnEffect
  <2>2. PICK take : take = {pair}
    OBVIOUS
  <2>3. Moved(link, link', take, sent) /\ \A pr \in DOMAIN sent : sent[pr].kind = "update"
    BY <2>1, <2>2, MessageKinds DEF Updated, Messages
  <2>4. \A p \in take : Head(link[p]).kind = "update"
    BY <2>1, <2>2, MessageKinds DEF Updated, Messages
  <2>5. noted' = noted /\ cancelled' = cancelled /\ misled' = misled
    BY <1>3 DEF Learn, agentVars
  <2> QED
    BY <2>3, <2>4, <2>5, FollowedUntouched
<1>4. ASSUME NEW pair \in IntoClp, ClpReceive(pair[1], pair[2]) PROVE AllFollowed'
  BY <1>3, <1>4, FollowedVisit, FollowedReply, FollowedFollow DEF ClpReceive
<1>5. CASE UNCHANGED vars
  BY <1>5 DEF vars, clpVars, agentVars, AllFollowed, FollowedAt, Followed, NotedAt, Remembers, OutOf
<1> QED
  BY <1>1, <1>2, <1>4, <1>5, FollowedAsk, FollowedCancel DEF Next, Receive

\* In the beginning nothing is noted.
LEMMA FollowedInit ==
  ASSUME Init
  PROVE  AllFollowed
<1> SUFFICES ASSUME NEW q \in Queries, NEW c \in Clps PROVE FollowedAt(q, c)
  BY DEF AllFollowed
<1>1. Len(<<>>) = 0 /\ ToSet(<<>>) = {}
  BY DEF ToSet
<1>2. \A p \in Neighbours : Pos(link[p], "query", q) = {}
  BY <1>1 DEF Init, Pos
<1>3. OutOf(q, c) = {}
  BY <1>2, UpFacts DEF OutOf
<1>4. ~NotedAt(q, c)
  BY <1>1 DEF Init, NotedAt
<1> QED
  BY <1>3, <1>4 DEF FollowedAt

\* The anti-message of a query finds every CLP where the query is noted: of two that
\* have it noted the one nearer to the agent has it noted as passed on towards the
\* other, so where no anti-message is left on its way the nearest of all would wait
\* for one from the agent, which has sent it.
THEOREM CancelledQueriesAreForgottenHolds == Spec => []CancelledQueriesAreForgotten
<1>1. Typed /\ AllFollowed => CancelledQueriesAreForgotten
  <2> SUFFICES ASSUME Typed, AllFollowed, NEW q \in cancelled \ misled,
                      \A pair \in Neighbours : Anti(q) \notin ToSet(link[pair]),
                      NEW c0 \in Clps, NotedAt(q, c0)
               PROVE  FALSE
    BY DEF CancelledQueriesAreForgotten, NotedAt
  <2> DEFINE A    == AlpToClp[From[q]]
             Near == {Distance(c, A) : c \in {d \in Clps : NotedAt(q, d)}}
  <2>1. q \in Queries
    BY DEF Typed, Known
  <2>2. Near \in SUBSET Nat /\ Near # {}
    <3>1. \A c \in Clps : Distance(c, A) \in Nat
      BY <2>1, AgentsAlp, ApartIsFinite
    <3> QED
      BY <3>1
  <2>3. PICK c \in Clps : NotedAt(q, c) /\ \A d \in Clps : NotedAt(q, d) => Distance(c, A) <= Distance(d, A)
    <3>1. Min(Near) \in Near /\ \A y \in Near : Min(Near) <= y
      <4> HIDE DEF Near
      <4> QED
        BY <2>2, MinOfSet
    <3> QED
      BY <3>1
  <2>4. PICK p \in Neighbours : p = <<Up(q, c), c>>
    BY <2>1, UpFacts
  <2>5. ~Later(link[p], "anti", q, 0)
    <3> SUFFICES ASSUME Later(link[p], "anti", q, 0) PROVE FALSE
      OBVIOUS
    <3>1. link[p] \in Seq(Messages)
      BY DEF Typed, TypedState
    <3>2. PICK m \in ToSet(link[p]) : Is(m, "anti", q)
      BY <3>1, PosMembers DEF Later
    <3>3. m \in Messages
      BY <3>1, <3>2, TailFacts
    <3>4. m = Anti(q)
      BY <3>2, <3>3, MessageKinds DEF Is
    <3> QED
      BY <3>2, <3>4
  <2>6. Remembers(q, c)
    BY <2>1, <2>3, <2>4, <2>5 DEF AllFollowed, FollowedAt, Followed
  <2>7. Up(q, c) \in Clps
    BY <2>6 DEF Remembers
  <2>8. NotedAt(q, Up(q, c))
    <3>1. PortTo(Up(q, c), c) \in AllPorts
      BY <2>1, <2>4, <2>7, PortToNeighbour, PortRank DEF AllPorts
    <3> QED
      BY <2>6, <2>7, <3>1 DEF Remembers, NotedAt
  <2> QED
    BY <2>1, <2>3, <2>7, <2>8, UpDistance
<1>2. Init => AllFollowed
  BY FollowedInit
<1>3. Typed /\ Once /\ AllFollowed /\ [Next]_vars => AllFollowed'
  BY FollowedNext
<1> QED
  BY <1>1, <1>2, <1>3, OnceHolds, PTL DEF Spec

-----------------------------------------------------------------------------
(* What an answer says is right, or a query that it is wrong about is      *)
(* rolled back.                                                            *)

\* An update for the port p of its sender.
IsNews(m, p) == m.kind = "update" /\ m.source = p

News(s, p) == \E k \in 1 .. Len(s) : IsNews(s[k], p)

\* The last update in s for port p, if there is one, tells r.
Tells(s, p, r) ==
  \A k \in 1 .. Len(s) :
    IsNews(s[k], p) /\ (\A j \in (k + 1) .. Len(s) : ~IsNews(s[j], p)) => s[k].range = r

\* The port of the receiver.
InPort(pair) == PortTo(pair[2], pair[1])

\* The range at HERE is that of the values.
OwnRange == \A c \in Clps : range[c]["HERE"] = RangeOf(Points(c, value))

\* An update is about a port other than the receiver's, and the last one is right.
UpdatesAreTrue ==
  \A pair \in ClpPairs :
    /\ \A m \in ToSet(link[pair]) :
         m.kind = "update" => m.source \in (ClpPorts(pair[1]) \union {"HERE"}) \ {PortTo(pair[1], pair[2])}
    /\ \A p \in AllPorts : Tells(link[pair], p, range[pair[1]][p])

\* A CLP behind a port is in the range of the port, unless an update is on its way or it
\* was left out.
Covered(pair, h) ==
  \/ News(link[pair], PortToward(pair[1], h))
  \/ <<pair[2], InPort(pair), h>> \in replaced
  \/ Within(range[pair[2]][InPort(pair)], range[pair[1]][PortToward(pair[1], h)])

RangesCover == \A pair \in ClpPairs : \A h \in Behind(pair[2], InPort(pair)) : Covered(pair, h)

Valid == asked \ (cancelled \union rolledBack \union lost \union crossed)

IsNoted(q, c, p, b) == [query |-> q, blocked |-> b] \in ToSet(noted[c][p])

\* A query is blocked where it has no business.
BlockedAreOutside ==
  \A q \in Valid, c \in Clps : \A p \in Ports :
    IsNoted(q, c, p, TRUE) => /\ ~Overlaps(range[c][p], Rectangle[q])
                              /\ ~Cross(range[c][p], Rectangle[q])

About(found, v) == {f \in found : f[1] = v}

\* What found says about v is right, and will be or else the query is rolled back.
Settled(q, v, found) ==
  \/ /\ \E b \in BOOLEAN : IsNoted(q, Home[v], "HERE", b)
     /\ About(found, v) = Now(q, v)
  \/ /\ About(found, v) = {}
     /\ \E d \in Clps \ {Home[v]} :
          /\ PortToward(d, Home[v]) # UpPort(q, d)
          /\ IsNoted(q, d, PortToward(d, Home[v]), TRUE)

\* What a CLP tells on.
Reported(q, c, found) ==
  \A v \in Variables : IF PortToward(c, Home[v]) = UpPort(q, c) THEN About(found, v) = {}
                                                              ELSE Settled(q, v, found)

\* What it keeps while it waits.
Gathered(q, c, e) ==
  \A v \in Variables :
    IF PortToward(c, Home[v]) \in e.outstanding \union {UpPort(q, c)}
    THEN About(e.found, v) = {} ELSE Settled(q, v, e.found)

Sound(q) ==
  /\ \A c \in Clps : \A e : q \in DOMAIN tracker[c] /\ e = tracker[c][q] => Gathered(q, c, e)
  /\ \A c \in Clps : \A m \in ToSet(link[<<c, Up(q, c)>>]) : Is(m, "query", q) => Reported(q, c, m.found)
  /\ \A S : S = answer[q] /\ S # NoAnswer => \A v \in Variables : Settled(q, v, S)

\* No answer comes to a query that was not asked.
AnsweredWereAsked == \A q \in Queries : answer[q] # NoAnswer => q \in asked

AllSound == \A q \in Valid : Sound(q)
SoundState == OwnRange /\ UpdatesAreTrue /\ RangesCover /\ BlockedAreOutside /\ AnsweredWereAsked /\ AllSound

-----------------------------------------------------------------------------
\* Ranges within ranges.
LEMMA WithinFacts ==
  /\ \A r \in Ranges \union {NoRange} : Within(r, r)
  /\ \A r, s, t \in Ranges \union {NoRange} : Within(r, s) /\ Within(s, t) => Within(r, t)
<1>1. \A r \in Ranges : r.min \in Pairs /\ r.max \in Pairs
  BY DEF Ranges
<1>2. \A p \in Pairs : Leq(p, p)
  BY DEF Leq, Pairs
<1>3. \A p, q, r \in Pairs : Leq(p, q) /\ Leq(q, r) => Leq(p, r)
  <2> SUFFICES ASSUME NEW p \in Pairs, NEW q \in Pairs, NEW r \in Pairs, Leq(p, q), Leq(q, r)
               PROVE  Leq(p, r)
    OBVIOUS
  <2>1. /\ p[1] \in Int /\ p[2] \in Int /\ q[1] \in Int /\ q[2] \in Int /\ r[1] \in Int /\ r[2] \in Int
    BY DEF Pairs
  <2> QED
    BY <2>1 DEF Leq
<1>4. \A r \in Ranges \union {NoRange} : r # NoRange => r \in Ranges
  OBVIOUS
<1>5. \A r \in Ranges \union {NoRange} : Within(r, r)
  BY <1>1, <1>2, <1>4 DEF Within
<1>6. ASSUME NEW r \in Ranges \union {NoRange}, NEW s \in Ranges \union {NoRange},
             NEW t \in Ranges \union {NoRange}, Within(r, s), Within(s, t), t # NoRange
      PROVE  r # NoRange /\ Leq(r.min, t.min) /\ Leq(t.max, r.max)
  <2>1. s # NoRange /\ Leq(s.min, t.min) /\ Leq(t.max, s.max)
    BY <1>6 DEF Within
  <2>2. r # NoRange /\ Leq(r.min, s.min) /\ Leq(s.max, r.max)
    BY <1>6, <2>1 DEF Within
  <2>3. /\ r.min \in Pairs /\ r.max \in Pairs /\ s.min \in Pairs /\ s.max \in Pairs
        /\ t.min \in Pairs /\ t.max \in Pairs
    BY <1>1, <1>4, <1>6, <2>1, <2>2
  <2> QED
    BY <1>3, <2>1, <2>2, <2>3
<1>7. \A r, s, t \in Ranges \union {NoRange} : Within(r, s) /\ Within(s, t) => Within(r, t)
  BY <1>6 DEF Within
<1> QED
  BY <1>5, <1>7

\* The range of more points is larger.
LEMMA RangeOfMore ==
  ASSUME NEW P \in SUBSET Pairs, IsFiniteSet(P), NEW Q \in SUBSET P
  PROVE  Within(RangeOf(P), RangeOf(Q))
<1>1. CASE Q = {}
  BY <1>1 DEF Within, RangeOf
<1>2. CASE Q # {}
  <2>1. IsFiniteSet(Q) /\ Q \in SUBSET Pairs /\ P # {}
    BY <1>2, FS_Subset
  <2>2. /\ RangeOf(P) \in Ranges /\ RangeOf(P) # NoRange
        /\ \A p \in Q : IsValueOverlapping(RangeOf(P), p)
    BY <2>1, RangeOfPoints
  <2> DEFINE Xs == {p[1] : p \in Q}
             Ys == {p[2] : p \in Q}
  <2>3. RangeOf(Q) = [min |-> <<Min(Xs), Min(Ys)>>, max |-> <<Max(Xs), Max(Ys)>>]
    BY <1>2 DEF RangeOf
  <2>4. Min(Xs) \in Xs /\ Max(Xs) \in Xs /\ Min(Ys) \in Ys /\ Max(Ys) \in Ys
    <3>1. IsFiniteSet(Xs) /\ IsFiniteSet(Ys)
      <4> DEFINE f == [p \in Q |-> p[1]]
                 g == [p \in Q |-> p[2]]
      <4>1. DOMAIN f = Q /\ DOMAIN g = Q /\ \A p \in Q : f[p] = p[1] /\ g[p] = p[2]
        OBVIOUS
      <4> HIDE DEF f, g
      <4>2. IsFiniteSet({f[x] : x \in DOMAIN f}) /\ IsFiniteSet({g[x] : x \in DOMAIN g})
        BY <2>1, <4>1, FiniteImage
      <4>3. {f[x] : x \in DOMAIN f} = Xs /\ {g[x] : x \in DOMAIN g} = Ys
        BY <4>1
      <4> QED
        BY <4>2, <4>3
    <3>2. Xs \in SUBSET Int /\ Ys \in SUBSET Int /\ Xs # {} /\ Ys # {}
      BY <1>2, <2>1 DEF Pairs
    <3> HIDE DEF Xs, Ys
    <3> QED
      BY <3>1, <3>2, FiniteSetOfInts
  <2>5. PICK a \in Q, b \in Q, c \in Q, d \in Q :
          a[1] = Min(Xs) /\ b[2] = Min(Ys) /\ c[1] = Max(Xs) /\ d[2] = Max(Ys)
    BY <2>4
  <2> HIDE DEF Xs, Ys
  <2>6. /\ RangeOf(Q).min[1] = a[1] /\ RangeOf(Q).min[2] = b[2]
        /\ RangeOf(Q).max[1] = c[1] /\ RangeOf(Q).max[2] = d[2]
    BY <2>3, <2>5
  <2>7. /\ RangeOf(P).min[1] <= a[1] /\ RangeOf(P).min[2] <= b[2]
        /\ c[1] <= RangeOf(P).max[1] /\ d[2] <= RangeOf(P).max[2]
    BY <2>2 DEF IsValueOverlapping, Leq
  <2> QED
    BY <2>2, <2>6, <2>7 DEF Within, Leq
<1> QED
  BY <1>1, <1>2

\* A range around a point of a rectangle overlaps or crosses it.
LEMMA OutsideOf ==
  ASSUME NEW r \in Ranges \union {NoRange}, NEW s \in Ranges, NEW p \in Pairs,
         Within(r, s), IsValueOverlapping(s, p),
         NEW q \in Queries, ~Overlaps(r, Rectangle[q]), ~Cross(r, Rectangle[q])
  PROVE  ~IsValueOverlapping(Rectangle[q], p)
<1> SUFFICES ASSUME IsValueOverlapping(Rectangle[q], p) PROVE FALSE
  OBVIOUS
<1> DEFINE t == Rectangle[q]
<1>1. s # NoRange
  BY DEF Ranges, NoRange, Pairs
<1>2. r \in Ranges /\ r # NoRange /\ Leq(r.min, s.min) /\ Leq(s.max, r.max)
  BY <1>1 DEF Within
<1>3. ~IsRangeOverlapping(r, t)
  BY <1>2 DEF Overlaps
<1>4. t.min \in Pairs /\ t.max \in Pairs /\ Leq(p, t.max) /\ Leq(t.min, p)
  BY RangeQueriesAssumption DEF IsPoint, Pairs, IsValueOverlapping
<1>5. r.min \in Pairs /\ r.max \in Pairs /\ s.min \in Pairs /\ s.max \in Pairs
  BY <1>2 DEF Ranges
<1>6. Leq(p, s.max) /\ Leq(s.min, p)
  BY DEF IsValueOverlapping
<1> HIDE DEF t
<1>7. \A i \in {1, 2} : r.min[i] <= t.max[i] /\ t.min[i] <= r.max[i]
  <2>1. \A x \in Pairs : x[1] \in Int /\ x[2] \in Int
    BY DEF Pairs
  <2>2. /\ r.min[1] <= t.max[1] /\ t.min[1] <= r.max[1]
        /\ r.min[2] <= t.max[2] /\ t.min[2] <= r.max[2]
    BY <1>2, <1>4, <1>5, <1>6, <2>1 DEF Leq
  <2> QED
    BY <2>2
<1>8. Cross(r, t)
  BY <1>2, <1>3, <1>7 DEF Cross
<1> QED
  BY <1>8 DEF t

-----------------------------------------------------------------------------
\* Of two neighbours, one is on the way from the other to a CLP.
LEMMA OneWay ==
  ASSUME NEW pair \in ClpPairs, NEW h \in Clps
  PROVE  /\ pair = <<pair[1], pair[2]>> /\ pair[1] \in Clps /\ pair[2] \in Clps /\ pair[1] # pair[2]
         /\ <<pair[2], pair[1]>> \in ClpPairs
         /\ h \in Behind(pair[2], InPort(pair)) <=> h # pair[2] /\ NextClp(pair[2], h) = pair[1]
         /\ h \in Behind(pair[2], InPort(pair)) <=> (h = pair[1] \/ NextClp(pair[1], h) # pair[2])
         /\ h \in Behind(pair[2], InPort(pair)) <=> PortToward(pair[1], h) # PortTo(pair[1], pair[2])
<1> DEFINE x == pair[1]
           y == pair[2]
<1>1. pair = <<x, y>> /\ x \in Clps /\ y \in Clps /\ pair \in Neighbours
  BY DEF ClpPairs
<1>2. x # y /\ <<y, x>> \in Neighbours
  BY <1>1, Adjacent
<1>3. /\ Distance(y, h) = Distance(x, h) + 1 \/ Distance(y, h) = Distance(x, h) - 1
      /\ Distance(y, h) = Distance(x, h) - 1 <=> x # h /\ y = NextClp(x, h)
      /\ Distance(x, h) = Distance(y, h) - 1 <=> y # h /\ x = NextClp(y, h)
  BY <1>1, <1>2, NeighbourDistance
<1>4. Distance(x, h) \in Nat /\ Distance(y, h) \in Nat
  BY <1>1, ApartIsFinite
<1>5. (y # h /\ x = NextClp(y, h)) <=> ~(x # h /\ y = NextClp(x, h))
  BY <1>3, <1>4
<1>6. ASSUME NEW a \in Clps, NEW b \in Clps, <<a, b>> \in Neighbours
      PROVE  PortToward(a, h) = PortTo(a, b) <=> a # h /\ b = NextClp(a, h)
  <2>1. PortTo(a, b) \in PortsOf(a) /\ RankOf(a, PortTo(a, b)) = b
    BY <1>6, PortToNeighbour
  <2>2. PortTo(a, b) # "HERE"
    BY <2>1 DEF PortsOf, Ports
  <2>3. CASE a = h
    BY <2>2, <2>3 DEF PortToward
  <2>4. CASE a # h
    <3>1. <<a, NextClp(a, h)>> \in Neighbours
      BY <2>4, NextIsNeighbour
    <3>2. RankOf(a, PortTo(a, NextClp(a, h))) = NextClp(a, h)
      BY <3>1, PortToNeighbour
    <3> QED
      BY <2>1, <2>4, <3>2 DEF PortToward
  <2> QED
    BY <2>3, <2>4
<1>7. h \in Behind(y, InPort(pair)) <=> h # y /\ NextClp(y, h) = x
  <2>1. PortToward(y, h) = PortTo(y, x) <=> y # h /\ x = NextClp(y, h)
    BY <1>1, <1>2, <1>6
  <2> QED
    BY <2>1 DEF Behind, InPort
<1>8. PortToward(x, h) = PortTo(x, y) <=> x # h /\ y = NextClp(x, h)
  BY <1>1, <1>6
<1>9. <<y, x>> \in ClpPairs
  BY <1>1, <1>2 DEF ClpPairs
<1> QED
  BY <1>1, <1>2, <1>5, <1>7, <1>8, <1>9

\* The port towards a CLP.
LEMMA TowardFacts ==
  ASSUME NEW c \in Clps, NEW h \in Clps
  PROVE  /\ PortToward(c, h) \in ClpPorts(c) \union {"HERE"} /\ PortToward(c, h) \in AllPorts
         /\ PortToward(c, h) = "HERE" <=> c = h
         /\ c # h => /\ <<NextClp(c, h), c>> \in ClpPairs /\ InPort(<<NextClp(c, h), c>>) = PortToward(c, h)
                     /\ PortToward(c, h) \in Ports
<1>1. CASE c = h
  BY <1>1 DEF PortToward, AllPorts
<1>2. CASE c # h
  <2>1. NextClp(c, h) \in Clps /\ <<c, NextClp(c, h)>> \in Neighbours
    BY <1>2, NextIsNeighbour
  <2>2. <<NextClp(c, h), c>> \in Neighbours
    BY <2>1, Adjacent
  <2>3. PortTo(c, NextClp(c, h)) \in PortsOf(c) /\ RankOf(c, PortTo(c, NextClp(c, h))) = NextClp(c, h)
    BY <2>1, PortToNeighbour
  <2>4. PortToward(c, h) = PortTo(c, NextClp(c, h))
    BY <1>2 DEF PortToward
  <2>5. PortToward(c, h) \in ClpPorts(c) /\ PortToward(c, h) \in Ports /\ PortToward(c, h) # "HERE"
    BY <2>1, <2>3, <2>4 DEF ClpPorts, PortsOf, Ports
  <2> QED
    BY <1>2, <2>1, <2>2, <2>4, <2>5 DEF ClpPairs, InPort, AllPorts
<1> QED
  BY <1>1, <1>2

-----------------------------------------------------------------------------
\* Updates in lists.
LEMMA NewsAppend ==
  ASSUME NEW T, NEW s \in Seq(T), NEW m \in T, NEW p, NEW r
  PROVE  /\ News(Append(s, m), p) <=> News(s, p) \/ IsNews(m, p)
         /\ IsNews(m, p) /\ m.range = r => Tells(Append(s, m), p, r)
         /\ ~IsNews(m, p) /\ Tells(s, p, r) => Tells(Append(s, m), p, r)
<1> DEFINE t == Append(s, m)
<1>1. PICK n \in Nat : n = Len(s)
  BY LenProperties
<1>2. /\ Len(t) = n + 1 /\ t[n + 1] = m
      /\ \A k \in 1 .. n : t[k] = s[k]
  BY <1>1, AppendProperties
<1> HIDE DEF t
<1>3. \A k \in 1 .. n + 1 : k \in 1 .. n \/ k = n + 1
  OBVIOUS
<1>4. n + 1 \in 1 .. n + 1 /\ \A k \in 1 .. n : k \in 1 .. n + 1
  OBVIOUS
<1>5. News(t, p) <=> News(s, p) \/ IsNews(m, p)
  <2>1. ASSUME News(t, p) PROVE News(s, p) \/ IsNews(m, p)
    <3>1. PICK k \in 1 .. n + 1 : IsNews(t[k], p)
      BY <1>2, <2>1 DEF News
    <3> QED
      BY <1>1, <1>2, <1>3, <3>1 DEF News
  <2>2. ASSUME News(s, p) PROVE News(t, p)
    <3>1. PICK k \in 1 .. n : IsNews(s[k], p)
      BY <1>1, <2>2 DEF News
    <3> QED
      BY <1>2, <1>4, <3>1 DEF News
  <2>3. ASSUME IsNews(m, p) PROVE News(t, p)
    BY <1>2, <1>4, <2>3 DEF News
  <2> QED
    BY <2>1, <2>2, <2>3
<1>6. ASSUME IsNews(m, p), m.range = r PROVE Tells(t, p, r)
  <2> SUFFICES ASSUME NEW k \in 1 .. n + 1, IsNews(t[k], p), \A j \in (k + 1) .. n + 1 : ~IsNews(t[j], p)
               PROVE  t[k].range = r
    BY <1>2 DEF Tells
  <2>1. CASE k = n + 1
    BY <1>2, <1>6, <2>1
  <2>2. CASE k \in 1 .. n
    <3>1. n + 1 \in (k + 1) .. n + 1
      BY <2>2
    <3> QED
      BY <1>2, <1>6, <3>1
  <2> QED
    BY <1>3, <2>1, <2>2
<1>7. ASSUME ~IsNews(m, p), Tells(s, p, r) PROVE Tells(t, p, r)
  <2> SUFFICES ASSUME NEW k \in 1 .. n + 1, IsNews(t[k], p), \A j \in (k + 1) .. n + 1 : ~IsNews(t[j], p)
               PROVE  t[k].range = r
    BY <1>2 DEF Tells
  <2>1. k \in 1 .. n /\ t[k] = s[k]
    BY <1>2, <1>3, <1>7
  <2>2. \A j \in (k + 1) .. n : ~IsNews(s[j], p)
    <3> SUFFICES ASSUME NEW j \in (k + 1) .. n PROVE ~IsNews(s[j], p)
      OBVIOUS
    <3>1. j \in 1 .. n /\ j \in (k + 1) .. n + 1
      BY <2>1
    <3> QED
      BY <1>2, <3>1
  <2>3. \A i \in 1 .. n :
          (IsNews(s[i], p) /\ \A j \in (i + 1) .. n : ~IsNews(s[j], p)) => s[i].range = r
    BY <1>1, <1>7 DEF Tells
  <2> QED
    BY <2>1, <2>2, <2>3
<1> QED
  BY <1>5, <1>6, <1>7 DEF t

\* And when the first message is taken.
LEMMA NewsTail ==
  ASSUME NEW T, NEW s \in Seq(T), s # <<>>, NEW p, NEW r
  PROVE  /\ Tells(s, p, r) => Tells(Tail(s), p, r)
         /\ ~IsNews(Head(s), p) => (News(s, p) <=> News(Tail(s), p))
         /\ IsNews(Head(s), p) /\ Tells(s, p, r) => News(Tail(s), p) \/ Head(s).range = r
<1> DEFINE t == Tail(s)
<1>1. PICK n \in Nat : n + 1 = Len(s)
  <2>1. Len(s) \in Nat /\ Len(s) # 0
    BY EmptySeq, LenProperties
  <2> QED
    BY <2>1
<1>2. Len(t) = n /\ Head(s) = s[1] /\ \A k \in 1 .. n : t[k] = s[k + 1]
  <2>1. /\ Len(Tail(s)) = Len(s) - 1 /\ Head(s) = s[1]
        /\ \A k \in 1 .. Len(s) - 1 : Tail(s)[k] = s[k + 1]
    BY HeadTailProperties
  <2>2. Len(s) - 1 = n
    BY <1>1
  <2> QED
    BY <2>1, <2>2
<1> HIDE DEF t
<1>3. \A k \in 1 .. n : k + 1 \in 1 .. n + 1
  OBVIOUS
<1>4. 1 \in 1 .. n + 1 /\ \A k \in 1 .. n + 1 : k = 1 \/ (k - 1 \in 1 .. n /\ (k - 1) + 1 = k)
  OBVIOUS
<1>5. News(s, p) <=> News(t, p) \/ IsNews(Head(s), p)
  <2>1. ASSUME News(t, p) PROVE News(s, p)
    <3>1. PICK k \in 1 .. n : IsNews(t[k], p)
      BY <1>2, <2>1 DEF News
    <3> QED
      BY <1>1, <1>2, <1>3, <3>1 DEF News
  <2>2. ASSUME News(s, p) PROVE News(t, p) \/ IsNews(Head(s), p)
    <3>1. PICK k \in 1 .. n + 1 : IsNews(s[k], p)
      BY <1>1, <2>2 DEF News
    <3> QED
      BY <1>2, <1>4, <3>1 DEF News
  <2>3. ASSUME IsNews(Head(s), p) PROVE News(s, p)
    BY <1>1, <1>2, <1>4, <2>3 DEF News
  <2> QED
    BY <2>1, <2>2, <2>3
<1>6. ASSUME Tells(s, p, r)
      PROVE  \A i \in 1 .. n + 1 :
               (IsNews(s[i], p) /\ \A j \in (i + 1) .. n + 1 : ~IsNews(s[j], p)) => s[i].range = r
  BY <1>1, <1>6 DEF Tells
<1>7. ASSUME Tells(s, p, r) PROVE Tells(t, p, r)
  <2> SUFFICES ASSUME NEW k \in 1 .. n, IsNews(t[k], p), \A j \in (k + 1) .. n : ~IsNews(t[j], p)
               PROVE  t[k].range = r
    BY <1>2 DEF Tells
  <2>1. k + 1 \in 1 .. n + 1 /\ t[k] = s[k + 1]
    BY <1>2, <1>3
  <2>2. ASSUME NEW j \in ((k + 1) + 1) .. n + 1 PROVE ~IsNews(s[j], p)
    <3>1. j - 1 \in (k + 1) .. n /\ j - 1 \in 1 .. n /\ (j - 1) + 1 = j
      OBVIOUS
    <3> QED
      BY <1>2, <3>1
  <2> QED
    BY <1>6, <1>7, <2>1, <2>2
<1>8. ASSUME IsNews(Head(s), p), Tells(s, p, r), ~News(t, p) PROVE Head(s).range = r
  <2>1. ASSUME NEW j \in (1 + 1) .. n + 1 PROVE ~IsNews(s[j], p)
    <3>1. j - 1 \in 1 .. n /\ (j - 1) + 1 = j
      OBVIOUS
    <3> QED
      BY <1>2, <1>8, <3>1 DEF News
  <2> QED
    BY <1>2, <1>4, <1>6, <1>8, <2>1
<1> QED
  BY <1>5, <1>7, <1>8 DEF t

\* The messages of a link after a step are those before it and the one sent.
LEMMA MovedMembers ==
  ASSUME Typed, NEW take, NEW sent, Moved(link, link', take, sent), NEW pair \in Neighbours
  PROVE  \A m \in ToSet(link'[pair]) : m \in ToSet(link[pair]) \/ (pair \in DOMAIN sent /\ m = sent[pair])
<1>1. link[pair] \in Seq(Messages)
  BY DEF Typed, TypedState
<1>2. CASE pair \in take
  <2>1. link'[pair] = Tail(link[pair]) /\ link[pair] # <<>>
    BY <1>2 DEF Moved
  <2> QED
    BY <1>1, <2>1, TailFacts
<1>3. CASE pair \in DOMAIN sent
  <2>1. link'[pair] = Append(link[pair], sent[pair]) /\ sent[pair] \in Messages
    BY <1>3 DEF Moved
  <2>2. ToSet(link'[pair]) = ToSet(link[pair]) \union {sent[pair]}
    BY <1>1, <2>1, AppendFacts
  <2> QED
    BY <1>3, <2>2
<1>4. CASE pair \notin take /\ pair \notin DOMAIN sent
  BY <1>4 DEF Moved
<1> QED
  BY <1>2, <1>3, <1>4

\* Messages that are no updates do not matter to the updates.
LEMMA NewsSame ==
  ASSUME Typed, NEW take, NEW sent, Moved(link, link', take, sent),
         \A pair \in take \intersect Neighbours : Head(link[pair]).kind # "update",
         \A pair \in DOMAIN sent : sent[pair].kind # "update"
  PROVE  \A pair \in Neighbours : \A p :
           /\ News(link[pair], p) <=> News(link'[pair], p)
           /\ \A r : Tells(link[pair], p, r) => Tells(link'[pair], p, r)
<1> SUFFICES ASSUME NEW pair \in Neighbours, NEW p
             PROVE  /\ News(link[pair], p) <=> News(link'[pair], p)
                    /\ \A r : Tells(link[pair], p, r) => Tells(link'[pair], p, r)
  OBVIOUS
<1>1. link[pair] \in Seq(Messages)
  BY DEF Typed, TypedState
<1>2. CASE pair \in take
  <2>1. link'[pair] = Tail(link[pair]) /\ link[pair] # <<>>
    BY <1>2 DEF Moved
  <2>2. ~IsNews(Head(link[pair]), p)
    BY <1>2 DEF IsNews
  <2> QED
    BY <1>1, <2>1, <2>2, NewsTail
<1>3. CASE pair \in DOMAIN sent
  <2>1. link'[pair] = Append(link[pair], sent[pair]) /\ sent[pair] \in Messages
    BY <1>3 DEF Moved
  <2>2. ~IsNews(sent[pair], p)
    BY <1>3 DEF IsNews
  <2> QED
    BY SMTT(30), <1>1, <2>1, <2>2, NewsAppend
<1>4. CASE pair \notin take /\ pair \notin DOMAIN sent
  BY <1>4 DEF Moved
<1> QED
  BY <1>2, <1>3, <1>4

\* A step without updates and changes of ranges leaves the ranges and the updates right.
LEMMA RangesUntouched ==
  ASSUME Typed, UpdatesAreTrue, RangesCover, NEW take, NEW sent, Moved(link, link', take, sent),
         \A pair \in take \intersect Neighbours : Head(link[pair]).kind # "update",
         \A pair \in DOMAIN sent : sent[pair].kind # "update",
         range' = range, replaced' = replaced
  PROVE  UpdatesAreTrue' /\ RangesCover'
<1>1. \A pair \in Neighbours : \A p :
        /\ News(link[pair], p) <=> News(link'[pair], p)
        /\ \A r : Tells(link[pair], p, r) => Tells(link'[pair], p, r)
  BY NewsSame
<1>2. ASSUME NEW pair \in ClpPairs, NEW m \in ToSet(link'[pair]), m.kind = "update"
      PROVE  m.source \in (ClpPorts(pair[1]) \union {"HERE"}) \ {PortTo(pair[1], pair[2])}
  <2>1. pair \in Neighbours
    BY DEF ClpPairs
  <2>2. m \in ToSet(link[pair])
    BY <1>2, <2>1, MovedMembers
  <2> QED
    BY <1>2, <2>2 DEF UpdatesAreTrue
<1>3. ASSUME NEW pair \in ClpPairs, NEW p \in AllPorts PROVE Tells(link'[pair], p, range'[pair[1]][p])
  <2>1. Tells(link[pair], p, range[pair[1]][p])
    BY DEF UpdatesAreTrue
  <2> QED
    BY <1>1, <2>1 DEF ClpPairs
<1>4. UpdatesAreTrue'
  BY <1>2, <1>3 DEF UpdatesAreTrue
<1>5. ASSUME NEW pair \in ClpPairs, NEW h \in Behind(pair[2], InPort(pair)) PROVE Covered(pair, h)'
  <2>1. Covered(pair, h)
    BY DEF RangesCover
  <2>2. News(link[pair], PortToward(pair[1], h)) <=> News(link'[pair], PortToward(pair[1], h))
    BY <1>1 DEF ClpPairs
  <2> QED
    BY <2>1, <2>2 DEF Covered
<1>6. RangesCover'
  BY <1>5 DEF RangesCover
<1> QED
  BY <1>4, <1>6

-----------------------------------------------------------------------------
\* Only the range of CLP c for the port source changes.
ElsewhereSame(c, source) ==
  \A d \in Clps, p \in AllPorts : (d # c \/ p # source) => range'[d][p] = range[d][p]

\* A change of a range that is announced leaves the updates right.
LEMMA UpdatesStayTrue ==
  ASSUME Typed, UpdatesAreTrue, NEW c \in Clps, NEW source \in ClpPorts(c) \union {"HERE"},
         NEW take, NEW sent, Updated(take, sent), Announced(c, source, sent), ElsewhereSame(c, source),
         \A pair \in take : pair[1] # c
  PROVE  UpdatesAreTrue'
<1> DEFINE new == range'[c][source]
<1>1. Moved(link, link', take, sent)
  BY DEF Updated
<1>2. ASSUME NEW pair \in ClpPairs, NEW m \in ToSet(link'[pair]), m.kind = "update"
      PROVE  m.source \in (ClpPorts(pair[1]) \union {"HERE"}) \ {PortTo(pair[1], pair[2])}
  <2>1. pair \in Neighbours
    BY DEF ClpPairs
  <2>2. m \in ToSet(link[pair]) \/ (pair \in DOMAIN sent /\ m = sent[pair])
    BY <1>1, <2>1, MovedMembers
  <2>3. CASE m \in ToSet(link[pair])
    BY <1>2, <2>3 DEF UpdatesAreTrue
  <2>4. CASE pair \in DOMAIN sent /\ m = sent[pair]
    <3>1. m = Update(new, source) /\ pair[1] = c /\ PortTo(c, pair[2]) # source
      BY <2>4 DEF Announced
    <3>2. m.source = source
      BY <3>1 DEF Update
    <3> QED
      BY <3>1, <3>2
  <2> QED
    BY <2>2, <2>3, <2>4
<1>3. ASSUME NEW pair \in ClpPairs, NEW p \in AllPorts PROVE Tells(link'[pair], p, range'[pair[1]][p])
  <2>1. pair \in Neighbours /\ pair[1] \in Clps /\ link[pair] \in Seq(Messages)
    BY OneWay DEF ClpPairs, Typed, TypedState
  <2>2. Tells(link[pair], p, range[pair[1]][p])
    BY DEF UpdatesAreTrue
  <2>3. CASE pair \in take
    <3>1. link'[pair] = Tail(link[pair]) /\ link[pair] # <<>>
      BY <1>1, <2>1, <2>3 DEF Moved
    <3>2. range'[pair[1]][p] = range[pair[1]][p]
      BY <2>1, <2>3 DEF ElsewhereSame
    <3> QED
      BY <2>1, <2>2, <3>1, <3>2, NewsTail
  <2>4. CASE pair \in DOMAIN sent
    <3>1. link'[pair] = Append(link[pair], sent[pair]) /\ sent[pair] \in Messages
      BY <1>1, <2>1, <2>4 DEF Moved
    <3>2. sent[pair] = Update(new, source) /\ pair[1] = c
      BY <2>4 DEF Announced
    <3>3. IsNews(sent[pair], p) <=> p = source
      BY <3>2 DEF IsNews, Update
    <3>4. CASE p = source
      <4>1. sent[pair].range = range'[pair[1]][p]
        BY <3>2, <3>4 DEF Update
      <4> QED
        BY <2>1, <3>1, <3>3, <3>4, <4>1, NewsAppend
    <3>5. CASE p # source
      <4>1. range'[pair[1]][p] = range[pair[1]][p]
        BY <2>1, <3>5 DEF ElsewhereSame
      <4> QED
        BY <2>1, <2>2, <3>1, <3>3, <3>5, <4>1, NewsAppend
    <3> QED
      BY <3>4, <3>5
  <2>5. CASE pair \notin take /\ pair \notin DOMAIN sent
    <3>1. link'[pair] = link[pair]
      BY <1>1, <2>1, <2>5 DEF Moved
    <3>2. CASE range'[pair[1]][p] = range[pair[1]][p]
      BY <2>2, <3>1, <3>2
    <3>3. CASE range'[pair[1]][p] # range[pair[1]][p]
      <4>1. pair[1] = c /\ p = source
        BY <2>1, <3>3 DEF ElsewhereSame
      <4>2. PortTo(pair[1], pair[2]) = p
        BY <2>5, <3>3, <4>1 DEF Announced
      <4>3. ASSUME NEW k \in 1 .. Len(link[pair]) PROVE ~IsNews(link[pair][k], p)
        <5>1. link[pair][k] \in ToSet(link[pair])
          BY <2>1, LenProperties DEF ToSet
        <5> QED
          BY <4>2, <5>1 DEF UpdatesAreTrue, IsNews
      <4> QED
        BY <3>1, <4>3 DEF Tells
    <3> QED
      BY <3>2, <3>3
  <2> QED
    BY <2>3, <2>4, <2>5
<1> HIDE DEF new
<1> QED
  BY <1>2, <1>3 DEF UpdatesAreTrue

\* And CLPs in the ranges that stand for them.
LEMMA CoveredStays ==
  ASSUME Typed, NEW c \in Clps, NEW source \in ClpPorts(c) \union {"HERE"},
         NEW take, NEW sent, Updated(take, sent), Announced(c, source, sent), ElsewhereSame(c, source),
         NEW pair \in ClpPairs, NEW h \in Behind(pair[2], InPort(pair)), Covered(pair, h),
         pair \notin take, pair[2] # c \/ InPort(pair) # source,
         <<pair[2], InPort(pair), h>> \in replaced => <<pair[2], InPort(pair), h>> \in replaced'
  PROVE  Covered(pair, h)'
<1> DEFINE x == pair[1]
           y == pair[2]
           p == PortToward(x, h)
<1>1. /\ x \in Clps /\ y \in Clps /\ pair \in Neighbours /\ h \in Clps
      /\ p # PortTo(x, y) /\ p \in AllPorts /\ InPort(pair) \in AllPorts
  <2>1. x \in Clps /\ y \in Clps /\ pair \in Neighbours /\ h \in Clps
    BY OneWay DEF ClpPairs, Behind
  <2>2. p # PortTo(x, y) /\ p \in AllPorts
    BY <2>1, OneWay, TowardFacts
  <2>3. InPort(pair) = PortToward(y, h)
    BY DEF Behind
  <2>4. InPort(pair) \in AllPorts
    <3>1. PortToward(y, h) \in AllPorts
      BY <2>1, TowardFacts
    <3> QED
      BY <2>3, <3>1
  <2> QED
    BY <2>1, <2>2, <2>4
<1>2. link[pair] \in Seq(Messages) /\ Moved(link, link', take, sent)
  BY <1>1 DEF Typed, TypedState, Updated
<1>3. /\ News(link[pair], p) => News(link'[pair], p)
      /\ pair \in DOMAIN sent /\ p = source => News(link'[pair], p)
  <2>1. CASE pair \in DOMAIN sent
    <3>1. link'[pair] = Append(link[pair], sent[pair]) /\ sent[pair] \in Messages
      BY <1>1, <1>2, <2>1 DEF Moved
    <3>2. p = source => IsNews(sent[pair], p)
      BY <2>1 DEF Announced, IsNews, Update
    <3> HIDE DEF p
    <3>3. News(Append(link[pair], sent[pair]), p) <=> News(link[pair], p) \/ IsNews(sent[pair], p)
      BY <1>2, <3>1, NewsAppend
    <3> QED
      BY <3>1, <3>2, <3>3
  <2>2. CASE pair \notin DOMAIN sent
    <3>1. link'[pair] = link[pair]
      BY <1>1, <1>2, <2>2 DEF Moved
    <3> QED
      BY <2>2, <3>1
  <2> QED
    BY <2>1, <2>2
<1>4. range'[y][InPort(pair)] = range[y][InPort(pair)]
  BY <1>1 DEF ElsewhereSame
<1>5. CASE News(link[pair], p)
  BY <1>3, <1>5 DEF Covered
<1>6. CASE <<y, InPort(pair), h>> \in replaced
  BY <1>6 DEF Covered
<1>7. CASE Within(range[y][InPort(pair)], range[x][p])
  <2>1. CASE range'[x][p] = range[x][p]
    BY <1>4, <1>7, <2>1 DEF Covered
  <2>2. CASE range'[x][p] # range[x][p]
    <3>1. x = c /\ p = source
      BY <1>1, <2>2 DEF ElsewhereSame
    <3>2. pair \in DOMAIN sent
      BY <1>1, <2>2, <3>1 DEF Announced
    <3>3. News(link'[pair], p)
      BY <1>3, <3>1, <3>2
    <3> QED
      BY <3>3 DEF Covered
  <2> QED
    BY <2>1, <2>2
<1> QED
  BY <1>5, <1>6, <1>7 DEF Covered

\* A change of a value.
LEMMA ChangeRanges ==
  ASSUME Typed, OwnRange, UpdatesAreTrue, RangesCover,
         NEW v \in Variables, NEW new \in Values[v], Change(v, new)
  PROVE  OwnRange' /\ UpdatesAreTrue' /\ RangesCover'
<1>1. PICK c \in Clps : c = Home[v]
  BY RangeQueriesAssumption
<1>2. PICK sent : Updated({}, sent) /\ Announced(c, "HERE", sent)
  BY <1>1, ChangeEffect
<1>3. /\ value' = [value EXCEPT ![v] = new] \/ value' = value
      /\ replaced' = replaced
      /\ range' = [range EXCEPT ![c]["HERE"] = RangeOf(Points(c, value'))]
  BY <1>1 DEF Change
<1>4. /\ range \in [Clps -> [AllPorts -> Ranges \union {NoRange}]] /\ "HERE" \in AllPorts
      /\ value \in [Variables -> Pairs]
  BY DEF Typed, TypedState, AllPorts
<1>5. PICK box : box = RangeOf(Points(c, value'))
  OBVIOUS
<1>6. range' = [range EXCEPT ![c]["HERE"] = box]
  BY <1>3, <1>5
<1>7. range'[c]["HERE"] = box /\ ElsewhereSame(c, "HERE")
  BY <1>4, <1>6 DEF ElsewhereSame
<1>8. OwnRange'
  <2> SUFFICES ASSUME NEW d \in Clps PROVE range'[d]["HERE"] = RangeOf(Points(d, value'))
    BY DEF OwnRange
  <2>1. CASE d = c
    BY <1>5, <1>7, <2>1
  <2>2. CASE d # c
    <3>1. \A w \in Variables : Home[w] = d => value'[w] = value[w]
      BY <1>1, <1>3, <1>4, <2>2
    <3>2. Points(d, value') = Points(d, value)
      BY <3>1 DEF Points
    <3>3. range'[d]["HERE"] = range[d]["HERE"]
      BY <1>4, <1>7, <2>2 DEF ElsewhereSame
    <3> QED
      BY <3>2, <3>3 DEF OwnRange
  <2> QED
    BY <2>1, <2>2
<1>9. UpdatesAreTrue'
  BY <1>2, <1>7, UpdatesStayTrue
<1>10. ASSUME NEW pair \in ClpPairs, NEW h \in Behind(pair[2], InPort(pair)) PROVE Covered(pair, h)'
  <2>1. Covered(pair, h)
    BY DEF RangesCover
  <2>2. InPort(pair) # "HERE"
    <3>1. PortTo(pair[2], pair[1]) \in PortsOf(pair[2])
      BY OneWay, PortToNeighbour DEF ClpPairs
    <3> QED
      BY <3>1 DEF InPort, PortsOf, Ports
  <2>3. /\ ElsewhereSame(c, "HERE") /\ "HERE" \in ClpPorts(c) \union {"HERE"} /\ pair \notin {}
        /\ <<pair[2], InPort(pair), h>> \in replaced => <<pair[2], InPort(pair), h>> \in replaced'
    BY <1>3, <1>7
  <2> QED
    BY <1>2, <2>1, <2>2, <2>3, CoveredStays
<1>11. RangesCover'
  BY <1>10 DEF RangesCover
<1> QED
  BY <1>8, <1>9, <1>11

\* What a CLP does with an update.
LEMMA LearnIs ==
  ASSUME Typed, NEW pair \in IntoClp, Learn(pair[1], pair[2])
  PROVE  /\ pair \in ClpPairs /\ link[pair] # <<>> /\ Head(link[pair]) \in UpdateMessages
         /\ InPort(pair) \in Ports
         /\ range'[pair[2]][InPort(pair)] = Head(link[pair]).range
         /\ ElsewhereSame(pair[2], InPort(pair))
         /\ SendRollbacks(noted[pair[2]][InPort(pair)],
                          RolledBackByUpdate(noted[pair[2]][InPort(pair)], Head(link[pair]).range))
         /\ crossed' = crossed \union {e.query : e \in {e \in ToSet(noted[pair[2]][InPort(pair)]) :
                                                  Cross(Head(link[pair]).range, Rectangle[e.query])}}
         /\ replaced' = {t \in replaced : <<t[1], t[2]>> # <<pair[2], InPort(pair)>>} \union
              {<<pair[2], InPort(pair), d>> : d \in {d \in Behind(pair[2], InPort(pair)) :
                 /\ PortToward(pair[1], d) # Head(link[pair]).source
                 /\ ~Within(Head(link[pair]).range, range[pair[1]][PortToward(pair[1], d)])}}
         /\ UNCHANGED <<value, noted, tracker, changes, asked, cancelled, answer, misled>>
<1>1. IsNext(pair[1], pair[2], "update")
  BY DEF Learn
<1>2. /\ pair \in Neighbours /\ pair[2] \in Clps /\ pair = <<pair[1], pair[2]>>
      /\ link[pair] # <<>> /\ Head(link[pair]) \in Messages /\ Head(link[pair]).kind = "update"
      /\ Allowed(pair, Head(link[pair]), asked, cancelled)
  BY <1>1, TakenIs
<1>3. Head(link[pair]) \in UpdateMessages /\ pair \in ClpPairs
  BY <1>2, MessageKinds DEF Allowed, ClpPairs
<1>4. InPort(pair) \in Ports /\ InPort(pair) \in AllPorts
  BY ReceiverPort DEF InPort, AllPorts
<1>5. range' = [range EXCEPT ![pair[2]][InPort(pair)] = Head(link[pair]).range]
  BY <1>2 DEF Learn, InPort
<1>6. /\ range'[pair[2]][InPort(pair)] = Head(link[pair]).range
      /\ ElsewhereSame(pair[2], InPort(pair))
  <2>1. range \in [Clps -> [AllPorts -> Ranges \union {NoRange}]]
    BY DEF Typed, TypedState
  <2>2. PICK new, p : new = Head(link[pair]).range /\ p = InPort(pair)
    OBVIOUS
  <2>3. range' = [range EXCEPT ![pair[2]][p] = new] /\ p \in AllPorts
    BY <1>4, <1>5, <2>2
  <2>4. range'[pair[2]][p] = new /\ ElsewhereSame(pair[2], p)
    BY <1>2, <2>1, <2>3 DEF ElsewhereSame
  <2> QED
    BY <2>2, <2>4
<1>7. /\ SendRollbacks(noted[pair[2]][InPort(pair)],
                       RolledBackByUpdate(noted[pair[2]][InPort(pair)], Head(link[pair]).range))
      /\ crossed' = crossed \union {e.query : e \in {e \in ToSet(noted[pair[2]][InPort(pair)]) :
                                               Cross(Head(link[pair]).range, Rectangle[e.query])}}
      /\ replaced' = {t \in replaced : <<t[1], t[2]>> # <<pair[2], InPort(pair)>>} \union
           {<<pair[2], InPort(pair), d>> : d \in {d \in Behind(pair[2], InPort(pair)) :
              /\ PortToward(pair[1], d) # Head(link[pair]).source
              /\ ~Within(Head(link[pair]).range, range[pair[1]][PortToward(pair[1], d)])}}
  BY <1>2 DEF Learn, InPort
<1>8. UNCHANGED <<value, noted, tracker, changes, asked, cancelled, answer, misled>>
  BY DEF Learn, agentVars
<1> QED
  BY <1>2, <1>3, <1>4, <1>6, <1>7, <1>8

\* An update that a CLP takes.
LEMMA LearnRanges ==
  ASSUME Typed, OwnRange, UpdatesAreTrue, RangesCover, NEW taken \in IntoClp, Learn(taken[1], taken[2])
  PROVE  OwnRange' /\ UpdatesAreTrue' /\ RangesCover'
<1> DEFINE x == taken[1]
           c == taken[2]
           port == InPort(taken)
           m == Head(link[taken])
<1>1. /\ taken \in ClpPairs /\ link[taken] # <<>> /\ m \in UpdateMessages /\ port \in Ports
      /\ range'[c][port] = m.range /\ ElsewhereSame(c, port) /\ value' = value
      /\ replaced' = {t \in replaced : <<t[1], t[2]>> # <<c, port>>} \union
           {<<c, port, d>> : d \in {d \in Behind(c, port) :
              /\ PortToward(x, d) # m.source
              /\ ~Within(m.range, range[x][PortToward(x, d)])}}
  BY LearnIs
<1>2. PICK sent : Updated({taken}, sent) /\ Announced(c, port, sent)
  BY LearnEffect DEF InPort
<1>3. x \in Clps /\ c \in Clps /\ x # c /\ taken = <<x, c>> /\ taken \in Neighbours
  BY <1>1, OneWay DEF ClpPairs
<1>4. port \in ClpPorts(c)
  <2>1. PortTo(c, x) \in PortsOf(c) /\ RankOf(c, PortTo(c, x)) = x
    BY ReceiverPort
  <2> QED
    BY <1>3, <2>1 DEF ClpPorts, InPort
<1> HIDE DEF m, port
<1>5. OwnRange'
  <2> SUFFICES ASSUME NEW d \in Clps PROVE range'[d]["HERE"] = RangeOf(Points(d, value'))
    BY DEF OwnRange
  <2>1. "HERE" \in AllPorts /\ port # "HERE"
    BY <1>1 DEF AllPorts, Ports
  <2>2. range'[d]["HERE"] = range[d]["HERE"]
    BY <1>1, <2>1 DEF ElsewhereSame
  <2>3. range[d]["HERE"] = RangeOf(Points(d, value))
    BY DEF OwnRange
  <2> QED
    BY <1>1, <2>2, <2>3
<1>6. UpdatesAreTrue'
  <2>1. \A pair \in {taken} : pair[1] # c
    BY <1>3
  <2> HIDE DEF c
  <2> QED
    BY <1>1, <1>2, <1>3, <1>4, <2>1, UpdatesStayTrue
<1>7. ASSUME NEW pair \in ClpPairs, NEW h \in Behind(pair[2], InPort(pair)), pair # taken
      PROVE  Covered(pair, h)'
  <2>1. Covered(pair, h)
    BY DEF RangesCover
  <2>2. pair[2] # c \/ InPort(pair) # port
    <3>1. pair = <<pair[1], pair[2]>> /\ pair[2] \in Clps /\ <<pair[2], pair[1]>> \in Neighbours
      BY OneWay DEF ClpPairs
    <3>2. RankOf(pair[2], InPort(pair)) = pair[1]
      BY <3>1, PortToNeighbour DEF InPort
    <3>3. RankOf(c, port) = x
      BY ReceiverPort DEF port, InPort
    <3> QED
      BY <1>3, <1>7, <3>1, <3>2, <3>3
  <2>3. <<pair[2], InPort(pair), h>> \in replaced => <<pair[2], InPort(pair), h>> \in replaced'
    BY <1>1, <2>2
  <2> HIDE DEF c
  <2> QED
    BY <1>1, <1>2, <1>3, <1>4, <1>7, <2>1, <2>2, <2>3, CoveredStays
<1>8. ASSUME NEW h \in Behind(c, port) PROVE Covered(taken, h)'
  <2> DEFINE p == PortToward(x, h)
  <2>1. h \in Clps /\ p \in AllPorts
    BY <1>3, TowardFacts DEF Behind
  <2>2. range'[x][p] = range[x][p]
    BY <1>1, <1>3, <2>1 DEF ElsewhereSame
  <2>3. range[x][p] \in Ranges \union {NoRange}
    BY <1>3, <2>1 DEF Typed, TypedState
  <2>4. CASE p = m.source
    <3>1. Tells(link[taken], p, range[x][p])
      BY <1>1, <2>1 DEF UpdatesAreTrue
    <3>2. IsNews(m, p)
      BY <1>1, <2>4, MessageKinds DEF IsNews, UpdateMessages
    <3>3. link'[taken] = Tail(link[taken]) /\ link[taken] \in Seq(Messages)
      BY <1>2, <1>3 DEF Updated, Moved, Typed, TypedState
    <3> HIDE DEF p
    <3>4. News(link'[taken], p) \/ m.range = range[x][p]
      BY <1>1, <3>1, <3>2, <3>3, NewsTail DEF m
    <3>5. Within(range[x][p], range[x][p])
      BY <2>3, WithinFacts
    <3>6. News(link'[taken], p) \/ Within(range'[c][port], range'[x][p])
      BY <1>1, <2>2, <3>4, <3>5
    <3> QED
      BY <3>6 DEF Covered, p, port
  <2>5. CASE p # m.source /\ ~Within(m.range, range[x][p])
    <3>1. <<c, port, h>> \in replaced'
      BY <1>1, <2>5
    <3> QED
      BY <3>1 DEF Covered, port
  <2>6. CASE p # m.source /\ Within(m.range, range[x][p])
    <3>1. Within(range'[c][port], range'[x][p])
      BY <1>1, <2>2, <2>6
    <3> QED
      BY <3>1 DEF Covered, port
  <2> QED
    BY <2>4, <2>5, <2>6
<1>9. RangesCover'
  BY <1>7, <1>8 DEF RangesCover, port
<1> QED
  BY <1>5, <1>6, <1>9

-----------------------------------------------------------------------------
\* What a CLP has found when it passes a query on.
FoundHere(c, q) == IF "HERE" \in Open(c, q) THEN RangeRead(c, q) ELSE {}

\* Where what was found is kept or goes.
LEMMA ProceedCarries ==
  ASSUME Typed, NEW c \in Clps, NEW q \in Queries, NEW l, NEW outstanding, NEW found,
         Proceed(c, q, l, outstanding, found)
  PROVE  /\ outstanding = {} => link'[<<c, Up(q, c)>>] = Append(l[<<c, Up(q, c)>>], Query(q, found))
         /\ outstanding # {} => /\ tracker'[c][q].outstanding = outstanding
                                /\ tracker'[c][q].found = found
<1>1. ASSUME outstanding = {}
      PROVE  link'[<<c, Up(q, c)>>] = Append(l[<<c, Up(q, c)>>], Query(q, found))
  <2>1. <<c, Up(q, c)>> \in Neighbours /\ PortTo(c, Up(q, c)) = UpPort(q, c)
    BY UpFacts
  <2> DEFINE ms == [p \in {PortToAlp(c, From[q])} |-> Query(q, found)]
  <2>2. link' = Sent(l, c, ms)
    BY <1>1 DEF Proceed, Complete
  <2>3. UpPort(q, c) \in DOMAIN ms /\ ms[UpPort(q, c)] = Query(q, found)
    BY DEF UpPort
  <2> HIDE DEF ms
  <2> QED
    BY <2>1, <2>2, <2>3 DEF Sent
<1>2. ASSUME outstanding # {}
      PROVE  tracker'[c][q].outstanding = outstanding /\ tracker'[c][q].found = found
  <2>1. PICK e : e = [outstanding |-> outstanding, found |-> found]
    OBVIOUS
  <2>2. tracker' = [tracker EXCEPT ![c] = AddEntry(@, q, e)]
    BY <1>2, <2>1 DEF Proceed, Complete
  <2>3. tracker'[c] = AddEntry(tracker[c], q, e)
    BY <2>2 DEF Typed, TypedState
  <2>4. tracker'[c][q] = e
    BY <2>3 DEF AddEntry
  <2> QED
    BY <2>1, <2>4
<1> QED
  BY <1>1, <1>2

\* The CLP notes the query at all target ports, as blocked at those that are not open.
NotedOnVisit(c, q) ==
  /\ \A d \in Clps \ {c} : noted'[d] = noted[d]
  /\ \A p \in AllPorts : ToSet(noted'[c][p]) = ToSet(noted[c][p]) \union
       (IF p \in TargetPorts(c, q) THEN {[query |-> q, blocked |-> p \notin Open(c, q)]} ELSE {})

\* What a CLP finds, notes and does not see when a query comes for the first time.
LEMMA VisitTells ==
  ASSUME Typed, NEW pair \in IntoClp, FirstVisit(pair[1], pair[2]), NEW q \in Queries,
         Is(Head(link[pair]), "query", q), NEW c, c = pair[2]
  PROVE  /\ Open(c, q) \ {"HERE"} = {} =>
              link'[<<c, Up(q, c)>>] = Append(link[<<c, Up(q, c)>>], Query(q, FoundHere(c, q)))
         /\ Open(c, q) \ {"HERE"} # {} => /\ tracker'[c][q].outstanding = Open(c, q) \ {"HERE"}
                                          /\ tracker'[c][q].found = FoundHere(c, q)
         /\ NotedOnVisit(c, q)
         /\ (\E p \in TargetPorts(c, q) : Cross(range[c][p], Rectangle[q])) => q \in crossed'
         /\ crossed \subseteq crossed'
         /\ UNCHANGED <<value, range, changes, asked, cancelled, answer, rolledBack, lost, replaced, misled>>
<1> DEFINE x == pair[1]
           open == {p \in TargetPorts(c, q) : Overlaps(range[c][p], Rectangle[q])}
           away == open \ {"HERE"}
           l == Sent(Taken(x, c), c, [p \in away |-> Query(q, {})])
<1>1. /\ pair = <<x, c>> /\ pair \in Neighbours /\ c \in Clps /\ x # c
      /\ Head(link[<<x, c>>]).query = q
  BY ReceiverPort, NeighbourKinds DEF Is
<1>2. open = Open(c, q)
  BY DEF Open
<1>3. /\ Proceed(c, q, l, away, IF "HERE" \in open THEN RangeRead(c, q) ELSE {})
      /\ noted'   = [noted EXCEPT ![c] = [p \in AllPorts |->
                         IF p \in TargetPorts(c, q)
                         THEN Append(@[p], [query |-> q, blocked |-> p \notin open])
                         ELSE @[p]]]
      /\ crossed' = IF \E p \in TargetPorts(c, q) : Cross(range[c][p], Rectangle[q])
                    THEN crossed \union {q} ELSE crossed
      /\ UNCHANGED <<value, range, changes, asked, cancelled, answer, rolledBack, lost, replaced, misled>>
  <2>1. FirstVisit(x, c)
    BY <1>1
  <2> QED
    BY <1>1, <2>1 DEF FirstVisit, agentVars
<1> HIDE DEF open
<1>4. away = {} => l[<<c, Up(q, c)>>] = link[<<c, Up(q, c)>>]
  <2>1. <<c, Up(q, c)>> \in Neighbours /\ <<c, Up(q, c)>> # <<x, c>>
    BY <1>1, UpFacts
  <2>2. DOMAIN [p \in away |-> Query(q, {})] = away
    OBVIOUS
  <2>3. Taken(x, c)[<<c, Up(q, c)>>] = link[<<c, Up(q, c)>>]
    BY <1>1, <2>1 DEF Taken, Typed, TypedState
  <2> HIDE DEF away
  <2>4. \A ms : DOMAIN ms = {} => Sent(Taken(x, c), c, ms)[<<c, Up(q, c)>>] = Taken(x, c)[<<c, Up(q, c)>>]
    BY <2>1 DEF Sent
  <2> QED
    BY <2>2, <2>3, <2>4
<1>5. Proceed(c, q, l, away, FoundHere(c, q))
  BY <1>2, <1>3 DEF FoundHere
<1> HIDE DEF l, away
<1>6. /\ away = {} => link'[<<c, Up(q, c)>>] = Append(link[<<c, Up(q, c)>>], Query(q, FoundHere(c, q)))
      /\ away # {} => tracker'[c][q].outstanding = away /\ tracker'[c][q].found = FoundHere(c, q)
  BY <1>1, <1>4, <1>5, ProceedCarries
<1>7. ASSUME NEW p \in AllPorts
      PROVE  ToSet(noted'[c][p]) = ToSet(noted[c][p]) \union
               (IF p \in TargetPorts(c, q) THEN {[query |-> q, blocked |-> p \notin Open(c, q)]} ELSE {})
  <2>1. noted[c][p] \in Seq(Infos)
    BY <1>1 DEF Typed, TypedState
  <2>2. PICK e : e = [query |-> q, blocked |-> p \notin Open(c, q)]
    OBVIOUS
  <2>3. e \in Infos
    BY <2>2 DEF Infos
  <2>4. noted'[c][p] = IF p \in TargetPorts(c, q) THEN Append(noted[c][p], e) ELSE noted[c][p]
    <3>1. noted'[c] = [o \in AllPorts |->
                         IF o \in TargetPorts(c, q)
                         THEN Append(noted[c][o], [query |-> q, blocked |-> o \notin open])
                         ELSE noted[c][o]]
      BY <1>1, <1>3 DEF Typed, TypedState
    <3> QED
      BY <1>2, <2>2, <3>1
  <2>5. ToSet(Append(noted[c][p], e)) = ToSet(noted[c][p]) \union {e}
    BY <2>1, <2>3, AppendFacts
  <2> QED
    BY <2>2, <2>4, <2>5
<1>8. \A d \in Clps \ {c} : noted'[d] = noted[d]
  BY <1>1, <1>3 DEF Typed, TypedState
<1>9. NotedOnVisit(c, q)
  BY <1>7, <1>8 DEF NotedOnVisit
<1> QED
  BY <1>2, <1>3, <1>6, <1>9 DEF away

\* A CLP replies with what it found, or keeps it with the ports it waits for.
Carried(c, q, out, found) ==
  /\ out = {} => link'[<<c, Up(q, c)>>] = Append(link[<<c, Up(q, c)>>], Query(q, found))
  /\ out # {} => tracker'[c][q].outstanding = out /\ tracker'[c][q].found = found

\* What it has when a reply has come.
LEMMA ReplyTells ==
  ASSUME Typed, NEW pair \in IntoClp, Reply(pair[1], pair[2]), NEW q \in Queries,
         Is(Head(link[pair]), "query", q), NEW c, c = pair[2],
         NEW out, out = tracker[c][q].outstanding \ {InPort(pair)},
         NEW found, found = tracker[c][q].found \union Head(link[pair]).found
  PROVE  /\ Carried(c, q, out, found)
         /\ UNCHANGED <<value, range, noted, changes, asked, cancelled, answer, rolledBack, lost, crossed, replaced, misled>>
<1> DEFINE x == pair[1]
<1>1. /\ pair = <<x, c>> /\ pair \in Neighbours /\ c \in Clps /\ x # c
      /\ Head(link[<<x, c>>]) = Head(link[pair]) /\ Head(link[pair]).query = q
  BY ReceiverPort, NeighbourKinds DEF Is
<1>2. /\ Proceed(c, q, Taken(x, c), out, found)
      /\ UNCHANGED <<value, range, noted, changes, asked, cancelled, answer, rolledBack, lost, crossed, replaced, misled>>
  BY <1>1 DEF Reply, ReplyPort, InPort, agentVars
<1>3. Taken(x, c)[<<c, Up(q, c)>>] = link[<<c, Up(q, c)>>]
  <2>1. <<c, Up(q, c)>> \in Neighbours /\ <<c, Up(q, c)>> # <<x, c>>
    BY <1>1, UpFacts
  <2> QED
    BY <1>1, <2>1 DEF Taken, Typed, TypedState
<1>4. PICK l : l = Taken(x, c)
  OBVIOUS
<1>5. Proceed(c, q, l, out, found)
  BY <1>2, <1>4
<1>6. /\ out = {} => link'[<<c, Up(q, c)>>] = Append(l[<<c, Up(q, c)>>], Query(q, found))
      /\ out # {} => tracker'[c][q].outstanding = out /\ tracker'[c][q].found = found
  <2>1. c \in Clps /\ q \in Queries
    BY <1>1
  <2>2. ASSUME NEW o, NEW f, Proceed(c, q, l, o, f)
        PROVE  /\ o = {} => link'[<<c, Up(q, c)>>] = Append(l[<<c, Up(q, c)>>], Query(q, f))
               /\ o # {} => /\ tracker'[c][q].outstanding = o
                            /\ tracker'[c][q].found = f
    BY SMTT(30), <2>1, <2>2, ProceedCarries
  <2> QED
    BY <1>5, <2>2
<1>7. Carried(c, q, out, found)
  BY <1>3, <1>4, <1>6 DEF Carried
<1> QED
  BY <1>2, <1>7

-----------------------------------------------------------------------------
\* Only what is found about a variable decides whether it is settled.
LEMMA SettledAlike ==
  ASSUME NEW q, NEW v, NEW S, NEW T, About(S, v) = About(T, v)
  PROVE  Settled(q, v, S) <=> Settled(q, v, T)
BY DEF Settled

\* What is settled for q stays so in a step.
Kept(q) == \A v \in Variables : \A S : Settled(q, v, S) => Settled(q, v, S)'

\* Its entries are not deleted, where values stay.
LEMMA KeptWhereValuesStay ==
  ASSUME NEW q \in Queries, value' = value,
         \A c \in Clps, p \in AllPorts, b \in BOOLEAN : IsNoted(q, c, p, b) => IsNoted(q, c, p, b)'
  PROVE  Kept(q)
<1> SUFFICES ASSUME NEW v \in Variables, NEW S, Settled(q, v, S) PROVE Settled(q, v, S)'
  BY DEF Kept
<1>1. Home[v] \in Clps /\ "HERE" \in AllPorts
  BY RangeQueriesAssumption DEF AllPorts
<1>2. CASE (\E b \in BOOLEAN : IsNoted(q, Home[v], "HERE", b)) /\ About(S, v) = Now(q, v)
  <2>1. Now(q, v)' = Now(q, v)
    BY DEF Now
  <2>2. PICK b \in BOOLEAN : IsNoted(q, Home[v], "HERE", b)
    BY <1>2
  <2>3. IsNoted(q, Home[v], "HERE", b)'
    BY <1>1, <2>2
  <2> QED
    BY <1>2, <2>1, <2>3 DEF Settled
<1>3. CASE /\ About(S, v) = {}
           /\ \E d \in Clps \ {Home[v]} : /\ PortToward(d, Home[v]) # UpPort(q, d)
                                          /\ IsNoted(q, d, PortToward(d, Home[v]), TRUE)
  <2>1. PICK d \in Clps \ {Home[v]} : /\ PortToward(d, Home[v]) # UpPort(q, d)
                                      /\ IsNoted(q, d, PortToward(d, Home[v]), TRUE)
    BY <1>3
  <2>2. PortToward(d, Home[v]) \in AllPorts
    BY <1>1, <2>1, TowardFacts
  <2>3. IsNoted(q, d, PortToward(d, Home[v]), TRUE)'
    BY <2>1, <2>2
  <2> QED
    BY <1>3, <2>1, <2>3 DEF Settled
<1> QED
  BY <1>2, <1>3 DEF Settled

\* A query stays sound when what is new about it is right.
LEMMA SoundStays ==
  ASSUME NEW q \in Queries, Sound(q), Kept(q),
         \A c \in Clps : \A e : q \in DOMAIN tracker'[c] /\ e = tracker'[c][q] =>
           (q \in DOMAIN tracker[c] /\ e = tracker[c][q]) \/ Gathered(q, c, e)',
         \A c \in Clps : \A m \in ToSet(link'[<<c, Up(q, c)>>]) : Is(m, "query", q) =>
           m \in ToSet(link[<<c, Up(q, c)>>]) \/ Reported(q, c, m.found)',
         \A S : S = answer'[q] /\ S # NoAnswer =>
           S = answer[q] \/ \A v \in Variables : Settled(q, v, S)'
  PROVE  Sound(q)'
<1>1. ASSUME NEW c \in Clps, NEW e, q \in DOMAIN tracker'[c], e = tracker'[c][q] PROVE Gathered(q, c, e)'
  <2>1. CASE q \in DOMAIN tracker[c] /\ e = tracker[c][q]
    <3>1. Gathered(q, c, e)
      BY <2>1 DEF Sound
    <3>2. ASSUME NEW v \in Variables
          PROVE  IF PortToward(c, Home[v]) \in e.outstanding \union {UpPort(q, c)}
                 THEN About(e.found, v) = {} ELSE Settled(q, v, e.found)'
      <4>1. Settled(q, v, e.found) => Settled(q, v, e.found)'
        BY DEF Kept
      <4>2. IF PortToward(c, Home[v]) \in e.outstanding \union {UpPort(q, c)}
            THEN About(e.found, v) = {} ELSE Settled(q, v, e.found)
        BY <3>1 DEF Gathered
      <4> QED
        BY <4>1, <4>2
    <3> QED
      BY <3>2 DEF Gathered
  <2> QED
    BY <1>1, <2>1
<1>2. ASSUME NEW c \in Clps, NEW m \in ToSet(link'[<<c, Up(q, c)>>]), Is(m, "query", q)
      PROVE  Reported(q, c, m.found)'
  <2>1. CASE m \in ToSet(link[<<c, Up(q, c)>>])
    <3>1. Reported(q, c, m.found)
      BY <1>2, <2>1 DEF Sound
    <3>2. ASSUME NEW v \in Variables
          PROVE  IF PortToward(c, Home[v]) = UpPort(q, c) THEN About(m.found, v) = {}
                                                          ELSE Settled(q, v, m.found)'
      <4>1. Settled(q, v, m.found) => Settled(q, v, m.found)'
        BY DEF Kept
      <4>2. IF PortToward(c, Home[v]) = UpPort(q, c) THEN About(m.found, v) = {}
                                                     ELSE Settled(q, v, m.found)
        BY <3>1 DEF Reported
      <4> QED
        BY <4>1, <4>2
    <3> QED
      BY <3>2 DEF Reported
  <2> QED
    BY <1>2, <2>1
<1>3. ASSUME NEW S, S = answer'[q], S # NoAnswer, NEW v \in Variables PROVE Settled(q, v, S)'
  <2>1. CASE S = answer[q]
    <3>1. Settled(q, v, S)
      BY <1>3, <2>1 DEF Sound
    <3> QED
      BY <3>1 DEF Kept
  <2> QED
    BY <1>3, <2>1
<1>4. (\A c \in Clps : \A e : q \in DOMAIN tracker[c] /\ e = tracker[c][q] => Gathered(q, c, e))'
  BY <1>1
<1>5. (\A c \in Clps : \A m \in ToSet(link[<<c, Up(q, c)>>]) :
         Is(m, "query", q) => Reported(q, c, m.found))'
  BY <1>2
<1>6. (\A S : S = answer[q] /\ S # NoAnswer => \A v \in Variables : Settled(q, v, S))'
  BY <1>3
<1> QED
  BY <1>4, <1>5, <1>6 DEF Sound

\* A step that does not concern a query leaves it sound.
LEMMA SoundElsewhere ==
  ASSUME Typed, NEW q \in Queries, Sound(q), Kept(q), NEW take, NEW sent, Moved(link, link', take, sent),
         \A p \in DOMAIN sent : ~Is(sent[p], "query", q),
         \A c \in Clps : q \in DOMAIN tracker'[c] => q \in DOMAIN tracker[c] /\ tracker'[c][q] = tracker[c][q],
         answer'[q] = answer[q]
  PROVE  Sound(q)'
<1>1. \A c \in Clps : \A m \in ToSet(link'[<<c, Up(q, c)>>]) : Is(m, "query", q) =>
        m \in ToSet(link[<<c, Up(q, c)>>])
  <2> SUFFICES ASSUME NEW c \in Clps, NEW m \in ToSet(link'[<<c, Up(q, c)>>]), Is(m, "query", q)
               PROVE  m \in ToSet(link[<<c, Up(q, c)>>])
    OBVIOUS
  <2>1. PICK pair \in Neighbours : pair = <<c, Up(q, c)>>
    BY UpFacts
  <2>2. m \in ToSet(link[pair]) \/ (pair \in DOMAIN sent /\ m = sent[pair])
    BY <2>1, MovedMembers
  <2> QED
    BY <2>1, <2>2
<1>2. \A c \in Clps : \A e : q \in DOMAIN tracker'[c] /\ e = tracker'[c][q] =>
        q \in DOMAIN tracker[c] /\ e = tracker[c][q]
  OBVIOUS
<1> QED
  BY <1>1, <1>2, SoundStays

\* What is blocked stays outside of the ranges where no range changes.
LEMMA BlockedStay ==
  ASSUME BlockedAreOutside, range' = range,
         \A q \in Valid', c \in Clps : \A p \in Ports :
           IsNoted(q, c, p, TRUE)' => q \in Valid /\ IsNoted(q, c, p, TRUE)
  PROVE  BlockedAreOutside'
<1> SUFFICES ASSUME NEW q \in Valid', NEW c \in Clps, NEW p \in Ports, IsNoted(q, c, p, TRUE)'
             PROVE  ~Overlaps(range'[c][p], Rectangle[q]) /\ ~Cross(range'[c][p], Rectangle[q])
  BY DEF BlockedAreOutside
<1>1. q \in Valid /\ IsNoted(q, c, p, TRUE)
  OBVIOUS
<1>2. ~Overlaps(range[c][p], Rectangle[q]) /\ ~Cross(range[c][p], Rectangle[q])
  BY <1>1 DEF BlockedAreOutside
<1> QED
  BY <1>2

\* A new query is known nowhere.
LEMMA SoundAsk ==
  ASSUME Typed, SoundState, NEW q0 \in Queries, Ask(q0)
  PROVE  SoundState'
<1> USE DEF SoundState
<1>1. PICK sent : sent = [p \in {ToParent(q0)} |-> Query(q0, {})]
  OBVIOUS
<1>2. Moved(link, link', {}, sent)
  BY <1>1, TypedAsk
<1>3. /\ q0 \notin asked /\ asked' = asked \union {q0}
      /\ UNCHANGED <<value, range, noted, tracker, cancelled, answer, rolledBack, lost, crossed, replaced>>
  BY DEF Ask, clpVars
<1>4. /\ \A p \in DOMAIN sent : p = ToParent(q0) /\ sent[p] = Query(q0, {})
      /\ \A p \in DOMAIN sent : sent[p].kind = "query" /\ sent[p].query = q0
  BY <1>1 DEF Query
<1>5. UpdatesAreTrue' /\ RangesCover'
  <2>1. \A p \in DOMAIN sent : sent[p].kind # "update"
    BY <1>4
  <2>2. \A p \in {} \intersect Neighbours : Head(link[p]).kind # "update"
    OBVIOUS
  <2> QED
    BY <1>2, <1>3, <2>1, <2>2, RangesUntouched
<1>6. OwnRange'
  BY <1>3 DEF OwnRange
<1>7. \A c \in Clps : \A p \in AllPorts : \A b : ~IsNoted(q0, c, p, b)
  BY <1>3 DEF IsNoted, Typed, Known
<1>8. \A q \in Valid' : q = q0 \/ q \in Valid
  BY <1>3 DEF Valid
<1>9. BlockedAreOutside'
  <2>1. \A q \in Valid', c \in Clps : \A p \in Ports :
          IsNoted(q, c, p, TRUE)' => q \in Valid /\ IsNoted(q, c, p, TRUE)
    <3>1. \A q, c, p : IsNoted(q, c, p, TRUE)' => IsNoted(q, c, p, TRUE)
      BY <1>3 DEF IsNoted
    <3> QED
      BY <1>7, <1>8, <3>1 DEF AllPorts
  <2> QED
    BY <1>3, <2>1, BlockedStay
<1>10. AnsweredWereAsked'
  BY <1>3 DEF AnsweredWereAsked
<1>11. ASSUME NEW q \in Valid' PROVE Sound(q)'
  <2>1. q \in Queries
    BY <1>3 DEF Valid, Typed, Known
  <2>2. CASE q # q0
    <3>1. q \in Valid /\ Sound(q)
      BY <1>8, <2>2 DEF AllSound
    <3>2. Kept(q)
      <4>1. \A c \in Clps, p \in AllPorts, b \in BOOLEAN : IsNoted(q, c, p, b) => IsNoted(q, c, p, b)'
        BY <1>3 DEF IsNoted
      <4> QED
        BY <1>3, <2>1, <4>1, KeptWhereValuesStay
    <3>3. \A p \in DOMAIN sent : ~Is(sent[p], "query", q)
      BY <1>4, <2>2 DEF Is
    <3>4. \A c \in Clps : q \in DOMAIN tracker'[c] => q \in DOMAIN tracker[c] /\ tracker'[c][q] = tracker[c][q]
      BY <1>3
    <3>5. answer'[q] = answer[q]
      BY <1>3
    <3> QED
      BY <1>2, <2>1, <3>1, <3>2, <3>3, <3>4, <3>5, SoundElsewhere
  <2>3. CASE q = q0
    <3>1. \A c \in Clps : q0 \notin DOMAIN tracker'[c]
      BY <1>3 DEF Typed, Known
    <3>2. ASSUME NEW c \in Clps, NEW m \in ToSet(link'[<<c, Up(q0, c)>>]), Is(m, "query", q0) PROVE FALSE
      <4>1. PICK pair \in Neighbours : pair = <<c, Up(q0, c)>>
        BY UpFacts
      <4>2. m \in ToSet(link[pair]) \/ pair \in DOMAIN sent
        BY <1>2, <3>2, <4>1, MovedMembers
      <4>3. CASE m \in ToSet(link[pair])
        <5>1. Allowed(pair, m, asked, cancelled)
          BY <4>3 DEF Typed, AllAllowed
        <5> QED
          BY <1>3, <3>2, <5>1 DEF Allowed, Is
      <4>4. CASE pair \in DOMAIN sent
        <5>1. c = From[q0]
          BY <1>4, <4>1, <4>4 DEF ToParent
        <5> QED
          BY <5>1, AgentsAlp
      <4> QED
        BY <4>2, <4>3, <4>4
    <3>3. answer'[q0] = NoAnswer
      BY <1>3 DEF AnsweredWereAsked
    <3>4. Sound(q0)'
      BY <3>1, <3>2, <3>3 DEF Sound
    <3> QED
      BY <2>3, <3>4
  <2> QED
    BY <2>2, <2>3
<1>12. AllSound'
  BY <1>11 DEF AllSound
<1> QED
  BY <1>5, <1>6, <1>9, <1>10, <1>12

\* A step after which no query is sound that was not, and nothing is noted that was not.
LEMMA SoundCancel ==
  ASSUME Typed, SoundState, NEW q0 \in Queries, Cancel(q0)
  PROVE  SoundState'
<1> USE DEF SoundState
<1>1. PICK sent : sent = [p \in {ToParent(q0)} |-> Anti(q0)]
  OBVIOUS
<1>2. Moved(link, link', {}, sent)
  BY <1>1, TypedCancel
<1>3. /\ cancelled' = cancelled \union {q0}
      /\ UNCHANGED <<value, range, noted, tracker, asked, answer, rolledBack, lost, crossed, replaced>>
  BY DEF Cancel, clpVars
<1>4. \A p \in DOMAIN sent : sent[p].kind = "anti"
  BY <1>1 DEF Anti
<1>5. UpdatesAreTrue' /\ RangesCover'
  <2>1. \A p \in DOMAIN sent : sent[p].kind # "update"
    BY <1>4
  <2>2. \A p \in {} \intersect Neighbours : Head(link[p]).kind # "update"
    OBVIOUS
  <2> QED
    BY <1>2, <1>3, <2>1, <2>2, RangesUntouched
<1>6. OwnRange'
  BY <1>3 DEF OwnRange
<1>7. \A q \in Valid' : q \in Valid
  BY <1>3 DEF Valid
<1>8. BlockedAreOutside'
  <2>1. \A q, c, p : IsNoted(q, c, p, TRUE)' => IsNoted(q, c, p, TRUE)
    BY <1>3 DEF IsNoted
  <2> QED
    BY <1>3, <1>7, <2>1, BlockedStay
<1>9. AnsweredWereAsked'
  BY <1>3 DEF AnsweredWereAsked
<1>10. ASSUME NEW q \in Valid' PROVE Sound(q)'
  <2>1. q \in Queries /\ Sound(q)
    BY <1>7 DEF Valid, Typed, Known, AllSound
  <2>2. Kept(q)
    <3>1. \A c \in Clps, p \in AllPorts, b \in BOOLEAN : IsNoted(q, c, p, b) => IsNoted(q, c, p, b)'
      BY <1>3 DEF IsNoted
    <3> QED
      BY <1>3, <2>1, <3>1, KeptWhereValuesStay
  <2>3. \A p \in DOMAIN sent : ~Is(sent[p], "query", q)
    BY <1>4 DEF Is
  <2>4. \A c \in Clps : q \in DOMAIN tracker'[c] => q \in DOMAIN tracker[c] /\ tracker'[c][q] = tracker[c][q]
    BY <1>3
  <2>5. answer'[q] = answer[q]
    BY <1>3
  <2> QED
    BY <1>2, <2>1, <2>2, <2>3, <2>4, <2>5, SoundElsewhere
<1>11. AllSound'
  BY <1>10 DEF AllSound
<1> QED
  BY <1>5, <1>6, <1>8, <1>9, <1>11

\* The port towards a CLP and that towards the agent.
LEMMA TowardUp ==
  ASSUME NEW q \in Queries, NEW c \in Clps, NEW h \in Clps
  PROVE  PortToward(c, h) = UpPort(q, c) <=> c # h /\ Up(q, c) = NextClp(c, h)
<1>1. UpPort(q, c) \in Ports /\ PortTo(c, Up(q, c)) = UpPort(q, c)
  BY UpFacts
<1>2. CASE c = h
  BY <1>1, <1>2 DEF PortToward, Ports
<1>3. CASE c # h
  <2>1. PortToward(c, h) = PortTo(c, NextClp(c, h))
    BY <1>3 DEF PortToward
  <2>2. RankOf(c, PortTo(c, NextClp(c, h))) = NextClp(c, h)
    BY <1>3, NextIsNeighbour, PortToNeighbour
  <2> QED
    BY <1>1, <1>3, <2>1, <2>2 DEF Up
<1> QED
  BY <1>2, <1>3

\* The reply that is left is the answer.
LEMMA SoundAlpReceive ==
  ASSUME Typed, SoundState, NEW r \in Alps, AlpReceive(r)
  PROVE  SoundState'
<1> USE DEF SoundState
<1> DEFINE c == AlpToClp[r]
           in == <<c, r>>
<1>1. in \in Neighbours /\ Moved(link, link', {in}, <<>>) /\ c \in Clps /\ r \notin Clps
  BY TypedAlpReceive, ClpTreeAssumption
<1>2. PICK m : m = Head(link[in])
  OBVIOUS
<1>3. /\ link[in] # <<>>
      /\ answer' = [answer EXCEPT ![m.query] = m.found]
      /\ UNCHANGED <<value, range, noted, tracker, asked, cancelled, rolledBack, lost, crossed, replaced>>
  BY <1>2 DEF AlpReceive, clpVars
<1>4. /\ m \in Messages /\ m \in ToSet(link[in]) /\ Allowed(in, m, asked, cancelled)
  BY <1>1, <1>2, <1>3, HeadOf
<1>5. m.kind # "update" /\ m.kind # "anti"
  BY <1>1, <1>4 DEF Allowed
<1>6. m \in QueryMessages /\ m.kind = "query"
  BY <1>4, <1>5, MessageKinds DEF Messages
<1>7. PICK q0 \in Queries : m.query = q0 /\ q0 \in asked /\ From[q0] = r
  BY <1>4, <1>6, MessageKinds DEF Allowed
<1>8. PICK sent : sent = <<>> /\ DOMAIN sent = {}
  BY EmptySeq, LenProperties
<1>9. Moved(link, link', {in}, sent)
  BY <1>1, <1>8
<1>10. UpdatesAreTrue' /\ RangesCover'
  <2>1. \A p \in {in} \intersect Neighbours : Head(link[p]).kind # "update"
    BY <1>2, <1>6
  <2>2. \A p \in DOMAIN sent : sent[p].kind # "update"
    BY <1>8
  <2> QED
    BY <1>3, <1>9, <2>1, <2>2, RangesUntouched
<1>11. OwnRange'
  BY <1>3 DEF OwnRange
<1>12. \A q \in Valid' : q \in Valid
  BY <1>3 DEF Valid
<1>13. BlockedAreOutside'
  <2>1. \A q, d, p : IsNoted(q, d, p, TRUE)' => IsNoted(q, d, p, TRUE)
    BY <1>3 DEF IsNoted
  <2> QED
    BY <1>3, <1>12, <2>1, BlockedStay
<1>14. /\ answer'[q0] = m.found /\ \A q \in Queries \ {q0} : answer'[q] = answer[q]
  BY <1>3, <1>7 DEF Typed, TypedState
<1>15. AnsweredWereAsked'
  BY <1>3, <1>7, <1>14 DEF AnsweredWereAsked
<1>16. ASSUME NEW q \in Valid' PROVE Sound(q)'
  <2>1. q \in Queries /\ Sound(q)
    BY <1>12 DEF Valid, Typed, Known, AllSound
  <2>2. Kept(q)
    <3>1. \A d \in Clps, p \in AllPorts, b \in BOOLEAN : IsNoted(q, d, p, b) => IsNoted(q, d, p, b)'
      BY <1>3 DEF IsNoted
    <3> QED
      BY <1>3, <2>1, <3>1, KeptWhereValuesStay
  <2>3. \A p \in DOMAIN sent : ~Is(sent[p], "query", q)
    BY <1>8
  <2>4. \A d \in Clps : q \in DOMAIN tracker'[d] => q \in DOMAIN tracker[d] /\ tracker'[d][q] = tracker[d][q]
    BY <1>3
  <2>5. CASE q # q0
    <3>1. answer'[q] = answer[q]
      BY <1>14, <2>1, <2>5
    <3> QED
      BY <1>9, <2>1, <2>2, <2>3, <2>4, <3>1, SoundElsewhere
  <2>6. CASE q = q0
    <3>1. Up(q0, c) = r
      BY <1>1, <1>7, UpFacts
    <3>2. Reported(q0, c, m.found)
      <4>1. m \in ToSet(link[<<c, Up(q0, c)>>]) /\ Is(m, "query", q0)
        BY <1>4, <1>6, <1>7, <3>1 DEF Is
      <4> QED
        BY <1>1, <2>1, <2>6, <4>1 DEF Sound
    <3>3. ASSUME NEW v \in Variables PROVE Settled(q0, v, m.found)'
      <4>1. Home[v] \in Clps
        BY RangeQueriesAssumption
      <4>2. PortToward(c, Home[v]) # UpPort(q0, c)
        <5>1. CASE c = Home[v]
          BY <1>1, <4>1, <5>1, TowardUp
        <5>2. CASE c # Home[v]
          <6>1. NextClp(c, Home[v]) \in Clps
            BY <1>1, <4>1, <5>2, NextIsNeighbour
          <6> QED
            BY <1>1, <3>1, <4>1, <6>1, TowardUp
        <5> QED
          BY <5>1, <5>2
      <4>3. Settled(q0, v, m.found)
        BY <3>2, <4>2 DEF Reported
      <4> QED
        BY <2>2, <2>6, <4>3 DEF Kept
    <3>4. \A S : S = answer'[q] /\ S # NoAnswer => S = answer[q] \/ \A v \in Variables : Settled(q, v, S)'
      BY <1>14, <2>6, <3>3
    <3>5. \A d \in Clps : \A n \in ToSet(link'[<<d, Up(q, d)>>]) : Is(n, "query", q) =>
            n \in ToSet(link[<<d, Up(q, d)>>]) \/ Reported(q, d, n.found)'
      <4> SUFFICES ASSUME NEW d \in Clps, NEW n \in ToSet(link'[<<d, Up(q, d)>>])
                   PROVE  n \in ToSet(link[<<d, Up(q, d)>>])
        OBVIOUS
      <4>1. <<d, Up(q, d)>> \in Neighbours
        BY <2>1, UpFacts
      <4> QED
        BY <1>8, <1>9, <4>1, MovedMembers
    <3>6. \A d \in Clps : \A e : q \in DOMAIN tracker'[d] /\ e = tracker'[d][q] =>
            (q \in DOMAIN tracker[d] /\ e = tracker[d][q]) \/ Gathered(q, d, e)'
      BY <2>4
    <3> QED
      BY <2>1, <2>2, <3>4, <3>5, <3>6, SoundStays
  <2> QED
    BY <2>5, <2>6
<1>17. AllSound'
  BY <1>16 DEF AllSound
<1> QED
  BY <1>10, <1>11, <1>13, <1>15, <1>17

\* An anti-message makes CLPs forget a query that was cancelled.
LEMMA SoundFollow ==
  ASSUME Typed, SoundState, NEW pair \in IntoClp, Follow(pair[1], pair[2])
  PROVE  SoundState'
<1> USE DEF SoundState
<1>1. PICK q0 \in Queries : \E onward, sent : Forgotten(pair, q0, onward, sent)
  BY FollowEffect
<1>2. PICK onward, sent : Forgotten(pair, q0, onward, sent)
  BY <1>1
<1>3. UNCHANGED <<value, range, tracker, asked, cancelled, answer, rolledBack, lost, crossed, replaced>>
  BY DEF Follow, agentVars
<1>4. /\ Moved(link, link', {pair}, sent) /\ q0 \in cancelled /\ Is(Head(link[pair]), "anti", q0)
      /\ \A p \in DOMAIN sent : sent[p] = Anti(q0)
      /\ \A d \in Clps \ {pair[2]} : noted'[d] = noted[d]
      /\ \A p \in AllPorts :
           /\ ToSet(noted'[pair[2]][p]) \subseteq ToSet(noted[pair[2]][p])
           /\ \A e \in ToSet(noted[pair[2]][p]) : e.query # q0 => e \in ToSet(noted'[pair[2]][p])
  BY <1>2 DEF Forgotten
<1>5. \A p \in DOMAIN sent : sent[p].kind = "anti"
  BY <1>4 DEF Anti
<1>6. UpdatesAreTrue' /\ RangesCover'
  <2>1. \A p \in {pair} \intersect Neighbours : Head(link[p]).kind # "update"
    BY <1>4 DEF Is
  <2>2. \A p \in DOMAIN sent : sent[p].kind # "update"
    BY <1>5
  <2> QED
    BY <1>3, <1>4, <2>1, <2>2, RangesUntouched
<1>7. OwnRange'
  BY <1>3 DEF OwnRange
<1>8. \A q \in Valid' : q \in Valid /\ q # q0
  BY <1>3, <1>4 DEF Valid
<1>9. \A q, b : \A d \in Clps, p \in AllPorts : IsNoted(q, d, p, b)' => IsNoted(q, d, p, b)
  BY <1>4 DEF IsNoted
<1>10. BlockedAreOutside'
  <2>1. \A q \in Valid', d \in Clps : \A p \in Ports :
          IsNoted(q, d, p, TRUE)' => q \in Valid /\ IsNoted(q, d, p, TRUE)
    BY <1>8, <1>9 DEF AllPorts
  <2> QED
    BY <1>3, <2>1, BlockedStay
<1>11. AnsweredWereAsked'
  BY <1>3 DEF AnsweredWereAsked
<1>12. ASSUME NEW q \in Valid' PROVE Sound(q)'
  <2>1. q \in Queries /\ Sound(q)
    BY <1>8 DEF Valid, Typed, Known, AllSound
  <2>2. Kept(q)
    <3>1. ASSUME NEW d \in Clps, NEW p \in AllPorts, NEW b \in BOOLEAN, IsNoted(q, d, p, b)
          PROVE  IsNoted(q, d, p, b)'
      <4>1. PICK e : e = [query |-> q, blocked |-> b]
        OBVIOUS
      <4>2. e \in ToSet(noted[d][p]) /\ e.query # q0
        BY <1>8, <3>1, <4>1 DEF IsNoted
      <4>3. e \in ToSet(noted'[d][p])
        BY <1>4, <4>2
      <4> QED
        BY <4>1, <4>3 DEF IsNoted
    <3> QED
      BY <1>3, <2>1, <3>1, KeptWhereValuesStay
  <2>3. \A p \in DOMAIN sent : ~Is(sent[p], "query", q)
    BY <1>5 DEF Is
  <2>4. \A d \in Clps : q \in DOMAIN tracker'[d] => q \in DOMAIN tracker[d] /\ tracker'[d][q] = tracker[d][q]
    BY <1>3
  <2>5. answer'[q] = answer[q]
    BY <1>3
  <2> QED
    BY <1>4, <2>1, <2>2, <2>3, <2>4, <2>5, SoundElsewhere
<1>13. AllSound'
  BY <1>12 DEF AllSound
<1> QED
  BY <1>6, <1>7, <1>10, <1>11, <1>13

\* A change rolls back the queries that were told or would be told something else.
LEMMA SoundChange ==
  ASSUME Typed, SoundState, NEW v \in Variables, NEW new \in Values[v], Change(v, new)
  PROVE  SoundState'
<1> USE DEF SoundState
<1>1. PICK c \in Clps : c = Home[v]
  BY RangeQueriesAssumption
<1>2. PICK sent : Updated({}, sent) /\ Announced(c, "HERE", sent)
  BY <1>1, ChangeEffect
<1>3. /\ value' = [value EXCEPT ![v] = new] \/ value' = value
      /\ range' = [range EXCEPT ![c]["HERE"] = RangeOf(Points(c, value'))]
      /\ SendRollbacks(noted[c]["HERE"], RolledBackByChange(noted[c]["HERE"], value[v], new))
      /\ UNCHANGED <<noted, tracker, asked, cancelled, answer, crossed>>
  BY <1>1 DEF Change, agentVars
<1>4. OwnRange' /\ UpdatesAreTrue' /\ RangesCover'
  BY ChangeRanges
<1>5. \A q \in Valid' : q \in Valid /\ q \notin RolledBackByChange(noted[c]["HERE"], value[v], new)
  BY <1>3, SentOrLost DEF Valid
<1>6. BlockedAreOutside'
  <2> SUFFICES ASSUME NEW q \in Valid', NEW d \in Clps, NEW p \in Ports, IsNoted(q, d, p, TRUE)'
               PROVE  ~Overlaps(range'[d][p], Rectangle[q]) /\ ~Cross(range'[d][p], Rectangle[q])
    BY DEF BlockedAreOutside
  <2>1. IsNoted(q, d, p, TRUE)
    BY <1>3 DEF IsNoted
  <2>2. range'[d][p] = range[d][p]
    <3>1. PICK box : box = RangeOf(Points(c, value'))
      OBVIOUS
    <3>2. range' = [range EXCEPT ![c]["HERE"] = box] /\ p # "HERE" /\ p \in AllPorts
      BY <1>3, <3>1 DEF Ports, AllPorts
    <3> QED
      BY <3>2 DEF Typed, TypedState
  <2>3. ~Overlaps(range[d][p], Rectangle[q]) /\ ~Cross(range[d][p], Rectangle[q])
    BY <1>5, <2>1 DEF BlockedAreOutside
  <2> QED
    BY <2>2, <2>3
<1>7. AnsweredWereAsked'
  BY <1>3 DEF AnsweredWereAsked
<1>8. ASSUME NEW q \in Valid' PROVE Sound(q)'
  <2>1. q \in Queries /\ Sound(q)
    BY <1>5 DEF Valid, Typed, Known, AllSound
  <2>2. Kept(q)
    <3> SUFFICES ASSUME NEW w \in Variables, NEW S, Settled(q, w, S) PROVE Settled(q, w, S)'
      BY DEF Kept
    <3>1. CASE (\E b \in BOOLEAN : IsNoted(q, Home[w], "HERE", b)) /\ About(S, w) = Now(q, w)
      <4>1. PICK b \in BOOLEAN : IsNoted(q, Home[w], "HERE", b)
        BY <3>1
      <4>2. IsNoted(q, Home[w], "HERE", b)'
        BY <1>3, <4>1 DEF IsNoted
      <4>3. Now(q, w)' = Now(q, w)
        <5>1. CASE w # v
          <6>1. value'[w] = value[w]
            BY <1>3, <5>1, ChangedValue
          <6> QED
            BY <6>1 DEF Now
        <5>2. CASE w = v
          <6>1. PICK e : e = [query |-> q, blocked |-> b]
            OBVIOUS
          <6>2. e \in ToSet(noted[c]["HERE"]) /\ e.query = q
            BY <1>1, <4>1, <5>2, <6>1 DEF IsNoted
          <6>3. ~IsValueOverlapping(Rectangle[q], value[v]) /\ ~IsValueOverlapping(Rectangle[q], new)
            BY <1>5, <6>2 DEF RolledBackByChange
          <6>4. value'[v] \in {value[v], new}
            BY <1>3, ChangedValue
          <6> QED
            BY <5>2, <6>3, <6>4 DEF Now
        <5> QED
          BY <5>1, <5>2
      <4> QED
        BY <3>1, <4>2, <4>3 DEF Settled
    <3>2. CASE /\ About(S, w) = {}
               /\ \E d \in Clps \ {Home[w]} : /\ PortToward(d, Home[w]) # UpPort(q, d)
                                              /\ IsNoted(q, d, PortToward(d, Home[w]), TRUE)
      <4>1. PICK d \in Clps \ {Home[w]} : /\ PortToward(d, Home[w]) # UpPort(q, d)
                                          /\ IsNoted(q, d, PortToward(d, Home[w]), TRUE)
        BY <3>2
      <4>2. IsNoted(q, d, PortToward(d, Home[w]), TRUE)'
        BY <1>3, <4>1 DEF IsNoted
      <4> QED
        BY <3>2, <4>1, <4>2 DEF Settled
    <3> QED
      BY <3>1, <3>2 DEF Settled
  <2>3. \A p \in DOMAIN sent : ~Is(sent[p], "query", q)
    BY <1>2, MessageKinds DEF Updated, Is, UpdateMessages
  <2>4. \A d \in Clps : q \in DOMAIN tracker'[d] => q \in DOMAIN tracker[d] /\ tracker'[d][q] = tracker[d][q]
    BY <1>3
  <2>5. answer'[q] = answer[q]
    BY <1>3
  <2>6. Moved(link, link', {}, sent)
    BY <1>2 DEF Updated
  <2> QED
    BY <2>1, <2>2, <2>3, <2>4, <2>5, <2>6, SoundElsewhere
<1>9. AllSound'
  BY <1>8 DEF AllSound
<1> QED
  BY <1>4, <1>6, <1>7, <1>9

\* An update rolls back the queries that were blocked and should not have been.
LEMMA SoundLearn ==
  ASSUME Typed, SoundState, NEW pair \in IntoClp, Learn(pair[1], pair[2])
  PROVE  SoundState'
<1> USE DEF SoundState
<1> DEFINE c == pair[2]
           port == InPort(pair)
<1>1. PICK m : m = Head(link[pair])
  OBVIOUS
<1>2. /\ range'[c][port] = m.range /\ ElsewhereSame(c, port)
      /\ SendRollbacks(noted[c][port], RolledBackByUpdate(noted[c][port], m.range))
      /\ crossed' = crossed \union {e.query : e \in {e \in ToSet(noted[c][port]) :
                                                  Cross(m.range, Rectangle[e.query])}}
      /\ UNCHANGED <<value, noted, tracker, asked, cancelled, answer>>
  BY <1>1, LearnIs
<1>3. PICK sent : Updated({pair}, sent)
  BY LearnEffect
<1>4. OwnRange' /\ UpdatesAreTrue' /\ RangesCover'
  BY LearnRanges
<1>5. \A q \in Valid' : /\ q \in Valid /\ q \notin crossed'
                        /\ q \notin RolledBackByUpdate(noted[c][port], m.range)
  BY <1>2, SentOrLost DEF Valid
<1> HIDE DEF c, port
<1>6. BlockedAreOutside'
  <2> SUFFICES ASSUME NEW q \in Valid', NEW d \in Clps, NEW p \in Ports, IsNoted(q, d, p, TRUE)'
               PROVE  ~Overlaps(range'[d][p], Rectangle[q]) /\ ~Cross(range'[d][p], Rectangle[q])
    BY DEF BlockedAreOutside
  <2>1. IsNoted(q, d, p, TRUE)
    BY <1>2 DEF IsNoted
  <2>2. CASE d # c \/ p # port
    <3>1. range'[d][p] = range[d][p]
      BY <1>2, <2>2 DEF ElsewhereSame, AllPorts
    <3>2. ~Overlaps(range[d][p], Rectangle[q]) /\ ~Cross(range[d][p], Rectangle[q])
      BY <1>5, <2>1 DEF BlockedAreOutside
    <3> QED
      BY <3>1, <3>2
  <2>3. CASE d = c /\ p = port
    <3>1. PICK e : e = [query |-> q, blocked |-> TRUE]
      OBVIOUS
    <3>2. e \in ToSet(noted[c][port]) /\ e.query = q /\ e.blocked
      BY <2>1, <2>3, <3>1 DEF IsNoted
    <3>3. ~Overlaps(m.range, Rectangle[q])
      BY <1>2, <1>5, <3>2 DEF RolledBackByUpdate
    <3>4. ~Cross(m.range, Rectangle[q])
      BY <1>2, <1>5, <3>2
    <3> QED
      BY <1>2, <2>3, <3>3, <3>4
  <2> QED
    BY <2>2, <2>3
<1>7. AnsweredWereAsked'
  BY <1>2 DEF AnsweredWereAsked
<1>8. ASSUME NEW q \in Valid' PROVE Sound(q)'
  <2>1. q \in Queries /\ Sound(q)
    BY <1>5 DEF Valid, Typed, Known, AllSound
  <2>2. Kept(q)
    <3>1. \A d \in Clps, p \in AllPorts, b \in BOOLEAN : IsNoted(q, d, p, b) => IsNoted(q, d, p, b)'
      BY <1>2 DEF IsNoted
    <3> QED
      BY <1>2, <2>1, <3>1, KeptWhereValuesStay
  <2>3. \A p \in DOMAIN sent : ~Is(sent[p], "query", q)
    BY <1>3, MessageKinds DEF Updated, Is, UpdateMessages
  <2>4. \A d \in Clps : q \in DOMAIN tracker'[d] => q \in DOMAIN tracker[d] /\ tracker'[d][q] = tracker[d][q]
    BY <1>2
  <2>5. answer'[q] = answer[q]
    BY <1>2
  <2>6. Moved(link, link', {pair}, sent)
    BY <1>3 DEF Updated
  <2> QED
    BY <2>1, <2>2, <2>3, <2>4, <2>5, <2>6, SoundElsewhere
<1>9. AllSound'
  BY <1>8 DEF AllSound
<1> QED
  BY <1>4, <1>6, <1>7, <1>9

\* No point is left out of the range at HERE.
LEMMA HereIsAround ==
  ASSUME Typed, OwnRange, NEW v \in Variables, NEW c, c = Home[v]
  PROVE  /\ range[c]["HERE"] \in Ranges /\ range[c]["HERE"] # NoRange
         /\ value[v] \in Pairs /\ IsValueOverlapping(range[c]["HERE"], value[v])
<1>1. c \in Clps /\ IsFiniteSet(Variables)
  BY RangeQueriesAssumption
<1>2. value \in [Variables -> Pairs]
  BY DEF Typed, TypedState
<1> DEFINE S == {w \in Variables : Home[w] = c}
<1>3. IsFiniteSet(S)
  BY <1>1, FS_Subset
<1>4. Points(c, value) \in SUBSET Pairs /\ value[v] \in Points(c, value)
  BY <1>2 DEF Points
<1>5. IsFiniteSet(Points(c, value))
  <2> DEFINE f == [w \in S |-> value[w]]
  <2>1. DOMAIN f = S /\ \A w \in S : f[w] = value[w]
    OBVIOUS
  <2> HIDE DEF f
  <2>2. IsFiniteSet({f[w] : w \in DOMAIN f})
    BY <1>3, <2>1, FiniteImage
  <2>3. {f[w] : w \in DOMAIN f} = Points(c, value)
    BY <2>1 DEF Points
  <2> QED
    BY <2>2, <2>3
<1>6. range[c]["HERE"] = RangeOf(Points(c, value))
  BY <1>1 DEF OwnRange
<1>7. /\ RangeOf(Points(c, value)) \in Ranges /\ RangeOf(Points(c, value)) # NoRange
      /\ IsValueOverlapping(RangeOf(Points(c, value)), value[v])
  BY <1>4, <1>5, RangeOfPoints
<1> QED
  BY <1>2, <1>6, <1>7

\* What a CLP finds is right about its own variables, and nothing about the others.
LEMMA VisitFound ==
  ASSUME Typed, OwnRange, NEW pair \in IntoClp, FirstVisit(pair[1], pair[2]), NEW q \in Queries,
         Is(Head(link[pair]), "query", q), q \notin crossed', NEW c, c = pair[2],
         NEW F, F = FoundHere(c, q), NEW away, away = Open(c, q) \ {"HERE"}, NEW v \in Variables
  PROVE  /\ PortToward(c, Home[v]) \in away \union {UpPort(q, c)} => About(F, v) = {}
         /\ PortToward(c, Home[v]) \notin away \union {UpPort(q, c)} => Settled(q, v, F)'
<1>1. PICK h \in Clps : h = Home[v]
  BY RangeQueriesAssumption
<1>2. PICK t : t = PortToward(c, h)
  OBVIOUS
<1>3. c \in Clps /\ UpPort(q, c) \in Ports /\ UpPort(q, c) # "HERE"
  <2>1. c \in Clps
    BY ReceiverPort
  <2> QED
    BY <2>1, UpFacts DEF Ports
<1>4. t \in ClpPorts(c) \union {"HERE"} /\ t \in AllPorts /\ (t = "HERE" <=> c = h) /\ (t # "HERE" => t \in Ports)
  BY <1>2, <1>3, TowardFacts
<1>5. /\ NotedOnVisit(c, q) /\ value' = value
      /\ ~\E p \in TargetPorts(c, q) : Cross(range[c][p], Rectangle[q])
  BY VisitTells
<1>6. t \in TargetPorts(c, q) <=> t # UpPort(q, c)
  BY <1>4 DEF TargetPorts, UpPort
<1>7. ASSUME NEW b \in BOOLEAN, b = (t \notin Open(c, q)), t # UpPort(q, c) PROVE IsNoted(q, c, t, b)'
  <2>1. ToSet(noted'[c][t]) = ToSet(noted[c][t]) \union {[query |-> q, blocked |-> t \notin Open(c, q)]}
    BY <1>4, <1>5, <1>6, <1>7 DEF NotedOnVisit
  <2>2. [query |-> q, blocked |-> b] \in ToSet(noted'[c][t])
    BY <1>7, <2>1
  <2> QED
    BY <2>2 DEF IsNoted
<1>8. ASSUME c # h PROVE About(F, v) = {}
  <2>1. \A f \in RangeRead(c, q) : Home[f[1]] = c
    BY DEF RangeRead
  <2> QED
    BY <1>1, <1>8, <2>1 DEF About, FoundHere
<1>9. ASSUME t \in away \union {UpPort(q, c)} PROVE About(F, v) = {}
  BY <1>3, <1>4, <1>8, <1>9
<1>10. ASSUME t \notin away, t # UpPort(q, c), c = h PROVE Settled(q, v, F)'
  <2>1. PICK b \in BOOLEAN : b = (t \notin Open(c, q))
    OBVIOUS
  <2>2. IsNoted(q, h, "HERE", b)'
    BY <1>4, <1>7, <1>10, <2>1
  <2>3. About(F, v) = Now(q, v)
    <3>1. CASE "HERE" \in Open(c, q)
      <4>1. F = RangeRead(c, q)
        BY <3>1 DEF FoundHere
      <4> QED
        BY <1>1, <1>10, <4>1 DEF About, RangeRead, Now
    <3>2. CASE "HERE" \notin Open(c, q)
      <4>1. F = {}
        BY <3>2 DEF FoundHere
      <4>2. "HERE" \in TargetPorts(c, q)
        BY <1>4, <1>6, <1>10
      <4>3. PICK r : r = range[c]["HERE"]
        OBVIOUS
      <4>4. ~Overlaps(r, Rectangle[q]) /\ ~Cross(r, Rectangle[q])
        BY <1>5, <3>2, <4>2, <4>3 DEF Open
      <4>5. /\ r \in Ranges
            /\ value[v] \in Pairs /\ IsValueOverlapping(r, value[v])
        BY <1>1, <1>10, <4>3, HereIsAround
      <4>6. Within(r, r)
        BY <4>5, WithinFacts
      <4>7. ~IsValueOverlapping(Rectangle[q], value[v])
        BY <4>4, <4>5, <4>6, OutsideOf
      <4> QED
        BY <4>1, <4>7 DEF About, Now
    <3> QED
      BY <3>1, <3>2
  <2>4. About(F, v) = Now(q, v)'
    BY <1>5, <2>3 DEF Now
  <2> QED
    BY <1>1, <2>2, <2>4 DEF Settled
<1>11. ASSUME t \notin away, t # UpPort(q, c), c # h PROVE Settled(q, v, F)'
  <2>1. t \notin Open(c, q)
    BY <1>4, <1>11
  <2>2. IsNoted(q, c, PortToward(c, h), TRUE)'
    BY <1>2, <1>7, <1>11, <2>1
  <2>3. PortToward(c, h) # UpPort(q, c)
    BY <1>2, <1>11
  <2>4. About(F, v) = {}
    BY <1>8, <1>11
  <2> QED
    BY <1>1, <1>3, <1>11, <2>2, <2>3, <2>4 DEF Settled
<1> QED
  BY <1>1, <1>2, <1>9, <1>10, <1>11

\* A CLP that sends a query on through its other ports sends nothing towards the agent.
LEMMA NotUp ==
  ASSUME NEW q \in Queries, NEW c \in Clps, NEW away \in SUBSET (ClpPorts(c) \ {UpPort(q, c)}), NEW d \in Clps
  PROVE  <<d, Up(q, d)>> \notin {<<c, RankOf(c, p)>> : p \in away}
<1> SUFFICES ASSUME NEW p \in away, <<d, Up(q, d)>> = <<c, RankOf(c, p)>> PROVE FALSE
  OBVIOUS
<1>1. PortTo(c, RankOf(c, p)) = p
  BY ZenonT(60), DownPort
<1>2. PortTo(c, Up(q, c)) = UpPort(q, c)
  BY UpFacts
<1> QED
  BY <1>1, <1>2

\* What is noted when a query comes for the first time.
LEMMA VisitKeeps ==
  ASSUME Typed, BlockedAreOutside, NEW c \in Clps, NEW q0 \in Queries, NotedOnVisit(c, q0), range' = range,
         (\E p \in TargetPorts(c, q0) : Cross(range[c][p], Rectangle[q0])) => q0 \in crossed',
         \A q \in Valid' : q \in Valid /\ q \notin crossed'
  PROVE  /\ \A q, b : \A d \in Clps, p \in AllPorts : IsNoted(q, d, p, b) => IsNoted(q, d, p, b)'
         /\ BlockedAreOutside'
<1>1. \A q, b : \A d \in Clps, p \in AllPorts : IsNoted(q, d, p, b) => IsNoted(q, d, p, b)'
  <2> SUFFICES ASSUME NEW q, NEW b, NEW d \in Clps, NEW p \in AllPorts, IsNoted(q, d, p, b)
               PROVE  IsNoted(q, d, p, b)'
    OBVIOUS
  <2>1. ToSet(noted[d][p]) \subseteq ToSet(noted'[d][p])
    <3>1. CASE d = c
      BY <3>1 DEF NotedOnVisit
    <3>2. CASE d # c
      BY <3>2 DEF NotedOnVisit
    <3> QED
      BY <3>1, <3>2
  <2> QED
    BY <2>1 DEF IsNoted
<1>2. BlockedAreOutside'
  <2> SUFFICES ASSUME NEW q \in Valid', NEW d \in Clps, NEW p \in Ports, IsNoted(q, d, p, TRUE)'
               PROVE  ~Overlaps(range'[d][p], Rectangle[q]) /\ ~Cross(range'[d][p], Rectangle[q])
    BY DEF BlockedAreOutside
  <2>1. CASE IsNoted(q, d, p, TRUE)
    <3>1. ~Overlaps(range[d][p], Rectangle[q]) /\ ~Cross(range[d][p], Rectangle[q])
      BY <2>1 DEF BlockedAreOutside
    <3> QED
      BY <3>1
  <2>2. CASE ~IsNoted(q, d, p, TRUE)
    <3>1. PICK e : e = [query |-> q, blocked |-> TRUE]
      OBVIOUS
    <3>2. e \in ToSet(noted'[d][p]) /\ e \notin ToSet(noted[d][p]) /\ p \in AllPorts
      BY <2>2, <3>1 DEF IsNoted, AllPorts
    <3>3. d = c
      BY <3>2 DEF NotedOnVisit
    <3>4. p \in TargetPorts(c, q0) /\ e = [query |-> q0, blocked |-> p \notin Open(c, q0)]
      BY <3>2, <3>3 DEF NotedOnVisit
    <3>5. q = q0 /\ p \notin Open(c, q0)
      <4>1. e.query = q0 /\ e.blocked = (p \notin Open(c, q0))
        BY <3>4
      <4>2. e.query = q /\ e.blocked
        BY <3>1
      <4> QED
        BY <4>1, <4>2
    <3>6. ~Overlaps(range[c][p], Rectangle[q])
      BY <3>4, <3>5 DEF Open
    <3>7. ~Cross(range[c][p], Rectangle[q])
      BY <3>4, <3>5
    <3> QED
      BY <3>3, <3>6, <3>7
  <2> QED
    BY <2>1, <2>2
<1> QED
  BY <1>1, <1>2

\* A CLP that passes a query on has found what is right.
LEMMA SoundVisit ==
  ASSUME Typed, Once, SoundState, NEW pair \in IntoClp, FirstVisit(pair[1], pair[2])
  PROVE  SoundState'
<1> USE DEF SoundState
<1>1. PICK c \in Clps : c = pair[2]
  BY ReceiverPort
<1>2. PICK q0 \in Queries : \E away, sent : Visited(pair, q0, away, sent) /\ away = Open(c, q0) \ {"HERE"}
  BY <1>1, VisitEffect
<1>3. PICK away, sent : Visited(pair, q0, away, sent) /\ away = Open(c, q0) \ {"HERE"}
  BY <1>2
<1>4. /\ Is(Head(link[pair]), "query", q0)
      /\ away \in SUBSET (ClpPorts(c) \ {UpPort(q0, c)})
      /\ Moved(link, link', {pair}, sent) /\ Tracked(c, q0, away)
      /\ \A p \in DOMAIN sent : Is(sent[p], "query", q0)
      /\ DOMAIN sent = IF away = {} THEN {<<c, Up(q0, c)>>} ELSE {<<c, RankOf(c, p)>> : p \in away}
  BY <1>1, <1>3 DEF Visited, Passed
<1>5. PICK F : F = FoundHere(c, q0)
  OBVIOUS
<1>6. /\ away = {} => link'[<<c, Up(q0, c)>>] = Append(link[<<c, Up(q0, c)>>], Query(q0, F))
      /\ away # {} => tracker'[c][q0].outstanding = away /\ tracker'[c][q0].found = F
      /\ NotedOnVisit(c, q0)
      /\ (\E p \in TargetPorts(c, q0) : Cross(range[c][p], Rectangle[q0])) => q0 \in crossed'
      /\ crossed \subseteq crossed'
      /\ UNCHANGED <<value, range, changes, asked, cancelled, answer, rolledBack, lost, replaced, misled>>
  BY <1>1, <1>3, <1>4, <1>5, VisitTells
<1>7. UpdatesAreTrue' /\ RangesCover'
  <2>1. \A p \in {pair} \intersect Neighbours : Head(link[p]).kind # "update"
    BY <1>4 DEF Is
  <2>2. \A p \in DOMAIN sent : sent[p].kind # "update"
    BY <1>4 DEF Is
  <2> QED
    BY <1>4, <1>6, <2>1, <2>2, RangesUntouched
<1>8. OwnRange'
  BY <1>6 DEF OwnRange
<1>9. \A q \in Valid' : q \in Valid /\ q \notin crossed'
  BY <1>6 DEF Valid
<1>10. /\ \A q, b : \A d \in Clps, p \in AllPorts : IsNoted(q, d, p, b) => IsNoted(q, d, p, b)'
       /\ BlockedAreOutside'
  BY <1>6, <1>9, VisitKeeps
<1>11. AnsweredWereAsked'
  BY <1>6 DEF AnsweredWereAsked
<1>12. ASSUME NEW q \in Valid' PROVE Sound(q)'
  <2>1. q \in Queries /\ Sound(q)
    BY <1>9 DEF Valid, Typed, Known, AllSound
  <2>2. Kept(q)
    BY <1>6, <1>10, <2>1, KeptWhereValuesStay
  <2>3. CASE q # q0
    <3>1. \A p \in DOMAIN sent : ~Is(sent[p], "query", q)
      BY <1>4, <2>3 DEF Is
    <3>2. \A d \in Clps : q \in DOMAIN tracker'[d] => q \in DOMAIN tracker[d] /\ tracker'[d][q] = tracker[d][q]
      BY <1>4, <2>1, <2>3 DEF Tracked
    <3>3. answer'[q] = answer[q]
      BY <1>6
    <3> QED
      BY <1>4, <2>1, <2>2, <3>1, <3>2, <3>3, SoundElsewhere
  <2>4. CASE q = q0
    <3>1. ASSUME NEW v \in Variables
          PROVE  /\ PortToward(c, Home[v]) \in away \union {UpPort(q0, c)} => About(F, v) = {}
                 /\ PortToward(c, Home[v]) \notin away \union {UpPort(q0, c)} => Settled(q0, v, F)'
      <4>1. q0 \notin crossed'
        BY <1>9, <2>4
      <4> QED
        BY <1>1, <1>3, <1>4, <1>5, <4>1, VisitFound
    <3>2. ASSUME NEW d \in Clps, NEW e, q0 \in DOMAIN tracker'[d], e = tracker'[d][q0]
          PROVE  (q0 \in DOMAIN tracker[d] /\ e = tracker[d][q0]) \/ Gathered(q0, d, e)'
      <4>1. CASE d # c
        BY <1>4, <3>2, <4>1 DEF Tracked
      <4>2. CASE d = c
        <5>1. away # {}
          BY <1>4, <3>2, <4>2 DEF Tracked
        <5>2. e.outstanding = away /\ e.found = F
          BY <1>6, <3>2, <4>2, <5>1
        <5>3. ASSUME NEW v \in Variables
              PROVE  IF PortToward(c, Home[v]) \in e.outstanding \union {UpPort(q0, c)}
                     THEN About(e.found, v) = {} ELSE Settled(q0, v, e.found)'
          <6>1. PICK G : G = e.found
            OBVIOUS
          <6>2. G = F
            BY <5>2, <6>1
          <6> QED
            BY <3>1, <5>2
        <5> QED
          BY <4>2, <5>3 DEF Gathered
      <4> QED
        BY <4>1, <4>2
    <3>3. ASSUME NEW d \in Clps, NEW m \in ToSet(link'[<<d, Up(q0, d)>>]), Is(m, "query", q0)
          PROVE  m \in ToSet(link[<<d, Up(q0, d)>>]) \/ Reported(q0, d, m.found)'
      <4>1. PICK out \in Neighbours : out = <<d, Up(q0, d)>>
        BY UpFacts
      <4>2. m \in ToSet(link[out]) \/ out \in DOMAIN sent
        BY <1>4, <3>3, <4>1, MovedMembers
      <4>3. CASE out \in DOMAIN sent
        <5>1. away = {} /\ d = c
          BY <1>4, <4>1, <4>3, NotUp
        <5>2. link'[out] = Append(link[out], Query(q0, F))
          BY <1>6, <4>1, <5>1
        <5>3. link[out] \in Seq(Messages) /\ Query(q0, F) \in Messages
          <6>1. link'[out] = Append(link[out], sent[out]) /\ sent[out] \in Messages
            BY <1>4, <4>3 DEF Moved
          <6>2. link[out] \in Seq(Messages)
            BY DEF Typed, TypedState
          <6>3. Query(q0, F) = sent[out]
            <7>1. PICK y : y = Query(q0, F)
              OBVIOUS
            <7>2. PICK z : z = sent[out]
              OBVIOUS
            <7>3. Append(link[out], y) = Append(link[out], z)
              BY <5>2, <6>1, <7>1, <7>2
            <7>4. /\ Append(link[out], y)[Len(link[out]) + 1] = y
                  /\ Append(link[out], z)[Len(link[out]) + 1] = z
              BY <6>2
            <7> QED
              BY <7>1, <7>2, <7>3, <7>4
          <6> QED
            BY <6>1, <6>2, <6>3
        <5>4. m \in ToSet(link[out]) \/ m = Query(q0, F)
          <6>1. PICK y \in Messages : y = Query(q0, F)
            BY <5>3
          <6>2. ToSet(Append(link[out], y)) = ToSet(link[out]) \union {y}
            BY <5>3, AppendFacts
          <6> QED
            BY <3>3, <4>1, <5>2, <6>1, <6>2
        <5>5. CASE m = Query(q0, F)
          <6>1. m.found = F
            BY <5>5 DEF Query
          <6>2. ASSUME NEW v \in Variables
                PROVE  IF PortToward(c, Home[v]) = UpPort(q0, c)
                       THEN About(m.found, v) = {} ELSE Settled(q0, v, m.found)'
            BY <3>1, <5>1, <6>1
          <6> QED
            BY <5>1, <6>2 DEF Reported
        <5> QED
          BY <4>1, <5>4, <5>5
      <4> QED
        BY <4>1, <4>2, <4>3
    <3>4. \A S : S = answer'[q] /\ S # NoAnswer => S = answer[q] \/ \A v \in Variables : Settled(q, v, S)'
      BY <1>6
    <3> QED
      BY <2>1, <2>2, <2>4, <3>2, <3>3, <3>4, SoundStays
  <2> QED
    BY <2>3, <2>4
<1>13. AllSound'
  BY <1>12 DEF AllSound
<1> QED
  BY <1>7, <1>8, <1>10, <1>11, <1>13

\* A reply says what is right about the variables in its direction, and nothing about
\* the others.
LEMMA ReplyFound ==
  ASSUME Typed, Once, NEW pair \in IntoClp, link[pair] # <<>>, NEW q \in Queries, Sound(q),
         Is(Head(link[pair]), "query", q), NEW c, c = pair[2], q \in DOMAIN tracker[c],
         NEW F, F = tracker[c][q].found \union Head(link[pair]).found,
         NEW out, out = tracker[c][q].outstanding \ {InPort(pair)}, NEW v \in Variables
  PROVE  /\ PortToward(c, Home[v]) \in out \union {UpPort(q, c)} => About(F, v) = {}
         /\ PortToward(c, Home[v]) \notin out \union {UpPort(q, c)} => Settled(q, v, F)
<1>1. PICK h \in Clps : h = Home[v]
  BY RangeQueriesAssumption
<1>2. PICK x \in Clps : x = pair[1]
  BY ReplySender
<1>3. pair = <<x, c>> /\ pair \in Neighbours /\ c \in Clps /\ c = Up(q, x) /\ pair \in ClpPairs
  <2>1. pair[1] \in Clps /\ pair[2] = Up(q, pair[1])
    BY ReplySender
  <2>2. pair \in Neighbours /\ c \in Clps
    BY ReceiverPort
  <2>3. pair = <<pair[1], pair[2]>>
    BY <2>2, NeighbourKinds
  <2>4. pair = <<x, c>>
    BY <1>2, <2>3
  <2> QED
    BY <1>2, <2>1, <2>2, <2>4 DEF ClpPairs
<1>4. PICK m : m = Head(link[pair])
  OBVIOUS
<1>5. m \in ToSet(link[<<x, Up(q, x)>>]) /\ Is(m, "query", q)
  BY <1>3, <1>4, HeadOf
<1>6. PICK e : e = tracker[c][q]
  OBVIOUS
<1>7. PICK t : t = PortToward(c, h)
  OBVIOUS
<1>8. IF t \in e.outstanding \union {UpPort(q, c)} THEN About(e.found, v) = {} ELSE Settled(q, v, e.found)
  <2>1. Gathered(q, c, e)
    BY <1>3, <1>6 DEF Sound
  <2> QED
    BY <1>1, <1>7, <2>1 DEF Gathered
<1>9. IF PortToward(x, h) = UpPort(q, x) THEN About(m.found, v) = {} ELSE Settled(q, v, m.found)
  <2>1. Reported(q, x, m.found)
    BY <1>5 DEF Sound
  <2> QED
    BY <1>1, <2>1 DEF Reported
<1>10. InPort(pair) \in e.outstanding
  <2>1. 1 \in Pos(link[pair], "query", q) /\ link \in [Neighbours -> Seq(Messages)]
    BY <1>3, HeadIsThere DEF Typed, TypedState
  <2>2. BackTo(q, x) # {}
    BY <1>3, <2>1 DEF BackTo
  <2>3. Waits(q, x)
    BY <2>2 DEF Once, OnceAt
  <2> QED
    BY <1>2, <1>3, <1>6, <2>3 DEF Waits, InPort
<1>11. InPort(pair) # UpPort(q, c)
  BY <1>3, <1>6, <1>10 DEF Typed, Known
<1>12. t = InPort(pair) <=> PortToward(x, h) # UpPort(q, x)
  <2>1. h \in Behind(c, InPort(pair)) <=> (h = x \/ NextClp(x, h) # c)
    BY <1>2, <1>3, OneWay
  <2>2. PortToward(x, h) = UpPort(q, x) <=> x # h /\ c = NextClp(x, h)
    BY <1>3, TowardUp
  <2> QED
    BY <1>7, <2>1, <2>2 DEF Behind
<1>13. About(F, v) = About(e.found, v) \union About(m.found, v)
  BY <1>4, <1>6 DEF About
<1>14. CASE t = InPort(pair)
  <2>1. About(e.found, v) = {} /\ Settled(q, v, m.found)
    BY <1>8, <1>9, <1>10, <1>12, <1>14
  <2>2. About(F, v) = About(m.found, v)
    BY <1>13, <2>1
  <2>3. Settled(q, v, F)
    BY <2>1, <2>2, SettledAlike
  <2>4. t \notin out /\ t # UpPort(q, c)
    BY <1>11, <1>14
  <2> QED
    BY <1>1, <1>7, <2>3, <2>4
<1>15. CASE t # InPort(pair)
  <2>1. About(m.found, v) = {}
    BY <1>9, <1>12, <1>15
  <2>2. About(F, v) = About(e.found, v)
    BY <1>13, <2>1
  <2>3. t \in out <=> t \in e.outstanding
    BY <1>6, <1>15
  <2>4. Settled(q, v, e.found) <=> Settled(q, v, F)
    BY <2>2, SettledAlike
  <2> QED
    BY <1>1, <1>7, <1>8, <2>2, <2>3, <2>4
<1> QED
  BY <1>14, <1>15

\* What a CLP has with one more reply.
LEMMA SoundReply ==
  ASSUME Typed, Once, SoundState, NEW pair \in IntoClp, Reply(pair[1], pair[2])
  PROVE  SoundState'
<1> USE DEF SoundState
<1>1. PICK c \in Clps : c = pair[2]
  BY ReceiverPort
<1>2. PICK q0 \in Queries : \E sent : Replied(pair, q0, sent)
  BY ReplyEffect
<1>3. PICK sent : Replied(pair, q0, sent)
  BY <1>2
<1>4. PICK out : out = tracker[c][q0].outstanding \ {InPort(pair)}
  OBVIOUS
<1>5. PICK F : F = tracker[c][q0].found \union Head(link[pair]).found
  OBVIOUS
<1>6. /\ Is(Head(link[pair]), "query", q0) /\ link[pair] # <<>>
      /\ q0 \in DOMAIN tracker[c]
      /\ Moved(link, link', {pair}, sent) /\ Tracked(c, q0, out)
      /\ \A p \in DOMAIN sent : Is(sent[p], "query", q0)
      /\ DOMAIN sent = IF out = {} THEN {<<c, Up(q0, c)>>} ELSE {<<c, RankOf(c, p)>> : p \in {}}
  BY <1>1, <1>3, <1>4 DEF Replied, Passed, InPort
<1>7. /\ out = {} => link'[<<c, Up(q0, c)>>] = Append(link[<<c, Up(q0, c)>>], Query(q0, F))
      /\ out # {} => tracker'[c][q0].outstanding = out /\ tracker'[c][q0].found = F
      /\ UNCHANGED <<value, range, noted, changes, asked, cancelled, answer, rolledBack, lost, crossed, replaced, misled>>
  <2>1. /\ Carried(c, q0, out, F)
        /\ UNCHANGED <<value, range, noted, changes, asked, cancelled, answer, rolledBack, lost, crossed, replaced, misled>>
    BY <1>1, <1>4, <1>5, <1>6, ReplyTells
  <2> QED
    BY <2>1 DEF Carried
<1>8. UpdatesAreTrue' /\ RangesCover'
  <2>1. \A p \in {pair} \intersect Neighbours : Head(link[p]).kind # "update"
    BY <1>6 DEF Is
  <2>2. \A p \in DOMAIN sent : sent[p].kind # "update"
    BY <1>6 DEF Is
  <2> QED
    BY <1>6, <1>7, <2>1, <2>2, RangesUntouched
<1>9. OwnRange'
  BY <1>7 DEF OwnRange
<1>10. \A q \in Valid' : q \in Valid
  BY <1>7 DEF Valid
<1>11. /\ \A q, b : \A d \in Clps, p \in AllPorts : IsNoted(q, d, p, b) <=> IsNoted(q, d, p, b)'
       /\ \A q, b : \A d \in Clps, p \in Ports : IsNoted(q, d, p, b) <=> IsNoted(q, d, p, b)'
  BY <1>7 DEF IsNoted
<1>12. BlockedAreOutside'
  BY <1>7, <1>10, <1>11, BlockedStay
<1>13. AnsweredWereAsked'
  BY <1>7 DEF AnsweredWereAsked
<1>14. ASSUME NEW q \in Valid' PROVE Sound(q)'
  <2>1. q \in Queries /\ Sound(q)
    BY <1>10 DEF Valid, Typed, Known, AllSound
  <2>2. Kept(q)
    BY <1>7, <1>11, <2>1, KeptWhereValuesStay
  <2>3. CASE q # q0
    <3>1. \A p \in DOMAIN sent : ~Is(sent[p], "query", q)
      BY <1>6, <2>3 DEF Is
    <3>2. \A d \in Clps : q \in DOMAIN tracker'[d] => q \in DOMAIN tracker[d] /\ tracker'[d][q] = tracker[d][q]
      BY <1>6, <2>1, <2>3 DEF Tracked
    <3>3. answer'[q] = answer[q]
      BY <1>7
    <3> QED
      BY <1>6, <2>1, <2>2, <3>1, <3>2, <3>3, SoundElsewhere
  <2>4. CASE q = q0
    <3>1. ASSUME NEW v \in Variables
          PROVE  /\ PortToward(c, Home[v]) \in out \union {UpPort(q0, c)} => About(F, v) = {}
                 /\ PortToward(c, Home[v]) \notin out \union {UpPort(q0, c)} => Settled(q0, v, F)'
      <4>1. /\ PortToward(c, Home[v]) \in out \union {UpPort(q0, c)} => About(F, v) = {}
            /\ PortToward(c, Home[v]) \notin out \union {UpPort(q0, c)} => Settled(q0, v, F)
        BY <1>1, <1>4, <1>5, <1>6, <2>1, <2>4, ReplyFound
      <4>2. Settled(q0, v, F) => Settled(q0, v, F)'
        BY <2>2, <2>4 DEF Kept
      <4> QED
        BY <4>1, <4>2
    <3>2. ASSUME NEW d \in Clps, NEW e, q0 \in DOMAIN tracker'[d], e = tracker'[d][q0]
          PROVE  (q0 \in DOMAIN tracker[d] /\ e = tracker[d][q0]) \/ Gathered(q0, d, e)'
      <4>1. CASE d # c
        BY <1>6, <3>2, <4>1 DEF Tracked
      <4>2. CASE d = c
        <5>1. out # {}
          BY <1>6, <3>2, <4>2 DEF Tracked
        <5>2. e.outstanding = out /\ e.found = F
          BY <1>7, <3>2, <4>2, <5>1
        <5>3. ASSUME NEW v \in Variables
              PROVE  IF PortToward(c, Home[v]) \in e.outstanding \union {UpPort(q0, c)}
                     THEN About(e.found, v) = {} ELSE Settled(q0, v, e.found)'
          BY <3>1, <5>2
        <5> QED
          BY <4>2, <5>3 DEF Gathered
      <4> QED
        BY <4>1, <4>2
    <3>3. ASSUME NEW d \in Clps, NEW m \in ToSet(link'[<<d, Up(q0, d)>>]), Is(m, "query", q0)
          PROVE  m \in ToSet(link[<<d, Up(q0, d)>>]) \/ Reported(q0, d, m.found)'
      <4>1. PICK to \in Neighbours : to = <<d, Up(q0, d)>>
        BY UpFacts
      <4>2. m \in ToSet(link[to]) \/ to \in DOMAIN sent
        BY <1>6, <3>3, <4>1, MovedMembers
      <4>3. CASE to \in DOMAIN sent
        <5>1. out = {} /\ d = c
          <6>1. out = {}
            BY <1>6, <4>3
          <6> QED
            BY <1>6, <4>1, <4>3, <6>1
        <5>2. link'[to] = Append(link[to], Query(q0, F))
          BY <1>7, <4>1, <5>1
        <5>3. link[to] \in Seq(Messages) /\ Query(q0, F) \in Messages
          <6>1. link'[to] = Append(link[to], sent[to]) /\ sent[to] \in Messages
            BY <1>6, <4>3 DEF Moved
          <6>2. link[to] \in Seq(Messages)
            BY DEF Typed, TypedState
          <6>3. Query(q0, F) = sent[to]
            <7>1. PICK y : y = Query(q0, F)
              OBVIOUS
            <7>2. PICK z : z = sent[to]
              OBVIOUS
            <7>3. Append(link[to], y) = Append(link[to], z)
              BY <5>2, <6>1, <7>1, <7>2
            <7>4. /\ Append(link[to], y)[Len(link[to]) + 1] = y
                  /\ Append(link[to], z)[Len(link[to]) + 1] = z
              BY <6>2
            <7> QED
              BY <7>1, <7>2, <7>3, <7>4
          <6> QED
            BY <6>1, <6>2, <6>3
        <5>4. m \in ToSet(link[to]) \/ m = Query(q0, F)
          <6>1. PICK y \in Messages : y = Query(q0, F)
            BY <5>3
          <6>2. ToSet(Append(link[to], y)) = ToSet(link[to]) \union {y}
            BY <5>3, AppendFacts
          <6> QED
            BY <3>3, <4>1, <5>2, <6>1, <6>2
        <5>5. CASE m = Query(q0, F)
          <6>1. m.found = F
            BY <5>5 DEF Query
          <6>2. ASSUME NEW v \in Variables
                PROVE  IF PortToward(c, Home[v]) = UpPort(q0, c)
                       THEN About(m.found, v) = {} ELSE Settled(q0, v, m.found)'
            BY <3>1, <5>1, <6>1
          <6> QED
            BY <5>1, <6>2 DEF Reported
        <5> QED
          BY <4>1, <5>4, <5>5
      <4> QED
        BY <4>1, <4>2, <4>3
    <3>4. \A S : S = answer'[q] /\ S # NoAnswer => S = answer[q] \/ \A v \in Variables : Settled(q, v, S)'
      BY <1>7
    <3> QED
      BY <2>1, <2>2, <2>4, <3>2, <3>3, <3>4, SoundStays
  <2> QED
    BY <2>3, <2>4
<1>15. AllSound'
  BY <1>14 DEF AllSound
<1> QED
  BY <1>8, <1>9, <1>12, <1>13, <1>15

\* In the beginning the ranges are those of the values.
LEMMA SoundInit ==
  ASSUME Init
  PROVE  SoundState
<1>1. Typed
  BY TypedInit
<1> DEFINE P(S) == UNION {Points(d, InitialValue) : d \in S}
<1>2. /\ value = InitialValue
      /\ \A c \in Clps, p \in AllPorts : range[c][p] = RangeOf(P(Behind(c, p)))
      /\ \A c \in Clps, p \in AllPorts : noted[c][p] = <<>>
      /\ \A pair \in Neighbours : link[pair] = <<>>
      /\ asked = {} /\ \A q \in Queries : answer[q] = NoAnswer
  BY DEF Init
<1>3. OwnRange
  <2> SUFFICES ASSUME NEW c \in Clps PROVE range[c]["HERE"] = RangeOf(Points(c, value))
    BY DEF OwnRange
  <2>1. Behind(c, "HERE") = {c}
    BY TowardFacts DEF Behind
  <2>2. P(Behind(c, "HERE")) = Points(c, value)
    BY <1>2, <2>1
  <2>3. "HERE" \in AllPorts
    BY DEF AllPorts
  <2> QED
    BY <1>2, <2>2, <2>3
<1>4. UpdatesAreTrue
  <2>1. ToSet(<<>>) = {}
    BY TailFacts, EmptySeq
  <2>2. \A p, r : Tells(<<>>, p, r)
    BY EmptySeq DEF Tells
  <2>3. \A pair \in ClpPairs : link[pair] = <<>>
    BY <1>2 DEF ClpPairs
  <2> QED
    BY <2>1, <2>2, <2>3 DEF UpdatesAreTrue
<1>5. ASSUME NEW pair \in ClpPairs, NEW h \in Behind(pair[2], InPort(pair)) PROVE Covered(pair, h)
  <2> DEFINE x == pair[1]
             y == pair[2]
             A == P(Behind(y, InPort(pair)))
             B == P(Behind(x, PortToward(x, h)))
             all == {InitialValue[v] : v \in Variables}
  <2>1. x \in Clps /\ y \in Clps /\ h \in Clps
    BY OneWay DEF Behind
  <2>2. A \subseteq all
    BY DEF Points
  <2>3. IsFiniteSet(all)
    <3>1. IsFiniteSet(DOMAIN InitialValue) /\ all = {InitialValue[v] : v \in DOMAIN InitialValue}
      BY RangeQueriesAssumption
    <3> QED
      BY <3>1, FiniteImage
  <2>4. all \in SUBSET Pairs
    BY RangeQueriesAssumption DEF IsPoint, Pairs
  <2>5. B \subseteq A
    <3> SUFFICES ASSUME NEW d \in Behind(x, PortToward(x, h)) PROVE d \in Behind(y, InPort(pair))
      OBVIOUS
    <3>1. d \in Clps /\ PortToward(x, d) = PortToward(x, h)
      BY DEF Behind
    <3>2. PortToward(x, h) # PortTo(x, y)
      BY <2>1, OneWay
    <3> QED
      BY <3>1, <3>2, OneWay
  <2>6. IsFiniteSet(A) /\ A \in SUBSET Pairs
    BY <2>2, <2>3, <2>4, FS_Subset
  <2>7. InPort(pair) \in AllPorts /\ PortToward(x, h) \in AllPorts
    <3>1. InPort(pair) = PortToward(y, h)
      BY DEF Behind
    <3> QED
      BY <2>1, <3>1, TowardFacts
  <2>8. range[y][InPort(pair)] = RangeOf(A) /\ range[x][PortToward(x, h)] = RangeOf(B)
    BY <1>2, <2>1, <2>7
  <2> HIDE DEF A, B, all
  <2>9. Within(RangeOf(A), RangeOf(B))
    BY <2>5, <2>6, RangeOfMore
  <2> QED
    BY <2>8, <2>9 DEF Covered
<1>6. RangesCover
  BY <1>5 DEF RangesCover
<1>7. BlockedAreOutside /\ AllSound /\ AnsweredWereAsked
  BY <1>2 DEF BlockedAreOutside, AllSound, AnsweredWereAsked, Valid
<1> QED
  BY <1>3, <1>4, <1>6, <1>7 DEF SoundState

\* Every step keeps the ranges, what is noted and what is found right.
LEMMA SoundNext ==
  ASSUME Typed, Once, SoundState, [Next]_vars
  PROVE  SoundState'
<1>1. ASSUME NEW pair \in IntoClp, ClpReceive(pair[1], pair[2]) PROVE SoundState'
  BY <1>1, SoundVisit, SoundReply, SoundFollow, SoundLearn DEF ClpReceive
<1>2. CASE UNCHANGED vars
  <2>1. /\ UNCHANGED <<value, range, noted, tracker, link, asked, cancelled, rolledBack, lost, answer>>
        /\ UNCHANGED <<crossed, replaced>>
    BY <1>2 DEF vars, clpVars, agentVars
  <2>2. OwnRange' /\ UpdatesAreTrue' /\ RangesCover' /\ BlockedAreOutside' /\ AnsweredWereAsked'
    BY <2>1 DEF SoundState, OwnRange, UpdatesAreTrue, RangesCover, Covered, BlockedAreOutside,
                AnsweredWereAsked, Valid, IsNoted
  <2>3. \A q, v, S : Settled(q, v, S)' <=> Settled(q, v, S)
    BY <2>1 DEF Settled, IsNoted, Now
  <2>4. \A q, c, e : Gathered(q, c, e)' <=> Gathered(q, c, e)
    BY <2>3 DEF Gathered
  <2>5. \A q, c, S : Reported(q, c, S)' <=> Reported(q, c, S)
    BY <2>3 DEF Reported
  <2>6. \A q : Sound(q)' <=> Sound(q)
    BY <2>1, <2>3, <2>4, <2>5 DEF Sound
  <2>7. AllSound'
    BY <2>1, <2>6 DEF SoundState, AllSound, Valid
  <2> QED
    BY <2>2, <2>7 DEF SoundState
<1> QED
  BY <1>1, <1>2, SoundAsk, SoundCancel, SoundAlpReceive, SoundChange DEF Next, Receive

-----------------------------------------------------------------------------
\* Where the news of a CLP has come to the agent's, it has come everywhere on this side.
LEMMA RangesReach ==
  ASSUME Typed, RangesCover, NEW q \in Queries, NEW v \in Variables, ~NotYetSeen(q, v),
         NEW h \in Clps, h = Home[v], NEW d0 \in Clps, d0 # h, PortToward(d0, h) # UpPort(q, d0)
  PROVE  Within(range[d0][PortToward(d0, h)], range[h]["HERE"])
<1> DEFINE Off(d) == d # h /\ PortToward(d, h) # UpPort(q, d)
           Bad(d) == Off(d) /\ ~Within(range[d][PortToward(d, h)], range[h]["HERE"])
           Far == {Distance(d, h) : d \in {d \in Clps : Bad(d)}}
<1> SUFFICES ASSUME Bad(d0) PROVE FALSE
  OBVIOUS
<1>1. Far \in SUBSET Nat /\ Far # {}
  <2>1. \A d \in Clps : Distance(d, h) \in Nat
    BY ApartIsFinite
  <2> QED
    BY <2>1
<1>2. PICK d \in Clps : Bad(d) /\ \A c \in Clps : Bad(c) => Distance(d, h) <= Distance(c, h)
  <2>1. Min(Far) \in Far /\ \A y \in Far : Min(Far) <= y
    <3> HIDE DEF Far
    <3> QED
      BY <1>1, MinOfSet
  <2> QED
    BY <2>1
<1>3. PICK x : x = NextClp(d, h)
  OBVIOUS
<1>4. PICK pair \in ClpPairs : pair = <<x, d>>
  BY <1>2, <1>3, TowardFacts
<1>5. /\ x \in Clps /\ pair[1] = x /\ pair[2] = d /\ InPort(pair) = PortToward(d, h)
      /\ pair \in Neighbours /\ <<d, x>> \in Neighbours
  <2>1. pair[1] = x /\ pair[2] = d
    BY <1>4
  <2>2. x \in Clps /\ pair \in Neighbours /\ <<d, x>> \in Neighbours
    BY <2>1, OneWay DEF ClpPairs
  <2>3. InPort(pair) = PortToward(d, h)
    BY <1>2, <1>3, <1>4, TowardFacts
  <2> QED
    BY <2>1, <2>2, <2>3
<1>6. h \in Behind(d, InPort(pair))
  BY <1>5 DEF Behind
<1>7. h = x \/ NextClp(x, h) # d
  BY <1>5, <1>6, OneWay
<1>8. Up(q, x) = d
  <2>1. x # Up(q, d)
    BY <1>2, <1>3, TowardUp
  <2> QED
    BY <1>5, <2>1, UpOrDown
<1>9. OnTheWay(pair, h, AlpToClp[From[q]])
  <2>1. x # AlpToClp[From[q]] /\ d = NextClp(x, AlpToClp[From[q]])
    <3>1. d \in Clps /\ d # From[q]
      BY AgentsAlp
    <3>2. x # AlpToClp[From[q]]
      BY <1>5, <1>8, <3>1, UpFacts
    <3>3. Up(q, x) = NextClp(x, AlpToClp[From[q]])
      BY <1>5, <3>2, UpFacts
    <3> QED
      BY <1>8, <3>2, <3>3
  <2> QED
    BY <1>5, <1>7, <2>1 DEF OnTheWay
<1>10. Within(range[d][PortToward(d, h)], range[x][PortToward(x, h)])
  <2>1. Covered(pair, h)
    BY <1>5, <1>6 DEF RangesCover
  <2>2. /\ pair \in Neighbours \intersect (Clps \X Clps)
        /\ OnTheWay(pair, Home[v], AlpToClp[From[q]])
    BY <1>5, <1>9 DEF ClpPairs
  <2>3. ~\E m \in ToSet(link[pair]) : m.kind = "update" /\ m.source = PortToward(pair[1], Home[v])
    BY <2>2 DEF NotYetSeen
  <2>4. <<pair[2], PortTo(pair[2], pair[1]), Home[v]>> \notin replaced
    BY <2>2 DEF NotYetSeen
  <2>5. ~News(link[pair], PortToward(x, h))
    <3> SUFFICES ASSUME NEW k \in 1 .. Len(link[pair]), IsNews(link[pair][k], PortToward(x, h)) PROVE FALSE
      BY DEF News
    <3>1. link[pair] \in Seq(Messages)
      BY <1>5 DEF Typed, TypedState
    <3>2. link[pair][k] \in ToSet(link[pair])
      BY <3>1, LenProperties DEF ToSet
    <3> QED
      BY <1>5, <2>3, <3>2 DEF IsNews
  <2> QED
    BY <1>5, <2>1, <2>4, <2>5 DEF Covered, InPort
<1>11. /\ PortToward(d, h) \in AllPorts /\ PortToward(x, h) \in AllPorts /\ "HERE" \in AllPorts
       /\ PortToward(h, h) = "HERE"
  BY <1>5, TowardFacts DEF AllPorts
<1>12. CASE x = h
  BY <1>2, <1>10, <1>11, <1>12
<1>13. CASE x # h
  <2>1. PortToward(x, h) # UpPort(q, x)
    BY <1>5, <1>7, <1>8, <1>13, TowardUp
  <2>2. Distance(x, h) < Distance(d, h)
    <3>1. /\ Distance(d, h) \in Nat /\ Distance(x, h) \in Nat
      BY <1>5, ApartIsFinite
    <3>2. Distance(x, h) = Distance(d, h) - 1
      BY <1>2, <1>3, <1>5, NeighbourDistance
    <3> QED
      BY <3>1, <3>2
  <2>3. ~Bad(x)
    <3>1. Distance(d, h) \in Nat /\ Distance(x, h) \in Nat
      BY <1>5, ApartIsFinite
    <3> QED
      BY <1>2, <1>5, <2>2, <3>1
  <2>4. Within(range[x][PortToward(x, h)], range[h]["HERE"])
    BY <1>13, <2>1, <2>3
  <2>5. /\ range[d][PortToward(d, h)] \in Ranges \union {NoRange}
        /\ range[x][PortToward(x, h)] \in Ranges \union {NoRange}
        /\ range[h]["HERE"] \in Ranges \union {NoRange}
    BY SMTT(30), <1>5, <1>11 DEF Typed, TypedState
  <2>6. Within(range[d][PortToward(d, h)], range[h]["HERE"])
    BY <1>10, <2>4, <2>5, WithinFacts
  <2> QED
    BY <1>2, <2>6
<1> QED
  BY <1>12, <1>13

\* An answer that is not right any more, because a value changed while or after the query
\* walked through the tree, is rolled back, for any tree, queries and changes: the ranges
\* cover what is behind them, as far as the updates have come, a query is blocked outside
\* of them, and what is found about a variable was read at its CLP, or there is none for
\* a CLP behind a port where the query is blocked.
THEOREM StaleAnswersAreRolledBackHolds == Spec => []StaleAnswersAreRolledBack
<1>1. Typed /\ SoundState => StaleAnswersAreRolledBack
  <2> SUFFICES ASSUME Typed, SoundState,
                      NEW q \in asked \ (cancelled \union rolledBack \union lost \union crossed), answer[q] # NoAnswer,
                      NEW v \in Variables, ~NotYetSeen(q, v)
               PROVE  Answered(q, v) = Now(q, v)
    BY DEF StaleAnswersAreRolledBack
  <2>1. q \in Queries /\ q \in Valid
    BY DEF Valid, Typed, Known
  <2>2. PICK S : S = answer[q]
    OBVIOUS
  <2>3. Settled(q, v, S)
    BY <2>1, <2>2 DEF SoundState, AllSound, Sound
  <2>4. Answered(q, v) = About(S, v)
    BY <2>2 DEF Answered, About
  <2>5. CASE About(S, v) = Now(q, v)
    BY <2>4, <2>5
  <2>6. CASE /\ About(S, v) = {}
             /\ \E d \in Clps \ {Home[v]} : /\ PortToward(d, Home[v]) # UpPort(q, d)
                                            /\ IsNoted(q, d, PortToward(d, Home[v]), TRUE)
    <3>1. PICK h \in Clps : h = Home[v]
      BY RangeQueriesAssumption
    <3>2. PICK d \in Clps \ {h} : PortToward(d, h) # UpPort(q, d) /\ IsNoted(q, d, PortToward(d, h), TRUE)
      BY <2>6, <3>1
    <3>3. PICK t \in Ports : t = PortToward(d, h)
      BY <3>2, TowardFacts
    <3>4. ~Overlaps(range[d][t], Rectangle[q]) /\ ~Cross(range[d][t], Rectangle[q])
      BY <2>1, <3>2, <3>3 DEF SoundState, BlockedAreOutside
    <3>5. Within(range[d][t], range[h]["HERE"])
      BY <2>1, <3>1, <3>2, <3>3, RangesReach DEF SoundState
    <3>6. /\ range[h]["HERE"] \in Ranges /\ value[v] \in Pairs
          /\ IsValueOverlapping(range[h]["HERE"], value[v])
      BY <3>1, HereIsAround DEF SoundState
    <3>7. range[d][t] \in Ranges \union {NoRange}
      BY <3>3 DEF Typed, TypedState, AllPorts
    <3>8. ~IsValueOverlapping(Rectangle[q], value[v])
      BY <2>1, <3>4, <3>5, <3>6, <3>7, OutsideOf
    <3> QED
      BY <2>4, <2>6, <3>8 DEF Now
  <2> QED
    BY <2>3, <2>5, <2>6 DEF Settled
<1>2. Init => SoundState
  BY SoundInit
<1>3. Typed /\ Once /\ SoundState /\ [Next]_vars => SoundState'
  BY SoundNext
<1> QED
  BY <1>1, <1>2, <1>3, OnceHolds, PTL DEF Spec
=============================================================================
