------------------------------- MODULE ClpTree -------------------------------
(***************************************************************************)
(* The tree of CLPs and the tables of who is in which direction.  CLP r is *)
(* the parent of CLPs 2r+1 and 2r+2; the ALPs are attached to the leaves,  *)
(* at most two to each.                                                    *)
(***************************************************************************)
EXTENDS Integers, FiniteSetsExt

CONSTANTS
  NumberOfClps,    \* 1, 3, 7, ...: a full tree
  AlpToClp         \* the leaf CLP of each ALP (Initialisor::GetAlpToClpMap)

Clps  == 0 .. NumberOfClps - 1
Alps  == DOMAIN AlpToClp
Ranks == Clps \union Alps

Parent(r) == (r - 1) \div 2
Left(r)   == 2 * r + 1
Right(r)  == 2 * r + 2

IsParentClp(r) == Left(r) \notin Clps        \* fIsParentCLP: a leaf, with ALPs

ASSUME ClpTreeAssumption ==
  /\ NumberOfClps \in Nat /\ NumberOfClps % 2 = 1     \* each has two children or none
  /\ Alps \intersect Clps = {} /\ Alps \subseteq Nat /\ IsFiniteSet(Alps)
  /\ \A r \in Alps : AlpToClp[r] \in Clps /\ IsParentClp(AlpToClp[r])
  /\ \A c \in Clps : Cardinality({r \in Alps : AlpToClp[r] = c}) <= 2

-----------------------------------------------------------------------------
(* ForwardingTable and RouteTable.                                         *)

\* A CLP and those above it.
Lineage[r \in Clps] == IF r = 0 THEN {0} ELSE {r} \union Lineage[Parent(r)]

\* ForwardingTable: the neighbour of CLP c on the way to CLP r # c.
NextClp(c, r) ==
  IF c \notin Lineage[r] THEN Parent(c)
  ELSE IF Left(c) \in Lineage[r] THEN Left(c) ELSE Right(c)

Ports == {"UP", "LEFT", "RIGHT"}

AlpsAt(c) == {r \in Alps : AlpToClp[r] = c}

\* fDirectionToRankMap: the neighbouring CLPs, then on the ports still free the
\* ALPs of this CLP.
RankOf(c, port) ==
  CASE port = "UP"                         -> Parent(c)
    [] port = "LEFT"  /\ ~IsParentClp(c)   -> Left(c)
    [] port = "RIGHT" /\ ~IsParentClp(c)   -> Right(c)
    [] port = "LEFT"  /\ IsParentClp(c)    -> Min(AlpsAt(c))
    [] port = "RIGHT" /\ IsParentClp(c)    -> Max(AlpsAt(c))

PortsOf(c) ==
  {p \in Ports : CASE p = "UP"    -> c # 0
                   [] p = "LEFT"  -> ~IsParentClp(c) \/ AlpsAt(c) # {}
                   [] p = "RIGHT" -> ~IsParentClp(c) \/ Cardinality(AlpsAt(c)) = 2}

PortTo(c, neighbour) == CHOOSE p \in PortsOf(c) : RankOf(c, p) = neighbour

\* fRankToDirectionMap, of an ALP.
PortToAlp(c, alp) ==
  IF AlpToClp[alp] = c THEN PortTo(c, alp) ELSE PortTo(c, NextClp(c, AlpToClp[alp]))

\* Who is connected to whom.
Neighbours ==
  {pair \in Clps \X Clps : Parent(pair[1]) = pair[2] \/ Parent(pair[2]) = pair[1]}
    \union {<<r, AlpToClp[r]>> : r \in Alps} \union {<<AlpToClp[r], r>> : r \in Alps}

-----------------------------------------------------------------------------
\* The steps from one CLP to another: up to the first CLP above both, and down.
Distance(c, d) ==
  Cardinality((Lineage[c] \ Lineage[d]) \union (Lineage[d] \ Lineage[c]))
=============================================================================
