---------------------------- MODULE RangeQueries ----------------------------
(***************************************************************************)
(* Range queries: which variables have a point as value that lies in a     *)
(* given rectangle.                                                        *)
(*                                                                         *)
(* Each CLP has for each port a range: the rectangle around the values of  *)
(* the variables in that direction.  A query walks through the tree from   *)
(* its agent's CLP; a CLP passes it on through the ports whose range it    *)
(* overlaps, waits for the replies, and replies itself.  It also notes the *)
(* query at every port, as blocked where it was not passed on.  When a     *)
(* value changes, the queries noted at its CLP that had or have it in      *)
(* their rectangle are rolled back; if the CLP's range changes with it,    *)
(* range updates spread through the tree, and roll back the queries that   *)
(* were blocked and now overlap.                                           *)
(*                                                                         *)
(* The changes (writes, refused or undone ones included) are here in the   *)
(* order of their times, and the queries all later than they: then one     *)
(* range period per port is in force, which each change replaces and to    *)
(* which it moves what the one before had noted.  Identifiers of queries   *)
(* are distinct, each is an agent's only one, nobody reads a single        *)
(* variable, and variables do not move.  A query is rolled back here when  *)
(* its agent has been sent a rollback; that the ALP may drop it is in      *)
(* TimeWarp.                                                               *)
(***************************************************************************)
EXTENDS ClpTree, Lists

CONSTANTS
  Variables,       \* the shared state variables with a point as value,
  Home,            \* the CLP of each,
  InitialValue,    \* its value in the beginning,
  Values,          \* and those it may have
  Queries,         \* the queries,
  From,            \* the ALP of the agent that asks each,
  Id,              \* the agent's identifier, which makes with the ALP its LpId,
  Rectangle,       \* and its range
  MaxChanges       \* bound: changes of values

\* The agents of two queries are one key of a RollbackList: LpId::operator< asks
\* for both fields to be less.
IsSameKey(q, r) ==
  ~ \/ Id[q] < Id[r] /\ From[q] < From[r]
    \/ Id[r] < Id[q] /\ From[r] < From[q]

IsPoint(p) == p \in Int \X Int
Leq(p, q)  == p[1] <= q[1] /\ p[2] <= q[2]      \* Pair::operator<

ASSUME RangeQueriesAssumption ==
  /\ IsFiniteSet(Variables) /\ Home \in [Variables -> Clps]
  /\ InitialValue \in [Variables -> UNION {Values[v] : v \in Variables}]
  /\ \A v \in Variables : InitialValue[v] \in Values[v] /\ \A p \in Values[v] : IsPoint(p)
  /\ From \in [Queries -> Alps] /\ Id \in [Queries -> Nat]
  \* std::map needs "same key" to be transitive.
  /\ \A q, r, s \in Queries : IsSameKey(q, r) /\ IsSameKey(r, s) => IsSameKey(q, s)
  /\ \A q \in Queries : /\ IsPoint(Rectangle[q].min) /\ IsPoint(Rectangle[q].max)
                        /\ Leq(Rectangle[q].min, Rectangle[q].max)
  /\ MaxChanges \in Nat

-----------------------------------------------------------------------------
(* Range.                                                                  *)

NoRange == [min |-> <<>>, max |-> <<>>]     \* a range period without a range

IsValueOverlapping(r, p) == Leq(p, r.max) /\ Leq(r.min, p)

Corners(r) == {r.min[1], r.max[1]} \X {r.min[2], r.max[2]}

\* Range::IsRangeOverlapping: one has a corner of the other.
IsRangeOverlapping(r, s) ==
  \/ \E p \in Corners(s) : IsValueOverlapping(r, p)
  \/ \E p \in Corners(r) : IsValueOverlapping(s, p)

Overlaps(r, s) == r # NoRange /\ IsRangeOverlapping(r, s)

\* Range::MinMaxofTwoRanges over any number of points.
RangeOf(points) ==
  LET Xs == {p[1] : p \in points}
      Ys == {p[2] : p \in points}
  IN IF points = {} THEN NoRange
     ELSE [min |-> <<Min(Xs), Min(Ys)>>, max |-> <<Max(Xs), Max(Ys)>>]

Within(r, s) ==
  (s # NoRange) => (r # NoRange /\ Leq(r.min, s.min) /\ Leq(s.max, r.max))

\* What IsRangeOverlapping does not see: two that meet in the form of a cross.
Cross(r, s) ==
  /\ r # NoRange
  /\ ~IsRangeOverlapping(r, s)
  /\ \A i \in {1, 2} : r.min[i] <= s.max[i] /\ s.min[i] <= r.max[i]

-----------------------------------------------------------------------------
(* Ports.                                                                  *)

AllPorts    == Ports \union {"HERE"}
ClpPorts(c) == {p \in PortsOf(c) : RankOf(c, p) \in Clps}

PortToward(c, d)  == IF d = c THEN "HERE" ELSE PortTo(c, NextClp(c, d))
Behind(c, port)   == {d \in Clps : PortToward(c, d) = port}

Points(c, value) == {value[v] : v \in {w \in Variables : Home[w] = c}}

-----------------------------------------------------------------------------
VARIABLES
  value,       \* per variable, its value
  range,       \* per CLP and port, the range of fRangeRoutingTable
  noted,       \* per CLP and port, fRangeQueryInfoList
  tracker,     \* per CLP, fRangeTracker: the queries it waits for replies to
  link,        \* per pair of neighbours, the messages on their way
  changes,     \* how often a value has changed
  asked,       \* the queries sent
  cancelled,   \* those whose agent has sent an anti-message
  rolledBack,  \* those whose agent has been sent a rollback
  lost,        \* history variable: those whose agent was to be sent one, and was not since
               \* an agent of the same key was
  answer,      \* history variable: per query, what its ALP received
  crossed,     \* history variable: queries that missed a range by crossing it
  replaced,    \* history variable: <c, port, d> where the range that stands for CLP d and
               \* others was replaced by one for others that leaves d's out
  misled       \* history variable: queries whose anti-message followed another query

clpVars   == <<value, range, noted, tracker>>
agentVars == <<asked, cancelled, answer>>
vars      == <<clpVars, link, changes, agentVars, rolledBack, lost, crossed, replaced, misled>>

\* A RangeQueryMessage is the query and the reply; the list of values is empty
\* on the way out.  An update does not tell which port of the sender's its range is
\* for; source is for replaced.
Query(q, found) == [kind |-> "query", query |-> q, found |-> found]
Anti(q)         == [kind |-> "anti", query |-> q]
Update(r, p)    == [kind |-> "update", range |-> r, source |-> p]

NoAnswer == {<<>>}

\* Clp::InitialisePortRanges.
Init ==
  /\ value      = InitialValue
  /\ range      = [c \in Clps |-> [p \in AllPorts |->
                    RangeOf(UNION {Points(d, InitialValue) : d \in Behind(c, p)})]]
  /\ noted      = [c \in Clps |-> [p \in AllPorts |-> <<>>]]
  /\ tracker    = [c \in Clps |-> <<>>]
  /\ link       = [pair \in Neighbours |-> <<>>]
  /\ changes    = 0
  /\ asked      = {}
  /\ cancelled  = {}
  /\ rolledBack = {}
  /\ lost       = {}
  /\ answer     = [q \in Queries |-> NoAnswer]
  /\ crossed    = {}
  /\ replaced   = {}
  /\ misled     = {}

-----------------------------------------------------------------------------
(* Agents and ALPs.                                                        *)

ToParent(q) == <<From[q], AlpToClp[From[q]]>>

\* Agent::SendRangeQueryPointMessageAndGetResponse.
Ask(q) ==
  /\ q \notin asked
  /\ asked' = asked \union {q}
  /\ link'  = [link EXCEPT ![ToParent(q)] = Append(@, Query(q, {}))]
  /\ UNCHANGED <<clpVars, changes, cancelled, answer, rolledBack, lost, crossed, replaced, misled>>

\* Alp::ProcessRollback, whatever caused it.
Cancel(q) ==
  /\ q \in asked \ cancelled
  /\ cancelled' = cancelled \union {q}
  /\ link'      = [link EXCEPT ![ToParent(q)] = Append(@, Anti(q))]
  /\ UNCHANGED <<clpVars, changes, asked, answer, rolledBack, lost, crossed, replaced, misled>>

\* Alp::ProcessMessage(RangeQueryMessage).
AlpReceive(r) ==
  LET in == <<AlpToClp[r], r>>
  IN /\ link[in] # <<>>
     /\ answer' = [answer EXCEPT ![Head(link[in]).query] = Head(link[in]).found]
     /\ link'   = [link EXCEPT ![in] = Tail(@)]
     /\ UNCHANGED <<clpVars, changes, asked, cancelled, rolledBack, lost, crossed, replaced, misled>>

-----------------------------------------------------------------------------
(* Sending.                                                                *)

IsNext(x, c, kind) == link[<<x, c>>] # <<>> /\ Head(link[<<x, c>>]).kind = kind

Taken(x, c) == [link EXCEPT ![<<x, c>>] = Tail(@)]

\* Links l when CLP c has sent messages[p] through each port p.
Sent(l, c, messages) ==
  [pair \in Neighbours |->
     IF pair[1] = c /\ PortTo(c, pair[2]) \in DOMAIN messages
     THEN Append(l[pair], messages[PortTo(c, pair[2])]) ELSE l[pair]]

\* Clp::SendRangeUpdates: the ports whose ranges are added to the new one of the
\* port source in the update for port.  The condition asks for CLP 0 and a leaf
\* at once, and is never met where there are neighbours.
RemotePorts(c, port, source) ==
  {p \in AllPorts \ {port, source} :
     /\ IsParentClp(c) /\ p \notin {"LEFT", "RIGHT"}
     /\ c = 0 /\ p # "UP"}

UpdateFor(c, port, source, new) ==
  LET others == {range[c][p] : p \in RemotePorts(c, port, source)} \ {NoRange}
  IN Update(RangeOf(UNION {{r.min, r.max} : r \in others \union {new}}), source)

WithUpdates(l, c, source, new) ==
  Sent(l, c, [p \in ClpPorts(c) \ {source} |-> UpdateFor(c, p, source, new)])

-----------------------------------------------------------------------------
(* Clp::ProcessMessage(RangeQueryMessage).                                 *)

\* SharedState::RangeRead.
RangeRead(c, q) ==
  {<<v, value[v]>> : v \in {w \in Variables :
                              Home[w] = c /\ IsValueOverlapping(Rectangle[q], value[w])}}

\* Variant of Complete that does not wait for the replies.
CompleteAtOnce(outstanding) == TRUE

\* No port is NOT_SCANNED.
Complete(outstanding) == outstanding = {}

\* Entry e for query q in the tracker of a CLP.
AddEntry(entries, q, e) == [r \in DOMAIN entries \union {q} |-> IF r = q THEN e ELSE entries[r]]

\* With every port scanned the CLP replies through the port the query came in by
\* and deletes its entry; else it keeps what it has.  l are the links, with the
\* query passed on.
Proceed(c, q, l, outstanding, found) ==
  IF Complete(outstanding)
  THEN /\ tracker' = [tracker EXCEPT ![c] = Restrict(@, DOMAIN @ \ {q})]
       /\ link'    = Sent(l, c, [p \in {PortToAlp(c, From[q])} |-> Query(q, found)])
  ELSE /\ tracker' = [tracker EXCEPT ![c] =
                        AddEntry(@, q, [outstanding |-> outstanding, found |-> found])]
       /\ link'    = l

\* Variant of TargetPorts that includes the incoming port.
AllTargetPorts(c, q) == ClpPorts(c) \union {"HERE"}

\* The ports a query is passed on by, if they are not blocked.
TargetPorts(c, q) == (ClpPorts(c) \union {"HERE"}) \ {PortToAlp(c, From[q])}

\* The first time at this CLP.
FirstVisit(x, c) ==
  /\ IsNext(x, c, "query")
  /\ LET q       == Head(link[<<x, c>>]).query
         targets == TargetPorts(c, q)
         open    == {p \in targets : Overlaps(range[c][p], Rectangle[q])}
         away    == open \ {"HERE"}
     IN /\ q \notin DOMAIN tracker[c]
        /\ noted'   = [noted EXCEPT ![c] = [p \in AllPorts |->
                         IF p \in targets
                         THEN Append(@[p], [query |-> q, blocked |-> p \notin open])
                         ELSE @[p]]]
        /\ Proceed(c, q, Sent(Taken(x, c), c, [p \in away |-> Query(q, {})]), away,
                   IF "HERE" \in open THEN RangeRead(c, q) ELSE {})
        /\ crossed' = IF \E p \in targets : Cross(range[c][p], Rectangle[q])
                      THEN crossed \union {q} ELSE crossed
  /\ UNCHANGED <<value, range, changes, agentVars, rolledBack, lost, replaced, misled>>

\* Variant of ReplyPort that takes the port of the query's agent.
AgentPort(c, x, q) == PortToAlp(c, From[q])

\* The port a reply reports as scanned.
ReplyPort(c, x, q) == PortTo(c, x)

\* A query this CLP has an entry for is a reply.
Reply(x, c) ==
  /\ IsNext(x, c, "query")
  /\ LET m == Head(link[<<x, c>>])
         q == m.query
     IN /\ q \in DOMAIN tracker[c]
        /\ Proceed(c, q, Taken(x, c),
                   tracker[c][q].outstanding \ {ReplyPort(c, x, q)},
                   tracker[c][q].found \union m.found)
  /\ UNCHANGED <<value, range, noted, changes, agentVars, rolledBack, lost, crossed, replaced, misled>>

-----------------------------------------------------------------------------
(* Clp::ProcessMessage(RangeQueryAntiMessage).                             *)

\* Variant of DeleteRangeQueryInfo that deletes the first only.
DeleteFirst(list, q) == IF list = <<>> THEN list ELSE Tail(list)

DeleteRangeQueryInfo(list, q) == Remaining(list, {e \in ToSet(list) : e.query = q})

\* RangePeriod::GetBlockStatus returns the status of the first entry in the list,
\* whichever query it is of.
GetBlockStatus(list, q) == list = <<>> \/ list[1].blocked

Follow(x, c) ==
  /\ IsNext(x, c, "anti")
  /\ LET q      == Head(link[<<x, c>>]).query
         ports  == AllPorts \ {PortToAlp(c, From[q])}
         onward == {p \in ports \ {"HERE"} : ~GetBlockStatus(noted[c][p], q)}
         own    == {p \in ports \ {"HERE"} :
                      \E e \in ToSet(noted[c][p]) : e.query = q /\ ~e.blocked}
     IN /\ link'   = Sent(Taken(x, c), c, [p \in onward |-> Anti(q)])
        /\ noted'  = [noted EXCEPT ![c] = [p \in AllPorts |->
                        IF p \in ports THEN DeleteRangeQueryInfo(@[p], q) ELSE @[p]]]
        /\ misled' = IF own \subseteq onward THEN misled ELSE misled \union {q}
  /\ UNCHANGED <<value, range, tracker, changes, agentVars, rolledBack, lost, crossed, replaced>>

-----------------------------------------------------------------------------
(* Changes and range updates.                                              *)

\* RollbackList::AddLp on some of the queries in a list, in the order of the list: of
\* those of one key the first has the entry, and its agent alone is sent a rollback.
AddLp(list, queries) ==
  {list[i].query : i \in {i \in DOMAIN list :
     /\ list[i].query \in queries
     /\ \A j \in 1 .. i - 1 :
          list[j].query \in queries => ~IsSameKey(list[j].query, list[i].query)}}

\* RollbackList::SendRollbacks.
SendRollbacks(list, queries) ==
  /\ rolledBack' = rolledBack \union AddLp(list, queries)
  /\ lost'       = lost \union (queries \ AddLp(list, queries))

\* RangePeriod::PopulateRollbackList, of a write of new over old.
RolledBackByChange(list, old, new) ==
  {e.query : e \in {e \in ToSet(list) : \/ IsValueOverlapping(Rectangle[e.query], old)
                                        \/ IsValueOverlapping(Rectangle[e.query], new)}}

\* RangeRoutingTable::Update by SharedState::WriteWithRollback and RollbackWrite,
\* and SendRangeUpdates.  Queries are also rolled back by a write that is refused
\* or that writes what is there.
Change(v, new) ==
  LET c   == Home[v]
      box == RangeOf(Points(c, value'))
  IN /\ changes < MaxChanges
     /\ value' = [value EXCEPT ![v] = new] \/ value' = value
     /\ range' = [range EXCEPT ![c]["HERE"] = box]
     /\ SendRollbacks(noted[c]["HERE"], RolledBackByChange(noted[c]["HERE"], value[v], new))
     /\ link'    = IF box = range[c]["HERE"] THEN link ELSE WithUpdates(link, c, "HERE", box)
     /\ changes' = changes + 1
     /\ UNCHANGED <<noted, tracker, agentVars, crossed, replaced, misled>>

\* Variant of RolledBackByUpdate that takes the queries that were passed on.
RolledBackIfOpen(list, r) ==
  {e.query : e \in {e \in ToSet(list) : ~e.blocked /\ Overlaps(r, Rectangle[e.query])}}

\* RangePeriod::PopulateRollbackList, of a range update.
RolledBackByUpdate(list, r) ==
  {e.query : e \in {e \in ToSet(list) : e.blocked /\ Overlaps(r, Rectangle[e.query])}}

\* Clp::ProcessMessage(RangeUpdateMessage).
Learn(x, c) ==
  /\ IsNext(x, c, "update")
  /\ LET new    == Head(link[<<x, c>>]).range
         source == Head(link[<<x, c>>]).source
         port   == PortTo(c, x)
         list   == noted[c][port]
     IN /\ range'      = [range EXCEPT ![c][port] = new]
        /\ SendRollbacks(list, RolledBackByUpdate(list, new))
        /\ link'       = IF new = range[c][port] THEN Taken(x, c)
                         ELSE WithUpdates(Taken(x, c), c, port, new)
        /\ crossed'    = crossed \union
             {e.query : e \in {e \in ToSet(list) : Cross(new, Rectangle[e.query])}}
        /\ replaced'   = {t \in replaced : <<t[1], t[2]>> # <<c, port>>} \union
             {<<c, port, d>> : d \in {d \in Behind(c, port) :
                /\ PortToward(x, d) # source
                /\ ~Within(new, range[x][PortToward(x, d)])}}
  /\ UNCHANGED <<value, noted, tracker, changes, agentVars, misled>>

-----------------------------------------------------------------------------
ClpReceive(x, c) == FirstVisit(x, c) \/ Reply(x, c) \/ Follow(x, c) \/ Learn(x, c)

IntoClp == {pair \in Neighbours : pair[2] \in Clps}

Receive ==
  \/ \E r \in Alps : AlpReceive(r)
  \/ \E pair \in IntoClp : ClpReceive(pair[1], pair[2])

Next ==
  \/ \E q \in Queries : Ask(q) \/ Cancel(q)
  \/ \E v \in Variables : \E p \in Values[v] : Change(v, p)
  \/ Receive

(***************************************************************************)
(* Some message is received as long as there is one: the threads run and   *)
(* MPI delivers.  Nobody has to ask, cancel or write.                      *)
(***************************************************************************)
Spec == Init /\ [][Next]_vars /\ WF_vars(Receive)

-----------------------------------------------------------------------------
(* Properties.                                                             *)

Found == {f \in Variables \X UNION {Values[v] : v \in Variables} : f[2] \in Values[f[1]]}

IsRange(r) == (r # NoRange) => (IsPoint(r.min) /\ IsPoint(r.max))

\* Every variable holds a value of its type; a CLP waits for replies from
\* neighbours that the query did not come from.
TypeOK ==
  /\ \A v \in Variables : value[v] \in Values[v]
  /\ \A c \in Clps, p \in AllPorts :
       /\ IsRange(range[c][p])
       /\ noted[c][p] \in Seq([query : Queries, blocked : BOOLEAN])
  /\ \A c \in Clps : \A q \in DOMAIN tracker[c] :
       /\ tracker[c][q].outstanding \subseteq ClpPorts(c) \ {PortToAlp(c, From[q])}
       /\ tracker[c][q].found \subseteq Found
  /\ \A pair \in Neighbours : \A m \in ToSet(link[pair]) :
       \/ m.kind = "query" /\ m.query \in asked /\ m.found \subseteq Found
       \/ m.kind = "anti" /\ m.query \in cancelled
       \/ m.kind = "update" /\ IsRange(m.range) /\ pair \in Clps \X Clps
  /\ cancelled \union rolledBack \union lost \union crossed \union misled \subseteq asked
  /\ \A q \in Queries : answer[q] = NoAnswer \/ answer[q] \subseteq Found
  /\ replaced \subseteq Clps \X Ports \X Clps /\ changes \in 0 .. MaxChanges

IsReply(pair, q) == PortTo(pair[2], pair[1]) # PortToAlp(pair[2], From[q])

\* A query and a reply are the same message: a CLP takes a query that it has an
\* entry for as a reply, and deletes the entry when the last reply is in.  No
\* reply comes when the entry is gone and would be taken as a new query, and no
\* query comes while there is one and would be taken as a reply.
RepliesAreExpected ==
  \A pair \in IntoClp : \A m \in ToSet(link[pair]) :
    m.kind = "query" =>
      IF IsReply(pair, m.query)
      THEN /\ m.query \in DOMAIN tracker[pair[2]]
           /\ PortTo(pair[2], pair[1]) \in tracker[pair[2]][m.query].outstanding
      ELSE m.query \notin DOMAIN tracker[pair[2]]

\* Whether link pair is part of the way from CLP h to CLP l.
OnTheWay(pair, h, l) ==
  LET x == pair[1]
  IN /\ x # l /\ pair[2] = NextClp(x, l)
     /\ x = h \/ NextClp(x, h) # pair[2]

\* What the answer to q says of v, and what it would say now.
Answered(q, v) == {f \in answer[q] : f[1] = v}
Now(q, v)      == IF IsValueOverlapping(Rectangle[q], value[v]) THEN {<<v, value[v]>>} ELSE {}

\* The news of v's CLP has still to reach the CLP of q's agent, or is lost on the way
\* because an update for other CLPs replaced the range that stood for v's too.
NotYetSeen(q, v) ==
  \E pair \in Neighbours \intersect (Clps \X Clps) :
    /\ OnTheWay(pair, Home[v], AlpToClp[From[q]])
    /\ \/ \E m \in ToSet(link[pair]) :
            m.kind = "update" /\ m.source = PortToward(pair[1], Home[v])
       \/ <<pair[2], PortTo(pair[2], pair[1]), Home[v]>> \in replaced

\* An answer that is not right any more, because a value changed while or after
\* the query walked through the tree, at a CLP that had read for it or that it
\* never reached, is rolled back, at the latest when no update is on its way.
\* The exceptions are faults of the code: IsRangeOverlapping does not see ranges
\* that cross, SendRangeUpdates sends the range of one port where it should send
\* that of all, and RollbackList has one entry for two agents that LpId::operator<
\* does not tell apart, as it does no two of one ALP.
StaleAnswersAreRolledBack ==
  \A q \in asked \ (cancelled \union rolledBack \union lost \union crossed) :
    answer[q] # NoAnswer =>
      \A v \in Variables : Answered(q, v) = Now(q, v) \/ NotYetSeen(q, v)

\* The anti-message of a query finds every CLP where the query is noted, unless
\* on its way an entry of another query, asked for its status in place of the
\* right one, says that the port was blocked.
CancelledQueriesAreForgotten ==
  \A q \in cancelled \ misled :
    \/ \E pair \in Neighbours : Anti(q) \in ToSet(link[pair])
    \/ \A c \in Clps, p \in AllPorts : \A e \in ToSet(noted[c][p]) : e.query # q

\* The agent is answered: no port stays unscanned and no reply is lost.
EveryQueryIsAnswered == \A q \in Queries : q \in asked ~> answer[q] # NoAnswer
=============================================================================
