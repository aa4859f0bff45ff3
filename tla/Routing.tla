------------------------------- MODULE Routing -------------------------------
(***************************************************************************)
(* The tree of CLPs: routing by direction, and the migration of variables  *)
(* towards the agents that use them.                                       *)
(*                                                                         *)
(* Each CLP keeps, for each variable, the direction in which the variable  *)
(* is, and forwards what is not for it that way.  When GVT is set a CLP    *)
(* whose load is too high sends the variables that are mostly used from    *)
(* one direction one step in that direction; only the two CLPs concerned   *)
(* change their tables.  A state migration overtakes all other messages in *)
(* the send queue of the one and in the receive queue of the other.        *)
(*                                                                         *)
(* link[<<x, y>>] is everything between x's handlers and y's: x's send     *)
(* queue, the MPI channel, y's receive queue.  A migration may therefore   *)
(* be taken from anywhere in a link, any other message only from its head. *)
(* Reads and writes are routed alike and are both requests here; what they *)
(* do to the variable is in TimeWarp.                                      *)
(***************************************************************************)
EXTENDS ClpTree, SequencesExt

CONSTANTS
  Agents,          \* the agents ...
  AlpOf,           \* ... and the rank of each one's ALP
  Variables,       \* the shared state variables ...
  InitialClp,      \* ... and the CLP of each (Initialisor::GetClpToSsvMap)
  PortThreshold,   \* fPortThreshold
  MaxRequests,     \* bound: the requests of each agent
  MaxAntis         \* bound: the requests cancelled, all agents together

ASSUME RoutingAssumption ==
  /\ AlpOf \in [Agents -> Alps]
  /\ InitialClp \in [Variables -> Clps]
  /\ PortThreshold \in Nat /\ MaxRequests \in [Agents -> Nat] /\ MaxAntis \in Nat

\* fSSVIDToDirectionMap as the constructor leaves it.
InitialDirection(c, v) ==
  IF InitialClp[v] = c THEN "HERE" ELSE PortTo(c, NextClp(c, InitialClp[v]))

-----------------------------------------------------------------------------
VARIABLES
  direction,   \* per CLP and variable, fSSVIDToDirectionMap
  store,       \* per CLP, fSharedState: for each variable here, what was done to it
  accesses,    \* per variable, fSSVPortAccessMap of the CLP that has it
  hops,        \* per variable, fSSVPortHopMap of the CLP that has it
  load,        \* per CLP, fCLPLoad
  link,        \* per pair of neighbours, the messages on their way
  asked,       \* per agent, its requests so far: the variable, and its moves until then
  waitingFor,  \* per agent, the number of the request it is blocked on, or 0
  sendList,    \* per agent, its requests on the send list of its ALP, in order
  answered,    \* history variable: the requests whose response has arrived
  moves        \* history variable: how often each variable has arrived at a new CLP

clpVars   == <<direction, store, accesses, hops, load>>
agentVars == <<asked, waitingFor, sendList>>
histVars  == <<answered, moves>>
vars      == <<clpVars, link, agentVars, histVars>>

Access(type, a, n, v) == [type |-> type, agent |-> a, n |-> n, var |-> v]
Numbers  == UNION {1 .. MaxRequests[a] : a \in Agents}
Requests == [type : {"request"}, agent : Agents, n : Numbers, var : Variables]
Antis    == [type : {"anti"}, agent : Agents, n : Numbers, var : Variables]

\* Variant of Carried that leaves NumberOfHops uninitialised.
CarriedUncounted(m, h) == [kind |-> "access", access |-> m, hops |-> h - 2]

\* What travels: a request or anti-message with its NumberOfHops, a response to
\* a request, or the variables a StateMigrationMessage carries.
Carried(m, h)   == [kind |-> "access", access |-> m, hops |-> h]
Response(m)     == [kind |-> "response", access |-> m, hops |-> 0]
Migration(vals) == [kind |-> "migration", variables |-> vals]

\* Variant of AntisFrom that steps over the first.
AntisAfter(a, k) ==
  [i \in 1 .. Len(sendList[a]) - k |->
     Carried([sendList[a][k + i] EXCEPT !.type = "anti"], 0)]

\* Agent a's requests from place k of the send list on, as anti-messages.
AntisFrom(a, k) ==
  [i \in 1 .. Len(sendList[a]) - k + 1 |->
     Carried([sendList[a][k + i - 1] EXCEPT !.type = "anti"], 0)]

\* The requests that have been cancelled.
SentRequests ==
  UNION {{Access("request", a, n, asked[a][n].var) : n \in DOMAIN asked[a]} : a \in Agents}

Cancelled == {q \in SentRequests : q \notin ToSet(sendList[q.agent])}

\* Map old with the entries of map new.
Updated(old, new) ==
  [x \in DOMAIN old \union DOMAIN new |-> IF x \in DOMAIN new THEN new[x] ELSE old[x]]

NoAccess == [p \in Ports |-> 0]

Init ==
  /\ direction  = [c \in Clps |-> [v \in Variables |-> InitialDirection(c, v)]]
  /\ store      = [c \in Clps |-> [v \in {x \in Variables : InitialClp[x] = c} |-> <<>>]]
  /\ accesses   = [v \in Variables |-> NoAccess]
  /\ hops       = [v \in Variables |-> NoAccess]
  /\ load       = [c \in Clps |-> 0]
  /\ link       = [pair \in Neighbours |-> <<>>]
  /\ asked      = [a \in Agents |-> <<>>]
  /\ waitingFor = [a \in Agents |-> 0]
  /\ sendList   = [a \in Agents |-> <<>>]
  /\ answered   = {}
  /\ moves      = [v \in Variables |-> 0]

-----------------------------------------------------------------------------
(* The agents and their ALPs.                                              *)

ToParent(a) == <<AlpOf[a], AlpToClp[AlpOf[a]]>>

\* Variant of Queue that lets anti-messages pass what is queued.
QueueInFront(a, messages) == [link EXCEPT ![ToParent(a)] = messages \o @]

\* Lp::QueueSendMessage of the ALP of a.
Queue(a, messages) == [link EXCEPT ![ToParent(a)] = @ \o messages]

\* An agent sends a request and blocks on the response.
Issue(a, v) ==
  LET n == Len(asked[a]) + 1
      m == Access("request", a, n, v)
  IN /\ waitingFor[a] = 0
     /\ n <= MaxRequests[a]
     /\ asked'      = [asked EXCEPT ![a] = Append(@, [var |-> v, era |-> moves[v]])]
     /\ waitingFor' = [waitingFor EXCEPT ![a] = n]
     /\ sendList'   = [sendList EXCEPT ![a] = Append(@, m)]
     /\ link'       = Queue(a, <<Carried(m, 0)>>)
     /\ UNCHANGED <<clpVars, histVars>>

\* Alp::ProcessRollback, whatever caused it: the agent is taken back to before
\* the k-th request on its send list, and what it sent since is cancelled.
Cancel(a, k) ==
  /\ k \in 1 .. Len(sendList[a])
  /\ Cardinality(Cancelled) + Len(sendList[a]) - k + 1 <= MaxAntis
  /\ waitingFor' = [waitingFor EXCEPT ![a] = 0]
  /\ sendList'   = [sendList EXCEPT ![a] = SubSeq(@, 1, k - 1)]
  /\ link'       = Queue(a, AntisFrom(a, k))
  /\ UNCHANGED <<clpVars, asked, histVars>>

\* Alp::ProcessMessage of a response, and the agent wakes up if it waits for it.
AlpReceive(r) ==
  LET in == <<AlpToClp[r], r>>
  IN /\ link[in] # <<>>
     /\ LET m == Head(link[in]).access
        IN /\ answered'   = answered \union {m}
           /\ waitingFor' = [waitingFor EXCEPT ![m.agent] = IF @ = m.n THEN 0 ELSE @]
     /\ link' = [link EXCEPT ![in] = Tail(@)]
     /\ UNCHANGED <<clpVars, asked, sendList, moves>>

-----------------------------------------------------------------------------
(* The CLP's main thread.                                                  *)

\* Variant of First without the priority of load-balancing messages.
FirstOrdinary(x, c) == SelectInSeq(link[<<x, c>>], LAMBDA m : m.kind # "migration")

\* Where in a link the message is that Clp::Receive takes next, migrations apart.
First(x, c) == IF link[<<x, c>>] = <<>> THEN 0 ELSE 1

\* The links when CLP c has taken that message, and when it has sent m to y.
Taken(x, c)        == [link EXCEPT ![<<x, c>>] = RemoveAt(@, First(x, c))]
Passed(x, c, y, m) == [Taken(x, c) EXCEPT ![<<c, y>>] = Append(@, m)]

IsNext(x, c, kind) == First(x, c) # 0 /\ link[<<x, c>>][First(x, c)].kind = kind

\* Router::Route(SingleReadMessage) and its like, of a variable elsewhere.
Forward(x, c) ==
  /\ IsNext(x, c, "access")
  /\ LET m == link[<<x, c>>][First(x, c)]
         d == direction[c][m.access.var]
     IN /\ d # "HERE"
        /\ link' = Passed(x, c, RankOf(c, d), Carried(m.access, m.hops + 1))
  /\ UNCHANGED <<clpVars, agentVars, histVars>>

\* Router::Route(SingleReadResponseMessage) and its like.
ForwardResponse(x, c) ==
  /\ IsNext(x, c, "response")
  /\ LET m == link[<<x, c>>][First(x, c)]
     IN link' = Passed(x, c, RankOf(c, PortToAlp(c, AlpOf[m.access.agent])), m)
  /\ UNCHANGED <<clpVars, agentVars, histVars>>

\* Clp::ProcessMessage of a request or an anti-message: SharedState ends the
\* process when it does not have the variable; a request is answered; then
\* UpdateAccessCount and UpdateLoad.
Execute(x, c) ==
  /\ IsNext(x, c, "access")
  /\ LET m    == link[<<x, c>>][First(x, c)]
         q    == m.access
         h    == m.hops + 1
         port == PortToAlp(c, AlpOf[q.agent])
     IN /\ direction[c][q.var] = "HERE"
        /\ q.var \in DOMAIN store[c]
        /\ store'    = [store EXCEPT ![c][q.var] = Append(@, q)]
        /\ accesses' = [accesses EXCEPT ![q.var][port] = @ + 1]
        /\ hops'     = [hops EXCEPT ![q.var][port] = @ + h]
        /\ load'     = [load EXCEPT ![c] = @ + h]
        /\ link'     = IF q.type = "request"
                       THEN Passed(x, c, RankOf(c, port), Response(q))
                       ELSE Taken(x, c)
  /\ UNCHANGED <<direction, agentVars, histVars>>

\* Variant of SetSsvIdDirection that leaves the table as it is.
DirectionKept(c, new) == direction

\* Router::SetSsvIdDirection, of each variable in the domain of new.
SetSsvIdDirection(c, new) == [direction EXCEPT ![c] = Updated(@, new)]

\* Variant of GetCopy, of a variable that has been emptied already.
CopyOfNothing(c, vs) == [v \in vs |-> <<>>]

\* SharedState::GetCopy and SharedState::Delete.
GetCopy(c, vs) == Restrict(store[c], vs)

\* Variant of Delete that does not delete.
DeleteNothing(c, vs) == store[c]

Delete(c, vs)  == Restrict(store[c], DOMAIN store[c] \ vs)

\* AccessCostCalculator::GetMigrationMap: v is to leave by a port that accounts
\* for more than two thirds of its accesses, if these cost enough.
Total(f) == f["UP"] + f["LEFT"] + f["RIGHT"]

PortAccessCost(v) == Total([p \in Ports |-> accesses[v][p] * hops[v][p]])

LeavesBy(c, v, port) ==
  /\ v \in DOMAIN store[c]
  /\ PortAccessCost(v) > PortThreshold
  /\ accesses[v][port] > 2 * (Total(accesses[v]) - accesses[v][port])
  /\ IsParentClp(c) => port = "UP"

\* AccessCostCalculator::CheckClpLoad.
IsLoaded(c) == load[c] > Cardinality(DOMAIN store[c]) * PortThreshold

\* Clp::MigrateStateVariables: to each neighbour one message with a copy of the
\* variables that go there; they are deleted here and their direction is set.
Migrate(c) ==
  LET Leaving(port) == {v \in Variables : LeavesBy(c, v, port)}
      leaving       == UNION {Leaving(port) : port \in Ports}
      To(y)         == UNION {Leaving(port) : port \in {p \in PortsOf(c) : RankOf(c, p) = y}}
  IN /\ link'      = [pair \in Neighbours |->
                        IF pair[1] = c /\ To(pair[2]) # {}
                        THEN Append(link[pair], Migration(GetCopy(c, To(pair[2]))))
                        ELSE link[pair]]
     /\ direction' = SetSsvIdDirection(c, [v \in leaving |->
                                             CHOOSE p \in Ports : v \in Leaving(p)])
     /\ store'     = [store EXCEPT ![c] = Delete(c, leaving)]
     /\ accesses'  = Updated(accesses, [v \in leaving |-> NoAccess])
     /\ hops'      = Updated(hops, [v \in leaving |-> NoAccess])

\* Clp::SetGvt, the part that balances the load.
SetGvt(c) ==
  /\ load[c] # 0
  /\ load' = [load EXCEPT ![c] = 0]
  /\ IF IsLoaded(c)
     THEN Migrate(c)
     ELSE UNCHANGED <<direction, store, accesses, hops, link>>
  /\ UNCHANGED <<agentVars, histVars>>

\* Clp::ProcessMessage(StateMigrationMessage), SharedState::Insert: of the
\* migrations in the link the first, wherever it is.
Receive(x, c) ==
  LET i == SelectInSeq(link[<<x, c>>], LAMBDA m : m.kind = "migration")
  IN /\ i # 0
     /\ LET arriving == link[<<x, c>>][i].variables
        IN /\ store'     = [store EXCEPT ![c] = Updated(@, arriving)]
           /\ direction' = SetSsvIdDirection(c, [v \in DOMAIN arriving |-> "HERE"])
           /\ moves'     = Updated(moves, [v \in DOMAIN arriving |-> moves[v] + 1])
     /\ link' = [link EXCEPT ![<<x, c>>] = RemoveAt(@, i)]
     /\ UNCHANGED <<accesses, hops, load, agentVars, answered>>

-----------------------------------------------------------------------------
ClpReceive(x, c) == Forward(x, c) \/ ForwardResponse(x, c) \/ Execute(x, c) \/ Receive(x, c)

IntoClp == {pair \in Neighbours : pair[2] \in Clps}

Next ==
  \/ \E a \in Agents, v \in Variables : Issue(a, v)
  \/ \E a \in Agents, k \in Numbers : Cancel(a, k)
  \/ \E r \in Alps : AlpReceive(r)
  \/ \E pair \in IntoClp : ClpReceive(pair[1], pair[2])
  \/ \E c \in Clps : SetGvt(c)

(***************************************************************************)
(* Every thread runs and MPI delivers: what is in a link is taken in the   *)
(* end.  Nobody has to issue, cancel, or compute a GVT.                    *)
(***************************************************************************)
Spec ==
  /\ Init
  /\ [][Next]_vars
  /\ \A r \in Alps : WF_vars(AlpReceive(r))
  /\ \A pair \in IntoClp : WF_vars(ClpReceive(pair[1], pair[2]))

-----------------------------------------------------------------------------
(* Properties.                                                             *)

Accesses == Requests \union Antis

\* Every variable holds a value of its type.
TypeOK ==
  /\ direction \in [Clps -> [Variables -> Ports \union {"HERE"}]]
  /\ \A c \in Clps : DOMAIN store[c] \subseteq Variables
  /\ \A c \in Clps : \A v \in DOMAIN store[c] : store[c][v] \in Seq(Accesses)
  /\ \A v \in Variables : accesses[v] \in [Ports -> Nat] /\ hops[v] \in [Ports -> Nat]
  /\ load \in [Clps -> Nat]
  /\ \A pair \in Neighbours : \A m \in ToSet(link[pair]) :
       \/ m.kind = "access" /\ m.access \in Accesses /\ m.hops \in Nat
       \/ m.kind = "response" /\ m.access \in Requests
       \/ m.kind = "migration" /\ pair \in Clps \X Clps
  /\ \A a \in Agents : asked[a] \in Seq([var : Variables, era : Nat])
  /\ waitingFor \in [Agents -> Numbers \union {0}]
  /\ \A a \in Agents : sendList[a] \in Seq(Requests)
  /\ answered \subseteq Requests
  /\ moves \in [Variables -> Nat]

Hosts(v) == {c \in Clps : v \in DOMAIN store[c]}

\* Where a variable is on its way: the link and its place there.
Flights(v) ==
  UNION {{<<pair, i>> : i \in {j \in DOMAIN link[pair] :
                                 /\ link[pair][j].kind = "migration"
                                 /\ v \in DOMAIN link[pair][j].variables}} : pair \in Neighbours}

\* A variable is in one place only: at one CLP, or in one state migration
\* message, and then at none (Clp::MigrateStateVariables, SharedState::Insert,
\* both of which end the process otherwise).
OnePlace == \A v \in Variables : Cardinality(Hosts(v)) + Cardinality(Flights(v)) = 1

\* The direction tables of all CLPs together lead to the variable from
\* everywhere, although only two of them change when it moves: each points to
\* the next CLP on the way to the host, and while the variable is on its way
\* from x to y, the tables of x and y point at each other and all others at x.
DirectionsLeadHome ==
  \A v \in Variables :
    /\ \A h \in Hosts(v) : \A c \in Clps :
         direction[c][v] = IF c = h THEN "HERE" ELSE PortTo(c, NextClp(c, h))
    /\ \A f \in Flights(v) :
         LET x == f[1][1]  y == f[1][2]
         IN \A c \in Clps :
              direction[c][v] = PortTo(c, IF c = x THEN y ELSE NextClp(c, x))

\* A message behind the migration that its variable left with is not taken
\* before it: a migration overtakes, but is never overtaken by, what was sent
\* to the new host because of it.  So the detour a message makes is bounded:
\* by the way from the agent to the variable, and two steps (back and forth)
\* for each move of the variable since the request was issued.
LongestWay == 1 + Max({Distance(c, d) : c \in Clps, d \in Clps})

Era(x) == asked[x.agent][x.n].era

DetoursAreBounded ==
  \A pair \in Neighbours : \A m \in ToSet(link[pair]) :
     m.kind = "access" =>
       m.hops <= LongestWay + 2 * (moves[m.access.var] - Era(m.access))

Contents(v) ==
  IF Hosts(v) # {} THEN store[CHOOSE c \in Hosts(v) : TRUE][v]
  ELSE LET f == CHOOSE f \in Flights(v) : TRUE
       IN link[f[1]][f[2]].variables[v]

PositionIn(seq, e) == SelectInSeq(seq, LAMBDA x : x = e)

\* An anti-message cancels a request only if the request has been executed
\* before.  ALP, links and queues keep their order, so that an anti-message
\* executed before its request means that the variable has moved since the
\* request was issued: the request was then on its way to the old place, or
\* being sent on from there, when the anti-message met the variable.
OvertakenOnlyByAMove ==
  \A v \in Variables : \A x \in ToSet(Contents(v)) :
     LET q == [x EXCEPT !.type = "request"]
     IN x.type = "anti" =>
          \/ PositionIn(Contents(v), q) \in 1 .. PositionIn(Contents(v), x)
          \/ moves[v] > Era(x)

\* The messages sent: the requests issued, and the anti-messages of those that
\* are no longer on the send list.
Sent == SentRequests \union {[q EXCEPT !.type = "anti"] : q \in Cancelled}

\* Remote access, with what was done to each variable wherever it is.
Abstract == INSTANCE RemoteAccess WITH
  sent <- Sent,
  log <- [v \in Variables |-> Contents(v)]

OnItsWay(kind, m) ==
  \E pair \in Neighbours : \E i \in DOMAIN link[pair] :
    link[pair][i].kind = kind /\ link[pair][i].access = m

\* No message is lost and none is executed twice, although migrations overtake
\* it and tables change under it: what has been sent is either on its way or
\* executed, and what has been executed is either answered or its response is on
\* its way.
NothingIsLost ==
  /\ \A m \in Sent : OnItsWay("access", m) <=> m \notin Abstract!Executed
  /\ \A m \in Abstract!Executed \intersect Requests :
       OnItsWay("response", m) <=> m \notin answered

\* The tree implements what RemoteAccess promises: each message is executed
\* once, wherever the variable is and however often it moves, and every request
\* executed is answered once.
ImplementsRemoteAccess == Abstract!Spec
=============================================================================
