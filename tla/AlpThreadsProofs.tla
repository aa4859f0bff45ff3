-------------------------- MODULE AlpThreadsProofs --------------------------
(***************************************************************************)
(* Proofs about AlpThreads, for any agents, end times and rollbacks: the   *)
(* types, and that a rollback leaves nothing behind but what the known     *)
(* windows let through.                                                    *)
(***************************************************************************)
EXTENDS AlpThreads, ListTheorems

-----------------------------------------------------------------------------
(* The inductive invariant.                                                *)

Requests ==
  {m \in [type : {"read", "write"}, agent : Agents, id : Nat \ {0}, time : Nat] :
     m.time <= EndTime[m.agent]}

Antis     == {Anti(m) : m \in Requests}
Responses == {Response(m, ok) : m \in Requests, ok \in BOOLEAN}
Rollbacks == {Rollback(a, t) : a \in Agents, t \in Nat}

\* The requests by where they are.
Queued    == {m \in ToSet(sendQueue) : m \in Requests}
Recalled  == {m \in Requests : Anti(m) \in ToSet(sendQueue)}
OnList    == ToSet(sendList)
Answers   == {r \in ToSet(fromClp) : r \in Responses}
Answering == {r.to : r \in Answers}
Refused   == {r.to : r \in {x \in Answers : ~x.ok}}
Known     == Queued \union Recalled \union InHand \union OnList \union atClp \union Answering

AgentsTyped ==
  /\ agent \in [Agents -> {"cycle", "numbering", "waiting", "final", "stopped"}]
  /\ {ready, aborted, cancel} \subseteq [Agents -> BOOLEAN]
  /\ current \in [Agents -> Requests \union {None}]
  /\ history \in [Agents -> SUBSET Nat]
  /\ timeline \in [Agents -> SUBSET Requests]
  /\ \A a \in Agents :
       /\ history[a] \subseteq 0 .. EndTime[a] /\ 0 \in history[a]
       /\ agent[a] \in {"numbering", "waiting"} => Lvt(a) < EndTime[a]
       /\ agent[a] = "waiting" => current[a] \in Requests /\ current[a].id <= given

AlpTyped ==
  /\ sendQueue \in Seq(Requests \union Antis)
  /\ sendList \in Seq(Requests)
  /\ awaitedId \in [Agents -> 0 .. given]
  /\ response \in [Agents -> Responses \union {None}]
  /\ send \in {Nothing} \union [at : {"list", "note"}, msg : Requests]
  /\ main \in {Nothing} \union [at : {"join", "recall", "restart"}, msg : Rollbacks]

ClpTyped ==
  /\ fromClp \in Seq(Responses \union Rollbacks)
  /\ atClp \subseteq Requests /\ slipped \subseteq Requests
  /\ lastId \in Nat /\ given \in 0 .. lastId
  /\ \A m \in Known \union slipped : m.id <= given

\* A request is in one place at a time, and has one response.
Stages ==
  /\ OnceEach(sendQueue, Requests)
  /\ Queued \cap (Recalled \union InHand \union OnList \union atClp \union Answering) = {}
  /\ InHand \cap (atClp \union Answering) = {}
  /\ Refused \cap atClp = {}
  /\ OnceEach(fromClp, Responses)
  /\ \A r, q \in Answers : r.to = q.to => r = q

\* The flags of an agent tell whether the main thread is rolling it back.
Rolling ==
  /\ \A a \in Agents :
       aborted[a] \/ cancel[a] \/ agent[a] = "stopped" => main # Nothing /\ main.msg.agent = a
  /\ main # Nothing =>
       LET a == main.msg.agent
       IN /\ aborted[a] /\ cancel[a] /\ ~ready[a]
          /\ main.at = "join" => main.msg.time <= Lvt(a)
          /\ main.at # "join" => agent[a] = "stopped"

\* Requests of two agents may have the same identifier.
Numbered ==
  /\ \A m, n \in Known :
       m # n /\ m.id = n.id => m.id \in twins /\ m.agent # n.agent
  /\ \A a \in Agents :
       agent[a] = "numbering" => lastId # 0 /\ \A m \in Known : m.agent = a => m.id < lastId

\* What has left the ALP, or is about to, is on the send list.
IsListed ==
  \A m \in (atClp \union IF send.at = "note" THEN InHand ELSE {}) \ Recalled :
    m \in OnList \/ HasTwin(m)

\* What is in force belongs to the agent's present past.
IsOfThePast ==
  \A m \in (Queued \union InHand \union atClp) \ Recalled :
    \/ m \in timeline[m.agent]
    \/ m \in slipped \/ HasTwin(m)
    \/ /\ main.at = "recall" /\ m \notin Queued
       /\ IsRolledBack(m, main.msg.agent, main.msg.time)

\* An agent has one request under way, which it waits for, ...
OneUnderWay(a) ==
  \A m \in Queued \union InHand :
    m.agent = a => m = current[a] /\ agent[a] \in {"waiting", "stopped"}

\* ...not older than its LVT while it is in the queue; a rollback removes it.
NotYetSent(a) ==
  \A m \in Queued :
    m.agent = a =>
      /\ IF m.type = "read" THEN m.time >= Lvt(a) ELSE m.time > Lvt(a)
      /\ main # Nothing /\ main.msg.agent = a => main.at = "join"

\* The response it awaits is that to this request, and has not been there...
Awaited(a) ==
  \A m \in Answering :
    m.agent = a /\ m.id = awaitedId[a] =>
      m = current[a] /\ agent[a] \in {"waiting", "stopped"} /\ ~ready[a]

\* ...until it is woken with it.
Woken(a) ==
  ready[a] =>
    /\ agent[a] = "waiting"
    /\ response[a] # None /\ response[a].to = current[a]
    /\ \A m \in Queued \union InHand : m.agent # a

WaitsFor(a) == OneUnderWay(a) /\ NotYetSent(a) /\ Awaited(a) /\ Woken(a)

Waits == \A a \in Agents \ revived : WaitsFor(a)

IInv ==
  /\ AgentsTyped /\ AlpTyped /\ ClpTyped
  /\ Stages /\ Rolling /\ Numbered /\ IsListed /\ IsOfThePast /\ Waits

-----------------------------------------------------------------------------
(* Messages, lists and places.                                             *)

\* What a message is can be told from its type.
LEMMA MessageFacts ==
  /\ \A m \in Requests :
       /\ m.agent \in Agents /\ m.id \in Nat /\ m.id # 0 /\ m.time \in Nat
       /\ m.time <= EndTime[m.agent] /\ m.type \in {"read", "write"}
       /\ IsRequest(m) /\ m # None /\ m \notin Antis
       /\ Anti(m) \in Antis /\ Anti(m).of = m /\ Anti(m).type = "anti"
       /\ Anti(m) \notin Requests
       /\ \A ok \in BOOLEAN :
            /\ Response(m, ok) \in Responses /\ Response(m, ok).to = m
            /\ Response(m, ok).ok = ok
  /\ \A m \in Antis : m.of \in Requests /\ m = Anti(m.of) /\ ~IsRequest(m)
  /\ \A r \in Responses :
       /\ r.type = "response" /\ r.to \in Requests /\ r.ok \in BOOLEAN
       /\ r = Response(r.to, r.ok) /\ r # None /\ r \notin Rollbacks
  /\ \A r \in Rollbacks :
       r.type = "rollback" /\ r.agent \in Agents /\ r.time \in Nat /\ r \notin Responses
  /\ \A a \in Agents, t \in Nat :
       /\ Rollback(a, t) \in Rollbacks
       /\ Rollback(a, t).agent = a /\ Rollback(a, t).time = t
  /\ Nothing.at = "idle"
<1>1. \A m \in Requests :
        /\ m.agent \in Agents /\ m.id \in Nat /\ m.id # 0 /\ m.time \in Nat
        /\ m.time <= EndTime[m.agent] /\ m.type \in {"read", "write"}
        /\ IsRequest(m) /\ m # None
  BY DEF Requests, IsRequest, None
<1>2. \A m : Anti(m).of = m /\ Anti(m).type = "anti"
  BY DEF Anti
<1>3. \A m \in Requests : Anti(m) \in Antis
  BY DEF Antis
<1>4. \A m \in Antis : m.of \in Requests /\ m = Anti(m.of) /\ m.type = "anti"
  BY <1>2 DEF Antis
<1>5. \A m \in Antis : ~IsRequest(m)
  BY <1>4 DEF IsRequest
<1>6. \A m, ok : /\ Response(m, ok).to = m /\ Response(m, ok).ok = ok
                 /\ Response(m, ok).type = "response"
  BY DEF Response
<1>7. \A m \in Requests, ok \in BOOLEAN : Response(m, ok) \in Responses
  BY DEF Responses
<1>8. \A r \in Responses : /\ r.type = "response" /\ r.to \in Requests /\ r.ok \in BOOLEAN
                           /\ r = Response(r.to, r.ok)
  <2> SUFFICES ASSUME NEW r \in Responses
               PROVE  /\ r.type = "response" /\ r.to \in Requests /\ r.ok \in BOOLEAN
                      /\ r = Response(r.to, r.ok)
    OBVIOUS
  <2>1. PICK m \in Requests, ok \in BOOLEAN : r = Response(m, ok)
    BY DEF Responses
  <2> QED
    BY <1>6, <2>1
<1>9. \A a, t : /\ Rollback(a, t).type = "rollback"
                /\ Rollback(a, t).agent = a /\ Rollback(a, t).time = t
  BY DEF Rollback
<1>10. \A a \in Agents, t \in Nat : Rollback(a, t) \in Rollbacks
  BY DEF Rollbacks
<1>11. \A r \in Rollbacks : r.type = "rollback" /\ r.agent \in Agents /\ r.time \in Nat
  <2> SUFFICES ASSUME NEW r \in Rollbacks
               PROVE  r.type = "rollback" /\ r.agent \in Agents /\ r.time \in Nat
    OBVIOUS
  <2>1. PICK a \in Agents, t \in Nat : r = Rollback(a, t)
    BY DEF Rollbacks
  <2> QED
    BY <1>9, <2>1
<1>12. \A r \in Responses : r # None
  BY <1>8 DEF None
<1> QED
  BY <1>1, <1>2, <1>3, <1>4, <1>5, <1>6, <1>7, <1>8, <1>9, <1>10, <1>11, <1>12 DEF Nothing

\* The LVT of an agent is the last time of its history.
LEMMA LvtFacts ==
  ASSUME AgentsTyped, NEW a \in Agents
  PROVE  /\ Lvt(a) \in history[a] /\ Lvt(a) \in Nat
         /\ \A h \in history[a] : h <= Lvt(a)
<1>1. /\ EndTime[a] \in Nat /\ history[a] \in SUBSET (0 .. EndTime[a]) /\ history[a] # {}
  BY AlpThreadsAssumption DEF AgentsTyped
<1>2. Max(history[a]) \in history[a] /\ \A h \in history[a] : h <= Max(history[a])
  BY <1>1, MaxOfSet
<1> QED
  BY <1>1, <1>2 DEF Lvt

\* The places of requests change with the variables they are read from.
LEMMA SamePlaces ==
  /\ sendQueue' = sendQueue => Queued' = Queued /\ Recalled' = Recalled
  /\ sendList' = sendList => OnList' = OnList
  /\ send' = send => InHand' = InHand
  /\ fromClp' = fromClp => Answers' = Answers /\ Answering' = Answering /\ Refused' = Refused
BY DEF Queued, Recalled, OnList, InHand, Answers, Answering, Refused

\* The places of the requests hold requests.
LEMMA PlacesTyped ==
  ASSUME AlpTyped, ClpTyped
  PROVE  /\ Known \subseteq Requests
         /\ Queued \subseteq Requests /\ Recalled \subseteq Requests /\ InHand \subseteq Requests
         /\ OnList \subseteq Requests /\ Answering \subseteq Requests
         /\ Answers \subseteq Responses /\ Refused \subseteq Answering
         /\ \A r \in Answers : r.to \in Answering
<1>1. OnList \subseteq Requests
  BY TailFacts DEF OnList, AlpTyped
<1>2. InHand \subseteq Requests
  BY DEF InHand, AlpTyped
<1>3. Queued \subseteq Requests /\ Recalled \subseteq Requests
  BY DEF Queued, Recalled
<1>4. Answering \subseteq Requests /\ Answers \subseteq Responses
  BY MessageFacts DEF Answering, Answers
<1>5. Refused \subseteq Answering /\ \A r \in Answers : r.to \in Answering
  BY DEF Refused, Answering
<1> QED
  BY <1>1, <1>2, <1>3, <1>4, <1>5 DEF Known, ClpTyped

\* The send queue with a request more.
LEMMA QueueAppend ==
  ASSUME AlpTyped, NEW m \in Requests, sendQueue' = Append(sendQueue, m)
  PROVE  /\ sendQueue' \in Seq(Requests \union Antis)
         /\ Queued' = Queued \union {m} /\ Recalled' = Recalled
         /\ OnceEach(sendQueue, Requests) /\ m \notin Queued => OnceEach(sendQueue', Requests)
<1> DEFINE s == sendQueue
<1>1. s \in Seq(Requests \union Antis) /\ m \in Requests \union Antis
  BY DEF AlpTyped
<1> HIDE DEF s
<1>2. /\ Append(s, m) \in Seq(Requests \union Antis)
      /\ ToSet(Append(s, m)) = ToSet(s) \union {m}
      /\ \A S : OnceEach(s, S) /\ (m \in S => m \notin ToSet(s)) => OnceEach(Append(s, m), S)
  BY <1>1, AppendFacts
<1>3. \A n \in Requests : Anti(n) # m
  BY MessageFacts
<1> QED
  BY <1>2, <1>3 DEF s, Queued, Recalled

\* The messages from the CLP with one more.
LEMMA FromClpAppend ==
  ASSUME ClpTyped, NEW r \in Responses \union Rollbacks, fromClp' = Append(fromClp, r)
  PROVE  /\ fromClp' \in Seq(Responses \union Rollbacks)
         /\ r \in Responses =>
              /\ Answers' = Answers \union {r} /\ Answering' = Answering \union {r.to}
              /\ Refused' = Refused \union IF r.ok THEN {} ELSE {r.to}
              /\ OnceEach(fromClp, Responses) /\ r \notin Answers => OnceEach(fromClp', Responses)
         /\ r \notin Responses =>
              /\ Answers' = Answers /\ Answering' = Answering /\ Refused' = Refused
              /\ OnceEach(fromClp, Responses) => OnceEach(fromClp', Responses)
<1> DEFINE s == fromClp
<1>1. s \in Seq(Responses \union Rollbacks)
  BY DEF ClpTyped
<1> HIDE DEF s
<1>2. /\ Append(s, r) \in Seq(Responses \union Rollbacks)
      /\ ToSet(Append(s, r)) = ToSet(s) \union {r}
      /\ \A S : OnceEach(s, S) /\ (r \in S => r \notin ToSet(s)) => OnceEach(Append(s, r), S)
  BY <1>1, AppendFacts
<1>3. Answers' = IF r \in Responses THEN Answers \union {r} ELSE Answers
  BY <1>2 DEF s, Answers
<1>4. /\ Answering' = {q.to : q \in Answers'}
      /\ Refused' = {q.to : q \in {x \in Answers' : ~x.ok}}
  BY DEF Answering, Refused
<1>5. r \in Responses => Answering' = Answering \union {r.to}
                      /\ Refused' = Refused \union IF r.ok THEN {} ELSE {r.to}
  BY <1>3, <1>4 DEF Answering, Refused
<1>6. r \notin Responses => Answering' = Answering /\ Refused' = Refused
  BY <1>3, <1>4 DEF Answering, Refused
<1>7. r \in Responses /\ r \notin Answers => r \notin ToSet(s)
  BY DEF s, Answers
<1> QED
  BY <1>2, <1>3, <1>5, <1>6, <1>7 DEF s

\* The send queue without its head.
LEMMA QueueTail ==
  ASSUME AlpTyped, OnceEach(sendQueue, Requests), sendQueue # <<>>, sendQueue' = Tail(sendQueue)
  PROVE  /\ sendQueue' \in Seq(Requests \union Antis) /\ OnceEach(sendQueue', Requests)
         /\ IsRequest(Head(sendQueue)) =>
              /\ Head(sendQueue) \in Queued /\ Queued' = Queued \ {Head(sendQueue)}
              /\ Recalled' = Recalled
         /\ ~IsRequest(Head(sendQueue)) =>
              /\ Head(sendQueue).of \in Recalled
              /\ Queued' = Queued /\ Recalled' \subseteq Recalled
              /\ Recalled \subseteq Recalled' \union {Head(sendQueue).of}
<1> DEFINE s == sendQueue
           m == Head(s)
<1>1. s \in Seq(Requests \union Antis) /\ s # <<>>
  BY DEF AlpTyped
<1> HIDE DEF s
<1>2. /\ m \in Requests \union Antis /\ Tail(s) \in Seq(Requests \union Antis)
      /\ ToSet(s) = {m} \union ToSet(Tail(s))
      /\ \A S : OnceEach(s, S) => OnceEach(Tail(s), S) /\ (m \in S => m \notin ToSet(Tail(s)))
  BY <1>1, TailFacts
<1>3. OnceEach(Tail(s), Requests) /\ (m \in Requests => m \notin ToSet(Tail(s)))
  BY <1>2 DEF s
<1>4. sendQueue' = Tail(s) /\ sendQueue = s
  BY DEF s
<1> HIDE DEF m
<1>5. CASE m \in Requests
  <2>1. IsRequest(m) /\ \A n \in Requests : Anti(n) # m
    BY <1>5, MessageFacts
  <2> QED
    BY <1>2, <1>3, <1>4, <1>5, <2>1 DEF m, Queued, Recalled
<1>6. CASE m \in Antis
  <2>1. ~IsRequest(m) /\ m \notin Requests /\ m.of \in Requests /\ m = Anti(m.of)
    BY <1>6, MessageFacts
  <2>2. \A n \in Requests : Anti(n) = m => n = m.of
    BY MessageFacts
  <2> QED
    BY <1>2, <1>3, <1>4, <2>1, <2>2 DEF m, Queued, Recalled
<1> QED
  BY <1>2, <1>5, <1>6

\* The messages from the CLP without the first.
LEMMA FromClpTail ==
  ASSUME ClpTyped, Stages, fromClp # <<>>, fromClp' = Tail(fromClp)
  PROVE  /\ fromClp' \in Seq(Responses \union Rollbacks) /\ OnceEach(fromClp', Responses)
         /\ Head(fromClp) \in Responses \union Rollbacks
         /\ Head(fromClp) \in Responses =>
              /\ Head(fromClp) \in Answers /\ Answers' = Answers \ {Head(fromClp)}
              /\ Answering' = Answering \ {Head(fromClp).to}
              /\ Refused' = Refused \ {Head(fromClp).to}
         /\ Head(fromClp) \notin Responses =>
              Answers' = Answers /\ Answering' = Answering /\ Refused' = Refused
<1> DEFINE s == fromClp
           r == Head(s)
<1>1. s \in Seq(Responses \union Rollbacks) /\ s # <<>>
  BY DEF ClpTyped
<1> HIDE DEF s
<1>2. /\ r \in Responses \union Rollbacks /\ Tail(s) \in Seq(Responses \union Rollbacks)
      /\ ToSet(s) = {r} \union ToSet(Tail(s))
      /\ \A S : OnceEach(s, S) => OnceEach(Tail(s), S) /\ (r \in S => r \notin ToSet(Tail(s)))
  BY <1>1, TailFacts
<1>3. OnceEach(Tail(s), Responses) /\ (r \in Responses => r \notin ToSet(Tail(s)))
  BY <1>2 DEF s, Stages
<1>4. fromClp' = Tail(s) /\ fromClp = s
  BY DEF s
<1> HIDE DEF r
<1>5. /\ r \in Responses => r \in Answers /\ Answers' = Answers \ {r}
      /\ r \notin Responses => Answers' = Answers
  BY <1>2, <1>3, <1>4 DEF Answers
<1>6. /\ Answering' = {q.to : q \in Answers'}
      /\ Refused' = {q.to : q \in {x \in Answers' : ~x.ok}}
  BY DEF Answering, Refused
<1>7. \A q \in Answers : r \in Answers /\ r.to = q.to => r = q
  BY DEF Stages
<1>8. r \in Responses => Answering' = Answering \ {r.to} /\ Refused' = Refused \ {r.to}
  BY <1>5, <1>6, <1>7 DEF Answering, Refused
<1>9. r \notin Responses => Answering' = Answering /\ Refused' = Refused
  BY <1>5, <1>6 DEF Answering, Refused
<1> QED
  BY <1>2, <1>3, <1>4, <1>5, <1>8, <1>9 DEF r, s
-----------------------------------------------------------------------------
(* The initial states, and the steps of the agents.                        *)

\* No message is on its way, and no agent waits.
LEMMA InitKeeps == Init => IInv
<1> SUFFICES ASSUME Init PROVE IInv
  OBVIOUS
<1>1. /\ Queued = {} /\ Recalled = {} /\ InHand = {} /\ OnList = {} /\ atClp = {}
      /\ Answers = {} /\ Answering = {} /\ Refused = {} /\ Known = {}
  <2>1. ToSet(<<>>) = {}
    BY DEF ToSet
  <2>2. Queued = {} /\ Recalled = {} /\ OnList = {} /\ Answers = {} /\ InHand = {} /\ atClp = {}
    BY <2>1 DEF Init, Queued, Recalled, OnList, Answers, InHand
  <2>3. Answering = {} /\ Refused = {}
    BY <2>2 DEF Answering, Refused
  <2> QED
    BY <2>2, <2>3 DEF Known
<1>2. AgentsTyped
  <2>1. \A a \in Agents : EndTime[a] \in Nat
    BY AlpThreadsAssumption
  <2> QED
    BY <2>1 DEF Init, AgentsTyped
<1>3. AlpTyped
  BY DEF Init, AlpTyped, NoId
<1>4. ClpTyped
  BY <1>1 DEF Init, ClpTyped, NoId
<1>5. Stages
  <2>1. \A S : OnceEach(<<>>, S)
    BY DEF OnceEach
  <2> QED
    BY <1>1, <2>1 DEF Init, Stages
<1>6. Rolling /\ Numbered
  BY <1>1 DEF Init, Rolling, Numbered
<1>7. IsListed /\ IsOfThePast
  BY <1>1 DEF IsListed, IsOfThePast
<1>8. Waits
  BY <1>1 DEF Init, Waits, WaitsFor, OneUnderWay, NotYetSent, Awaited, Woken
<1> QED
  BY <1>2, <1>3, <1>4, <1>5, <1>6, <1>7, <1>8 DEF IInv

\* A step of an agent's thread alone leaves every request where it is.
LEMMA AgentOnly ==
  ASSUME IInv, UNCHANGED <<alpVars, clpVars, histVars>>, lastId' \in {lastId, lastId + 1}
  PROVE  /\ AlpTyped' /\ ClpTyped' /\ Stages' /\ IsListed' /\ IsOfThePast'
         /\ Queued' = Queued /\ InHand' = InHand /\ Answering' = Answering /\ Known' = Known
<1>1. /\ UNCHANGED <<sendQueue, sendList, awaitedId, response, send, main>>
      /\ UNCHANGED <<fromClp, atClp, rollbacks, given, twins, timeline, slipped, revived>>
  BY DEF alpVars, clpVars, histVars
<1>2. /\ Queued' = Queued /\ Recalled' = Recalled /\ InHand' = InHand /\ OnList' = OnList
      /\ Answers' = Answers /\ Answering' = Answering /\ Refused' = Refused
  BY <1>1, SamePlaces
<1>3. Known' = Known
  BY <1>1, <1>2 DEF Known
<1>4. AlpTyped'
  BY <1>1 DEF IInv, AlpTyped
<1>5. ClpTyped'
  BY <1>1, <1>3 DEF IInv, ClpTyped
<1>6. Stages'
  BY <1>1, <1>2 DEF IInv, Stages
<1>7. IsListed' /\ IsOfThePast'
  BY <1>1, <1>2 DEF IInv, IsListed, IsOfThePast, HasTwin
<1> QED
  BY <1>2, <1>3, <1>4, <1>5, <1>6, <1>7

\* The LVT of an agent is read from its history alone.
LEMMA SameLvt ==
  ASSUME NEW a, history'[a] = history[a]
  PROVE  Lvt(a)' = Lvt(a)
BY DEF Lvt

\* The flags of the agents, when none changes.
LEMMA SameRolling ==
  ASSUME Rolling, UNCHANGED <<agent, history, ready, aborted, cancel, main>>
  PROVE  Rolling'
<1> DEFINE a == main.msg.agent
<1>1. Lvt(a)' = Lvt(a)
  BY DEF Lvt
<1> QED
  BY <1>1 DEF Rolling

\* What an agent waits for, when nothing of it has changed, or only become less.
LEMMA StillWaits ==
  ASSUME NEW b, WaitsFor(b),
         UNCHANGED <<agent[b], current[b], history[b], ready[b], awaitedId[b], response[b]>>,
         \A m \in Queued' : m.agent = b => m \in Queued,
         \A m \in InHand' : m.agent = b => m \in Queued \union InHand,
         \A m \in Answering' : m.agent = b => m \in Answering,
         main' # Nothing /\ main'.msg.agent = b /\ main'.at # "join" => main' = main
  PROVE  WaitsFor(b)'
<1>1. Lvt(b)' = Lvt(b)
  BY SameLvt
<1>2. OneUnderWay(b)'
  BY DEF WaitsFor, OneUnderWay
<1>3. NotYetSent(b)'
  BY <1>1 DEF WaitsFor, NotYetSent
<1>4. Awaited(b)'
  BY DEF WaitsFor, Awaited
<1>5. Woken(b)'
  BY DEF WaitsFor, Woken
<1> QED
  BY <1>2, <1>3, <1>4, <1>5 DEF WaitsFor

\* A number is larger than those of all of the agent's requests.
LEMMA NumberKeeps ==
  ASSUME IInv, NEW a \in Agents, AgentNumber(a)
  PROVE  IInv'
<1>1. /\ AlpTyped' /\ ClpTyped' /\ Stages' /\ IsListed' /\ IsOfThePast'
      /\ Queued' = Queued /\ InHand' = InHand /\ Answering' = Answering /\ Known' = Known
  BY AgentOnly DEF AgentNumber
<1>2. /\ agent[a] = "cycle" /\ agent' = [agent EXCEPT ![a] = "numbering"] /\ lastId' = lastId + 1
      /\ Lvt(a) < EndTime[a]
      /\ UNCHANGED <<current, history, ready, aborted, cancel, awaitedId, response, main,
                     given, twins, timeline, revived>>
  BY DEF AgentNumber, Goes, alpVars, histVars
<1>3. \A b \in Agents : Lvt(b)' = Lvt(b)
  BY <1>2, SameLvt
<1>4. \A b \in Agents : agent'[b] = IF b = a THEN "numbering" ELSE agent[b]
  BY <1>2 DEF IInv, AgentsTyped
<1>5. AgentsTyped'
  BY <1>2, <1>3, <1>4 DEF IInv, AgentsTyped
<1>6. Rolling'
  <2>1. main # Nothing => main.msg.agent \in Agents
    BY MessageFacts DEF IInv, AlpTyped
  <2> QED
    BY <1>2, <1>3, <1>4, <2>1 DEF IInv, Rolling
<1>7. Numbered'
  <2>1. \A m \in Known : m.id \in Nat /\ m.id <= given /\ given <= lastId /\ lastId \in Nat /\ given \in Nat
    BY PlacesTyped, MessageFacts DEF IInv, ClpTyped
  <2>2. lastId + 1 # 0 /\ \A m \in Known : m.id < lastId + 1
    BY <2>1 DEF IInv, ClpTyped
  <2> QED
    BY <1>1, <1>2, <1>4, <2>2 DEF IInv, Numbered
<1>8. Waits'
  BY <1>1, <1>2, <1>3, <1>4 DEF IInv, Waits, WaitsFor, OneUnderWay, NotYetSent, Awaited, Woken
<1> QED
  BY <1>1, <1>5, <1>6, <1>7, <1>8 DEF IInv

\* A step that only moves an agent's thread to where it does not wait.
LEMMA MoveKeeps ==
  ASSUME IInv, NEW a \in Agents, NEW to \in {"final", "stopped"},
         agent[a] \in {"cycle", "final", "waiting"}, agent[a] = "waiting" => to = "stopped",
         to = "stopped" => aborted[a] \/ cancel[a],
         agent' = [agent EXCEPT ![a] = to],
         UNCHANGED <<current, history, ready, aborted, cancel, lastId, alpVars, clpVars, histVars>>
  PROVE  IInv'
<1>1. /\ AlpTyped' /\ ClpTyped' /\ Stages' /\ IsListed' /\ IsOfThePast'
      /\ Queued' = Queued /\ InHand' = InHand /\ Answering' = Answering /\ Known' = Known
  BY AgentOnly
<1>2. UNCHANGED <<current, history, ready, aborted, cancel, lastId, awaitedId, response, main,
                  given, twins, timeline, revived>>
  BY DEF alpVars, histVars
<1>3. \A b \in Agents : Lvt(b)' = Lvt(b)
  BY <1>2, SameLvt
<1>4. \A b \in Agents : agent'[b] = IF b = a THEN to ELSE agent[b]
  BY DEF IInv, AgentsTyped
<1>5. main # Nothing => main.msg.agent \in Agents
  BY MessageFacts DEF IInv, AlpTyped
<1>6. to = "stopped" => ~ready[a]
  BY DEF IInv, Rolling
<1>7. AgentsTyped'
  BY <1>2, <1>3, <1>4 DEF IInv, AgentsTyped
<1>8. Rolling'
  BY <1>2, <1>3, <1>4, <1>5 DEF IInv, Rolling
<1>9. Numbered'
  BY <1>1, <1>2, <1>4 DEF IInv, Numbered
<1>10. Waits'
  BY <1>1, <1>2, <1>3, <1>4, <1>6
     DEF IInv, Waits, WaitsFor, OneUnderWay, NotYetSent, Awaited, Woken
<1> QED
  BY <1>1, <1>7, <1>8, <1>9, <1>10 DEF IInv

\* The thread goes on with its own response, and has nothing else under way.
LEMMA TakeKeeps ==
  ASSUME IInv, NEW a \in Agents, AgentTake(a)
  PROVE  IInv'
<1>1. /\ AlpTyped' /\ ClpTyped' /\ Stages' /\ IsListed' /\ IsOfThePast'
      /\ Queued' = Queued /\ InHand' = InHand /\ Answering' = Answering /\ Known' = Known
  BY AgentOnly DEF AgentTake
<1>2. /\ agent[a] = "waiting" /\ ready[a] /\ ~aborted[a]
      /\ agent' = [agent EXCEPT ![a] = "cycle"] /\ ready' = [ready EXCEPT ![a] = FALSE]
      /\ history' = [history EXCEPT ![a] = @ \union {Lvt(a) + 1}]
      /\ UNCHANGED <<current, aborted, cancel, lastId, awaitedId, response, main,
                     given, twins, timeline, revived>>
  BY DEF AgentTake, Goes, alpVars, histVars
<1>3. \A b \in Agents : b # a => Lvt(b)' = Lvt(b)
  BY <1>2, SameLvt DEF IInv, AgentsTyped
<1>4. \A b \in Agents : /\ agent'[b] = IF b = a THEN "cycle" ELSE agent[b]
                        /\ ready'[b] = IF b = a THEN FALSE ELSE ready[b]
  BY <1>2 DEF IInv, AgentsTyped
<1>5. AgentsTyped'
  <2>1. Lvt(a) \in Nat /\ Lvt(a) + 1 <= EndTime[a] /\ EndTime[a] \in Nat
    <3>1. EndTime[a] \in Nat
      BY AlpThreadsAssumption
    <3>2. Lvt(a) \in Nat
      BY LvtFacts DEF IInv
    <3>3. Lvt(a) < EndTime[a]
      BY <1>2 DEF IInv, AgentsTyped
    <3> QED
      BY <3>1, <3>2, <3>3
  <2>2. \A b \in Agents : history'[b] = IF b = a THEN history[b] \union {Lvt(a) + 1} ELSE history[b]
    BY <1>2 DEF IInv, AgentsTyped
  <2>3. history' \in [Agents -> SUBSET Nat]
    BY <1>2, <2>1 DEF IInv, AgentsTyped
  <2>4. ASSUME NEW b \in Agents PROVE history'[b] \subseteq 0 .. EndTime[b] /\ 0 \in history'[b]
    <3>1. history[b] \subseteq 0 .. EndTime[b] /\ 0 \in history[b]
      BY DEF IInv, AgentsTyped
    <3>2. Lvt(a) + 1 \in 0 .. EndTime[a]
      BY <2>1
    <3>3. history'[b] \subseteq history[b] \union {Lvt(a) + 1}
      BY <2>2
    <3>4. b # a => history'[b] = history[b]
      BY <2>2
    <3>5. history[b] \subseteq history'[b]
      BY <2>2
    <3> QED
      BY <3>1, <3>2, <3>3, <3>4, <3>5
  <2>5. \A b \in Agents : agent'[b] \in {"numbering", "waiting"} => Lvt(b)' < EndTime[b]
    BY <1>3, <1>4 DEF IInv, AgentsTyped
  <2> QED
    BY <1>2, <1>4, <2>3, <2>4, <2>5 DEF IInv, AgentsTyped
<1>6. main # Nothing => main.msg.agent \in Agents /\ main.msg.agent # a
  BY <1>2, MessageFacts DEF IInv, AlpTyped, Rolling
<1>7. Rolling'
  BY <1>2, <1>3, <1>4, <1>6 DEF IInv, Rolling
<1>8. Numbered'
  BY <1>1, <1>2, <1>4 DEF IInv, Numbered
<1>9. ASSUME a \notin revived
      PROVE  /\ \A m \in Queued \union InHand : m.agent # a
             /\ \A m \in Answering : m.agent = a => m.id # awaitedId[a]
  BY <1>2, <1>9 DEF IInv, Waits, WaitsFor, Woken, Awaited
<1>10. ASSUME NEW b \in Agents \ revived PROVE WaitsFor(b)'
  <2>1. CASE b = a
    BY <1>1, <1>2, <1>4, <1>9, <2>1 DEF WaitsFor, OneUnderWay, NotYetSent, Awaited, Woken
  <2>2. CASE b # a
    <3>1. WaitsFor(b)
      BY <1>10 DEF IInv, Waits
    <3>2. history'[b] = history[b] /\ agent'[b] = agent[b] /\ ready'[b] = ready[b]
      BY <1>2, <1>4, <2>2 DEF IInv, AgentsTyped
    <3> QED
      BY <1>1, <1>2, <3>1, <3>2, StillWaits
  <2> QED
    BY <2>1, <2>2
<1>11. Waits'
  BY <1>2, <1>10 DEF Waits
<1> QED
  BY <1>1, <1>5, <1>7, <1>8, <1>11 DEF IInv

\* A request enters the queue, and the agent's present past.
LEMMA AskKeeps ==
  ASSUME IInv, NEW a \in Agents, NEW type \in {"read", "write"}, AgentAsk(a, type)
  PROVE  IInv'
<1> DEFINE m == Request(type, a, lastId, IF type = "read" THEN Lvt(a) ELSE Lvt(a) + 1)
<1>1. /\ agent[a] = "numbering" /\ agent' = [agent EXCEPT ![a] = "waiting"]
      /\ current' = [current EXCEPT ![a] = m] /\ sendQueue' = Append(sendQueue, m)
      /\ given' = lastId /\ twins' = IF lastId = given THEN twins \union {lastId} ELSE twins
      /\ timeline' = [timeline EXCEPT ![a] = @ \union {m}]
      /\ UNCHANGED <<history, ready, aborted, cancel, lastId, sendList, awaitedId,
                     response, send, main, fromClp, atClp, rollbacks, slipped, revived>>
  BY DEF AgentAsk, Goes, clpVars, Request
<1>2. /\ m \in Requests /\ m.agent = a /\ m.id = lastId
      /\ IF m.type = "read" THEN m.time >= Lvt(a) ELSE m.time > Lvt(a)
  <2>1. Lvt(a) \in Nat /\ Lvt(a) < EndTime[a] /\ EndTime[a] \in Nat
    BY <1>1, LvtFacts, AlpThreadsAssumption DEF IInv, AgentsTyped
  <2>2. lastId \in Nat \ {0}
    BY <1>1 DEF IInv, ClpTyped, Numbered
  <2> DEFINE time == IF type = "read" THEN Lvt(a) ELSE Lvt(a) + 1
  <2>3. time \in Nat /\ time <= EndTime[a] /\ IF type = "read" THEN time >= Lvt(a) ELSE time > Lvt(a)
    BY <2>1
  <2> HIDE DEF time
  <2> QED
    BY <2>2, <2>3 DEF Requests, Request, time
<1> HIDE DEF m
<1>3. m \notin Known
  BY <1>1, <1>2, PlacesTyped, MessageFacts DEF IInv, Numbered
<1>4. /\ sendQueue' \in Seq(Requests \union Antis)
      /\ Queued' = Queued \union {m} /\ Recalled' = Recalled
      /\ OnceEach(sendQueue', Requests)
  BY <1>1, <1>2, <1>3, QueueAppend DEF IInv, Stages, Known
<1>5. /\ InHand' = InHand /\ OnList' = OnList
      /\ Answers' = Answers /\ Answering' = Answering /\ Refused' = Refused
  BY <1>1, SamePlaces
<1>6. Known' = Known \union {m}
  BY <1>1, <1>4, <1>5 DEF Known
<1>7. \A b \in Agents : Lvt(b)' = Lvt(b)
  BY <1>1, SameLvt
<1>8. \A b \in Agents : /\ agent'[b] = IF b = a THEN "waiting" ELSE agent[b]
                        /\ current'[b] = IF b = a THEN m ELSE current[b]
                        /\ timeline'[b] = IF b = a THEN timeline[b] \union {m} ELSE timeline[b]
  BY <1>1 DEF IInv, AgentsTyped
<1>9. /\ lastId \in Nat /\ given \in Nat /\ given <= lastId
      /\ \A n \in Known \union slipped : n \in Requests /\ n.id \in Nat /\ n.id <= given
  BY PlacesTyped, MessageFacts DEF IInv, ClpTyped
<1>10. AgentsTyped'
  <2>1. current' \in [Agents -> Requests \union {None}] /\ timeline' \in [Agents -> SUBSET Requests]
    BY <1>1, <1>2 DEF IInv, AgentsTyped
  <2>2. ASSUME NEW b \in Agents, agent'[b] = "waiting"
        PROVE  current'[b] \in Requests /\ current'[b].id <= given'
    <3>1. b # a => current[b] \in Requests /\ current[b].id <= given
      BY <1>8, <2>2 DEF IInv, AgentsTyped
    <3>2. b # a => current[b].id \in Nat
      BY <3>1, MessageFacts
    <3>3. m.id <= given' /\ \A n \in Nat : n <= given => n <= given'
      BY <1>1, <1>2, <1>9
    <3> QED
      BY <1>2, <1>8, <3>1, <3>2, <3>3
  <2>3. agent' \in [Agents -> {"cycle", "numbering", "waiting", "final", "stopped"}]
    BY <1>1 DEF IInv, AgentsTyped
  <2> QED
    BY <1>1, <1>7, <1>8, <2>1, <2>2, <2>3 DEF IInv, AgentsTyped
<1>11. AlpTyped'
  <2>1. 0 .. given \subseteq 0 .. given'
    BY <1>1, <1>9
  <2>2. awaitedId' \in [Agents -> 0 .. given']
    BY <1>1, <2>1 DEF IInv, AlpTyped
  <2> QED
    BY <1>1, <1>4, <2>2 DEF IInv, AlpTyped
<1>12. ClpTyped'
  <2>1. \A n \in Known' \union slipped' : n.id <= given'
    BY <1>1, <1>2, <1>6, <1>9
  <2>2. given' \in 0 .. lastId'
    BY <1>1, <1>9
  <2> QED
    BY <1>1, <2>1, <2>2 DEF IInv, ClpTyped
<1>13. Stages'
  BY <1>1, <1>3, <1>4, <1>5 DEF IInv, Stages, Known
<1>14. Rolling'
  <2>1. main # Nothing => main.msg.agent \in Agents
    BY MessageFacts DEF IInv, AlpTyped
  <2> QED
    BY <1>1, <1>7, <1>8, <2>1 DEF IInv, Rolling
<1>15. Numbered'
  <2>1. ASSUME NEW n \in Known, n.id = lastId PROVE lastId \in twins' /\ n.agent # a
    BY <1>1, <1>9, <2>1 DEF IInv, Numbered
  <2>2. ASSUME NEW n \in Known', NEW o \in Known', n # o, n.id = o.id
        PROVE  n.id \in twins' /\ n.agent # o.agent
    BY <1>1, <1>2, <1>6, <2>1, <2>2 DEF IInv, Numbered
  <2>3. ASSUME NEW b \in Agents, agent'[b] = "numbering"
        PROVE  lastId' # 0 /\ \A n \in Known' : n.agent = b => n.id < lastId'
    <3>1. b # a /\ agent[b] = "numbering"
      BY <1>8, <2>3
    <3>2. lastId # 0 /\ \A n \in Known : n.agent = b => n.id < lastId
      BY <3>1 DEF IInv, Numbered
    <3> QED
      BY <1>1, <1>2, <1>6, <3>1, <3>2
  <2> QED
    BY <2>2, <2>3 DEF Numbered
<1>16. \A n : HasTwin(n) => HasTwin(n)'
  BY <1>1 DEF HasTwin
<1>17. IsListed'
  BY <1>1, <1>4, <1>5, <1>16 DEF IInv, IsListed
<1>18. IsOfThePast'
  <2> SUFFICES ASSUME NEW n \in (Queued' \union InHand' \union atClp') \ Recalled'
               PROVE  \/ n \in timeline'[n.agent]
                      \/ n \in slipped' \/ HasTwin(n)'
                      \/ /\ main'.at = "recall" /\ n \notin Queued'
                         /\ IsRolledBack(n, main'.msg.agent, main'.msg.time)
    BY Zenon DEF IsOfThePast, HasTwin
  <2>1. CASE n = m
    BY <1>2, <1>8, <2>1
  <2>2. CASE n # m
    <3>1. n \in (Queued \union InHand \union atClp) \ Recalled /\ n.agent \in Agents
      BY <1>1, <1>4, <1>5, <1>9, <2>2, MessageFacts DEF Known
    <3>2. \/ n \in timeline[n.agent]
          \/ n \in slipped \/ HasTwin(n)
          \/ /\ main.at = "recall" /\ n \notin Queued
             /\ IsRolledBack(n, main.msg.agent, main.msg.time)
      BY <3>1 DEF IInv, IsOfThePast
    <3> QED
      BY <1>1, <1>4, <1>8, <1>16, <2>2, <3>1, <3>2
  <2> QED
    BY <2>1, <2>2
<1>19. ASSUME NEW b \in Agents \ revived PROVE WaitsFor(b)'
  <2>0. WaitsFor(b)
    BY <1>19 DEF IInv, Waits
  <2>1. CASE b = a
    <3>1. /\ ~ready[a]
          /\ \A n \in Queued \union InHand : n.agent # a
          /\ \A n \in Answering : n.agent = a => n.id # awaitedId[a]
      BY <1>1, <2>0, <2>1 DEF WaitsFor, OneUnderWay, Awaited, Woken
    <3>2. main # Nothing /\ main.msg.agent = a => main.at = "join"
      BY <1>1 DEF IInv, Rolling
    <3>3. OneUnderWay(a)' /\ NotYetSent(a)'
      BY <1>1, <1>2, <1>4, <1>5, <1>7, <1>8, <3>1, <3>2 DEF OneUnderWay, NotYetSent
    <3>4. Awaited(a)' /\ Woken(a)'
      BY <1>1, <1>5, <3>1 DEF Awaited, Woken
    <3> QED
      BY <2>1, <3>3, <3>4 DEF WaitsFor
  <2>2. CASE b # a
    BY <1>1, <1>2, <1>4, <1>5, <1>8, <2>0, <2>2, StillWaits
  <2> QED
    BY <2>1, <2>2
<1>20. Waits'
  BY <1>1, <1>19 DEF Waits
<1> QED
  BY <1>10, <1>11, <1>12, <1>13, <1>14, <1>15, <1>17, <1>18, <1>20 DEF IInv

-----------------------------------------------------------------------------
(* The steps of the send thread.                                           *)

\* A request goes from the queue to the send thread's hand; an anti-message
\* takes what it stands for from the CLP.
LEMMA DequeueKeeps ==
  ASSUME IInv, SendDequeue
  PROVE  IInv'
<1> DEFINE m == Head(sendQueue)
<1>1. /\ send = Nothing /\ sendQueue # <<>> /\ sendQueue' = Tail(sendQueue)
      /\ IsRequest(m) => send' = [at |-> "list", msg |-> m] /\ atClp' = atClp
      /\ ~IsRequest(m) => send' = send /\ atClp' = atClp \ {m.of}
      /\ UNCHANGED <<sendList, awaitedId, response, main, fromClp, rollbacks>>
      /\ UNCHANGED <<agent, current, history, ready, aborted, cancel, lastId>>
      /\ UNCHANGED <<given, twins, timeline, slipped, revived>>
  BY DEF SendDequeue, agentVars, histVars
<1>2. /\ sendQueue' \in Seq(Requests \union Antis) /\ OnceEach(sendQueue', Requests)
      /\ IsRequest(m) => m \in Queued /\ Queued' = Queued \ {m} /\ Recalled' = Recalled
      /\ ~IsRequest(m) => /\ m.of \in Recalled /\ Queued' = Queued
                          /\ Recalled' \subseteq Recalled
                          /\ Recalled \subseteq Recalled' \union {m.of}
  BY <1>1, QueueTail DEF IInv, Stages
<1> HIDE DEF m
<1>3. /\ OnList' = OnList /\ Answers' = Answers /\ Answering' = Answering /\ Refused' = Refused
  BY <1>1, SamePlaces
<1>4. /\ InHand = {}
      /\ IsRequest(m) => InHand' = {m} /\ send'.at = "list"
      /\ ~IsRequest(m) => InHand' = {} /\ send'.at = "idle"
  <2>1. [at |-> "list", msg |-> m] # Nothing /\ Nothing.at = "idle"
    BY DEF Nothing
  <2>2. InHand' = IF send' = Nothing THEN {} ELSE {send'.msg}
    BY DEF InHand
  <2>3. InHand = {}
    BY <1>1 DEF InHand
  <2> QED
    BY <1>1, <2>1, <2>2, <2>3
<1>5. Known' \subseteq Known /\ Queued' \subseteq Queued /\ InHand' \subseteq Queued /\ atClp' \subseteq atClp
  BY <1>1, <1>2, <1>3, <1>4 DEF Known
<1>6. Queued \subseteq Requests /\ InHand' \subseteq Requests
  BY <1>5, PlacesTyped DEF IInv
<1>7. \A b \in Agents : Lvt(b)' = Lvt(b)
  BY <1>1, SameLvt
<1>8. AgentsTyped'
  BY <1>1, <1>7 DEF IInv, AgentsTyped
<1>9. AlpTyped'
  <2>1. IsRequest(m) => send' \in [at : {"list", "note"}, msg : Requests]
    BY <1>1, <1>2, <1>6
  <2>2. send' \in {Nothing} \union [at : {"list", "note"}, msg : Requests]
    BY <1>1, <2>1
  <2> QED
    BY <1>1, <1>2, <2>2 DEF IInv, AlpTyped
<1>10. ClpTyped'
  BY <1>1, <1>5 DEF IInv, ClpTyped
<1>11. Stages'
  <2>1. Queued' \cap (Recalled' \union InHand' \union OnList' \union atClp' \union Answering') = {}
    BY <1>1, <1>2, <1>3, <1>4 DEF IInv, Stages
  <2>2. InHand' \cap (atClp' \union Answering') = {}
    BY <1>1, <1>2, <1>3, <1>4 DEF IInv, Stages
  <2>3. Refused' \cap atClp' = {}
    BY <1>3, <1>5 DEF IInv, Stages
  <2> QED
    BY <1>1, <1>2, <1>3, <2>1, <2>2, <2>3 DEF IInv, Stages
<1>12. Rolling' /\ Numbered'
  <2>1. Rolling'
    BY <1>1, SameRolling DEF IInv
  <2>2. Numbered'
    BY <1>1, <1>5 DEF IInv, Numbered
  <2> QED
    BY <2>1, <2>2
<1>13. \A n : HasTwin(n)' = HasTwin(n)
  BY <1>1 DEF HasTwin
<1>14. IsListed'
  <2> SUFFICES ASSUME NEW n \in (atClp' \union IF send'.at = "note" THEN InHand' ELSE {}) \ Recalled'
               PROVE  n \in OnList' \/ HasTwin(n)'
    BY Zenon DEF IsListed, HasTwin
  <2>1. n \in atClp' \ Recalled'
    BY <1>4
  <2>2. n \in atClp \ Recalled
    BY <1>1, <1>2, <2>1
  <2> QED
    BY <1>3, <1>13, <2>2 DEF IInv, IsListed
<1>15. IsOfThePast'
  <2> SUFFICES ASSUME NEW n \in (Queued' \union InHand' \union atClp') \ Recalled'
               PROVE  \/ n \in timeline'[n.agent]
                      \/ n \in slipped' \/ HasTwin(n)'
                      \/ /\ main'.at = "recall" /\ n \notin Queued'
                         /\ IsRolledBack(n, main'.msg.agent, main'.msg.time)
    BY Zenon DEF IsOfThePast, HasTwin
  <2>1. n \in (Queued \union InHand \union atClp) \ Recalled
    <3>1. CASE IsRequest(m)
      BY <1>1, <1>2, <1>4, <3>1
    <3>2. CASE ~IsRequest(m)
      <4>1. n # m.of
        BY <1>1, <1>2, <1>4, <3>2 DEF IInv, Stages
      <4> QED
        BY <1>1, <1>2, <1>4, <3>2, <4>1
    <3> QED
      BY <3>1, <3>2
  <2> QED
    BY <1>1, <1>5, <1>13, <2>1 DEF IInv, IsOfThePast
<1>16. Waits'
  BY <1>1, <1>3, <1>5, StillWaits DEF IInv, Waits
<1> QED
  BY <1>8, <1>9, <1>10, <1>11, <1>12, <1>14, <1>15, <1>16 DEF IInv

\* The request in hand gets onto the send list.
LEMMA SendListKeeps ==
  ASSUME IInv, SendList
  PROVE  IInv'
<1> DEFINE m == send.msg
<1>1. /\ send.at = "list" /\ sendList' = Append(sendList, m) /\ send' = [send EXCEPT !.at = "note"]
      /\ UNCHANGED <<agent, current, history, ready, aborted, cancel, lastId>>
      /\ UNCHANGED <<sendQueue, awaitedId, response, main, fromClp, atClp, rollbacks>>
      /\ UNCHANGED <<given, twins, timeline, slipped, revived>>
  BY DEF SendList, agentVars, clpVars, histVars
<1>2. /\ send \in [at : {"list", "note"}, msg : Requests] /\ m \in Requests
      /\ send' \in [at : {"list", "note"}, msg : Requests] /\ send'.msg = m /\ send'.at = "note"
      /\ send # Nothing /\ send' # Nothing
  <2>1. \A x \in [at : {"list", "note"}, msg : Requests] : x # Nothing
    BY DEF Nothing
  <2>2. send # Nothing
    BY <1>1 DEF Nothing
  <2>3. send \in [at : {"list", "note"}, msg : Requests]
    BY <2>2 DEF IInv, AlpTyped
  <2>4. send' \in [at : {"list", "note"}, msg : Requests] /\ send'.msg = m /\ send'.at = "note"
    BY <1>1, <2>3
  <2> QED
    BY <2>1, <2>3, <2>4
<1>3. InHand = {m} /\ InHand' = InHand
  BY <1>2 DEF InHand
<1>4. sendList' \in Seq(Requests) /\ OnList' = OnList \union {m}
  BY <1>1, <1>2, AppendFacts DEF IInv, AlpTyped, OnList
<1> HIDE DEF m
<1>5. /\ Queued' = Queued /\ Recalled' = Recalled
      /\ Answers' = Answers /\ Answering' = Answering /\ Refused' = Refused
  BY <1>1, SamePlaces
<1>6. Known' = Known
  BY <1>1, <1>3, <1>4, <1>5 DEF Known
<1>7. \A b \in Agents : Lvt(b)' = Lvt(b)
  BY <1>1, SameLvt
<1>8. AgentsTyped'
  BY <1>1, <1>7 DEF IInv, AgentsTyped
<1>9. AlpTyped'
  BY <1>1, <1>2, <1>4 DEF IInv, AlpTyped
<1>10. ClpTyped'
  BY <1>1, <1>6 DEF IInv, ClpTyped
<1>11. Stages'
  BY <1>1, <1>3, <1>4, <1>5 DEF IInv, Stages
<1>12. Rolling' /\ Numbered'
  <2>1. Rolling'
    BY <1>1, SameRolling DEF IInv
  <2>2. Numbered'
    BY <1>1, <1>6 DEF IInv, Numbered
  <2> QED
    BY <2>1, <2>2
<1>13. IsListed' /\ IsOfThePast'
  BY <1>1, <1>3, <1>4, <1>5 DEF IInv, IsListed, IsOfThePast, HasTwin
<1>14. Waits'
  BY <1>1, <1>3, <1>5, StillWaits DEF IInv, Waits
<1> QED
  BY <1>8, <1>9, <1>10, <1>11, <1>12, <1>13, <1>14 DEF IInv

\* The request in hand is executed or refused, and its response awaited: it was
\* the last thing its agent had under way.
LEMMA NoteKeeps ==
  ASSUME IInv, NEW ok \in BOOLEAN, SendNote(ok)
  PROVE  IInv'
<1> DEFINE m == send.msg
           a == m.agent
           r == Response(m, ok)
<1>1. /\ send.at = "note" /\ awaitedId' = [awaitedId EXCEPT ![a] = m.id] /\ send' = Nothing
      /\ atClp' = (IF ok THEN atClp \union {m} ELSE atClp) /\ fromClp' = Append(fromClp, r)
      /\ UNCHANGED <<agent, current, history, ready, aborted, cancel, lastId>>
      /\ UNCHANGED <<sendQueue, sendList, response, main, rollbacks>>
      /\ UNCHANGED <<given, twins, timeline, slipped, revived>>
  BY DEF SendNote, ClpExecute, agentVars, histVars
<1>2. m \in Requests /\ send # Nothing
  BY <1>1 DEF IInv, AlpTyped, Nothing
<1>3. InHand = {m} /\ InHand' = {}
  BY <1>1, <1>2 DEF InHand
<1>4. r \in Responses /\ r.to = m /\ r.ok = ok /\ a \in Agents /\ m.id \in Nat
  BY <1>2, MessageFacts
<1> HIDE DEF m, a, r
<1>5. r \notin Answers
  BY <1>3, <1>4, PlacesTyped DEF IInv, Stages
<1>6. /\ fromClp' \in Seq(Responses \union Rollbacks) /\ OnceEach(fromClp', Responses)
      /\ Answers' = Answers \union {r} /\ Answering' = Answering \union {m}
      /\ Refused' = Refused \union IF ok THEN {} ELSE {m}
  BY <1>1, <1>4, <1>5, FromClpAppend DEF IInv, Stages
<1>7. Queued' = Queued /\ Recalled' = Recalled /\ OnList' = OnList
  BY <1>1, SamePlaces
<1>8. Known' = Known
  BY <1>1, <1>3, <1>6, <1>7 DEF Known
<1>9. m \in Known /\ m.id <= given /\ given \in Nat
  BY <1>3 DEF IInv, ClpTyped, Known
<1>10. \A b \in Agents : Lvt(b)' = Lvt(b)
  BY <1>1, SameLvt
<1>11. AgentsTyped'
  BY <1>1, <1>10 DEF IInv, AgentsTyped
<1>12. AlpTyped'
  <2>1. m.id \in 0 .. given
    BY <1>4, <1>9
  <2>2. awaitedId' \in [Agents -> 0 .. given']
    BY <1>1, <2>1 DEF IInv, AlpTyped
  <2> QED
    BY <1>1, <2>2 DEF IInv, AlpTyped
<1>13. ClpTyped'
  BY <1>1, <1>2, <1>6, <1>8 DEF IInv, ClpTyped
<1>14. Stages'
  <2>1. \A q \in Answers : q.to # m
    BY <1>3, PlacesTyped DEF IInv, Stages
  <2>2. \A q, p \in Answers' : q.to = p.to => q = p
    BY <1>4, <1>6, <2>1 DEF IInv, Stages
  <2>3. Queued' \cap (Recalled' \union InHand' \union OnList' \union atClp' \union Answering') = {}
    BY <1>1, <1>3, <1>6, <1>7 DEF IInv, Stages
  <2>4. Refused' \cap atClp' = {}
    <3>1. m \notin atClp /\ m \notin Refused
      BY <1>3, PlacesTyped DEF IInv, Stages
    <3> QED
      BY <1>1, <1>6, <3>1 DEF IInv, Stages
  <2>5. InHand' \cap (atClp' \union Answering') = {}
    BY <1>3
  <2> QED
    BY <1>1, <1>6, <2>2, <2>3, <2>4, <2>5 DEF IInv, Stages
<1>15. Rolling'
  BY <1>1, SameRolling DEF IInv
<1>16. Numbered'
  BY <1>1, <1>8 DEF IInv, Numbered
<1>17. IsListed'
  BY <1>1, <1>3, <1>7 DEF IInv, IsListed, HasTwin
<1>18. IsOfThePast'
  BY <1>1, <1>3, <1>7 DEF IInv, IsOfThePast, HasTwin
<1>19. ASSUME NEW b \in Agents \ revived PROVE WaitsFor(b)'
  <2>0. WaitsFor(b)
    BY <1>19 DEF IInv, Waits
  <2>1. CASE b = a
    <3>1. m.agent = b
      BY <2>1 DEF a
    <3>2. m = current[b] /\ agent[b] \in {"waiting", "stopped"} /\ ~ready[b]
      BY <1>3, <2>0, <3>1 DEF WaitsFor, OneUnderWay, Woken
    <3>3. awaitedId'[b] = m.id
      BY <1>1, <1>4, <2>1 DEF IInv, AlpTyped
    <3>4. \A n \in Answering' : n.agent = b /\ n.id = m.id => n = m
      <4>1. Answering' \subseteq Known
        BY <1>6, <1>9 DEF Known
      <4> QED
        BY <1>9, <3>1, <4>1 DEF IInv, Numbered
    <3>5. OneUnderWay(b)' /\ NotYetSent(b)'
      BY <1>1, <1>3, <1>7, <1>10, <2>0 DEF WaitsFor, OneUnderWay, NotYetSent
    <3>6. Awaited(b)' /\ Woken(b)'
      BY <1>1, <3>2, <3>3, <3>4 DEF Awaited, Woken
    <3> QED
      BY <3>5, <3>6 DEF WaitsFor
  <2>2. CASE b # a
    <3>1. awaitedId'[b] = awaitedId[b]
      BY <1>1, <2>2 DEF IInv, AlpTyped
    <3>2. \A n \in Answering' : n.agent = b => n \in Answering
      BY <1>6, <2>2 DEF a
    <3> QED
      BY <1>1, <1>3, <1>7, <2>0, <3>1, <3>2, StillWaits
  <2> QED
    BY <2>1, <2>2
<1>20. Waits'
  BY <1>1, <1>19 DEF Waits
<1> QED
  BY <1>11, <1>12, <1>13, <1>14, <1>15, <1>16, <1>17, <1>18, <1>20 DEF IInv

-----------------------------------------------------------------------------
(* The steps of the main thread.                                           *)

\* RemoveFromSendList takes one request at most, with the identifier it is given.
LEMMA RemoveFromSendListFacts ==
  ASSUME NEW list \in Seq(Requests), NEW m
  PROVE  /\ RemoveFromSendList(list, m) \in Seq(Requests)
         /\ ToSet(RemoveFromSendList(list, m)) \subseteq ToSet(list)
         /\ \A n \in ToSet(list) : n.id # m.id => n \in ToSet(RemoveFromSendList(list, m))
<1> DEFINE I == {j \in 1 .. Len(list) : list[j].id = m.id}
           i == IF I # {} THEN Min(I) ELSE 0
<1>1. RemoveFromSendList(list, m) = IF i = 0 THEN list ELSE RemoveAt(list, i)
  BY DEF RemoveFromSendList, SelectInSeq
<1>2. CASE I = {}
  BY <1>1, <1>2
<1>3. CASE I # {}
  <2>1. I \in SUBSET Nat
    OBVIOUS
  <2>2. Min(I) \in I
    <3> HIDE DEF I
    <3> QED
      BY <1>3, <2>1, MinOfSet
  <2>3. i \in 1 .. Len(list) /\ list[i].id = m.id /\ i # 0
    BY <1>3, <2>2
  <2> HIDE DEF i, I
  <2>4. /\ RemoveAt(list, i) \in Seq(Requests)
        /\ ToSet(RemoveAt(list, i)) \subseteq ToSet(list)
        /\ ToSet(list) \subseteq ToSet(RemoveAt(list, i)) \union {list[i]}
    BY <2>3, RemoveAtFacts
  <2> QED
    BY <1>1, <2>3, <2>4
<1> QED
  BY <1>2, <1>3

\* A response is handed over; a refused write leaves the send list, which it
\* needed for nothing more.
LEMMA ResponseKeeps ==
  ASSUME IInv, MainResponse
  PROVE  IInv'
<1> DEFINE r == Head(fromClp)
           m == r.to
           a == m.agent
<1>1. /\ main = Nothing /\ fromClp # <<>> /\ r.type = "response" /\ fromClp' = Tail(fromClp)
      /\ sendList' = IF r.ok THEN sendList ELSE RemoveFromSendList(sendList, m)
      /\ IF awaitedId[a] = m.id
         THEN response' = [response EXCEPT ![a] = r] /\ ready' = [ready EXCEPT ![a] = TRUE]
         ELSE response' = response /\ ready' = ready
      /\ UNCHANGED <<agent, current, history, aborted, cancel, lastId, sendQueue,
                     awaitedId, send, main, atClp, rollbacks>>
      /\ UNCHANGED <<given, twins, timeline, slipped, revived>>
  BY DEF MainResponse, IsNext, histVars
<1>2. /\ fromClp' \in Seq(Responses \union Rollbacks) /\ OnceEach(fromClp', Responses)
      /\ r \in Responses /\ r \in Answers /\ Answers' = Answers \ {r}
      /\ Answering' = Answering \ {m} /\ Refused' = Refused \ {m}
  BY <1>1, FromClpTail, MessageFacts DEF IInv
<1>3. m \in Requests /\ a \in Agents /\ r # None /\ m \in Answering /\ m \in Known
  BY <1>2, PlacesTyped, MessageFacts DEF IInv, Known
<1>4. /\ sendList' \in Seq(Requests) /\ OnList' \subseteq OnList
      /\ r.ok => OnList' = OnList
      /\ \A n \in OnList : n.id # m.id => n \in OnList'
  <2>1. sendList \in Seq(Requests)
    BY DEF IInv, AlpTyped
  <2>2. /\ RemoveFromSendList(sendList, m) \in Seq(Requests)
        /\ ToSet(RemoveFromSendList(sendList, m)) \subseteq ToSet(sendList)
        /\ \A n \in ToSet(sendList) : n.id # m.id => n \in ToSet(RemoveFromSendList(sendList, m))
    <3> HIDE DEF m
    <3> QED
      BY <2>1, RemoveFromSendListFacts
  <2> HIDE DEF r, m
  <2> QED
    BY <1>1, <2>1, <2>2 DEF OnList
<1>5. ~r.ok => m \in Refused
  BY <1>2 DEF Refused
<1> HIDE DEF r, m
<1>6. a = m.agent
  OBVIOUS
<1> HIDE DEF a
<1>7. Queued' = Queued /\ Recalled' = Recalled /\ InHand' = InHand
  BY <1>1, SamePlaces
<1>8. Known' \subseteq Known
  BY <1>1, <1>2, <1>4, <1>7 DEF Known
<1>9. \A b \in Agents : Lvt(b)' = Lvt(b)
  BY <1>1, SameLvt
<1>10. AgentsTyped'
  <2>1. ready' \in [Agents -> BOOLEAN]
    BY <1>1 DEF IInv, AgentsTyped
  <2> QED
    BY <1>1, <1>9, <2>1 DEF IInv, AgentsTyped
<1>11. AlpTyped'
  <2>1. response' \in [Agents -> Responses \union {None}]
    BY <1>1, <1>2 DEF IInv, AlpTyped
  <2> QED
    BY <1>1, <1>4, <2>1 DEF IInv, AlpTyped
<1>12. ClpTyped'
  BY <1>1, <1>2, <1>8 DEF IInv, ClpTyped
<1>13. Stages'
  <2>1. Queued' \cap (Recalled' \union InHand' \union OnList' \union atClp' \union Answering') = {}
    BY <1>1, <1>2, <1>4, <1>7 DEF IInv, Stages
  <2>2. InHand' \cap (atClp' \union Answering') = {}
    BY <1>1, <1>2, <1>7 DEF IInv, Stages
  <2>3. Refused' \cap atClp' = {}
    BY <1>1, <1>2 DEF IInv, Stages
  <2> QED
    BY <1>1, <1>2, <2>1, <2>2, <2>3 DEF IInv, Stages
<1>14. Rolling'
  BY <1>1 DEF IInv, Rolling
<1>15. Numbered'
  BY <1>1, <1>8 DEF IInv, Numbered
<1>16. IsListed'
  <2> SUFFICES ASSUME NEW n \in (atClp' \union IF send'.at = "note" THEN InHand' ELSE {}) \ Recalled',
                      ~HasTwin(n)'
               PROVE  n \in OnList'
    BY Zenon DEF IsListed, HasTwin
  <2>1. n \in (atClp \union IF send.at = "note" THEN InHand ELSE {}) \ Recalled /\ ~HasTwin(n)
    BY <1>1, <1>7 DEF HasTwin
  <2>2. n \in OnList /\ n \in Known
    BY <2>1 DEF IInv, IsListed, Known
  <2>3. ~r.ok => n # m
    BY <1>5, <2>1, PlacesTyped DEF IInv, Stages
  <2>4. ~r.ok => n.id # m.id
    BY <1>3, <2>1, <2>2, <2>3 DEF IInv, Numbered, HasTwin
  <2> QED
    BY <1>4, <2>2, <2>4
<1>17. IsOfThePast'
  BY <1>1, <1>7 DEF IInv, IsOfThePast, HasTwin
<1>18. ASSUME NEW b \in Agents \ revived PROVE WaitsFor(b)'
  <2>0. WaitsFor(b)
    BY <1>18 DEF IInv, Waits
  <2>1. CASE b = a /\ awaitedId[a] = m.id
    <3>1. m = current[b] /\ agent[b] \in {"waiting", "stopped"}
      BY <1>3, <1>6, <2>0, <2>1 DEF WaitsFor, Awaited
    <3>2. agent[b] = "waiting"
      BY <1>1, <3>1 DEF IInv, Rolling
    <3>3. \A n \in Queued \union InHand : n.agent # b
      BY <1>3, <2>0, <3>1 DEF WaitsFor, OneUnderWay, IInv, Stages
    <3>4. response'[b] = r /\ r # None /\ r.to = m
      BY <1>1, <1>3, <2>1 DEF IInv, AlpTyped, m
    <3>5. \A n \in Answering' : n.agent = b => n.id # awaitedId'[b]
      <4>1. ASSUME NEW n \in Answering, n.agent = b, n.id = m.id PROVE n = m
        BY <1>3, <1>6, <2>1, <4>1 DEF IInv, Numbered, Known
      <4> QED
        BY <1>1, <1>2, <2>1, <4>1
    <3>6. OneUnderWay(b)' /\ NotYetSent(b)'
      BY <1>7, <3>3 DEF OneUnderWay, NotYetSent
    <3>7. Awaited(b)' /\ Woken(b)'
      BY <1>1, <1>7, <3>1, <3>2, <3>3, <3>4, <3>5 DEF Awaited, Woken
    <3> QED
      BY <3>6, <3>7 DEF WaitsFor
  <2>2. CASE ~(b = a /\ awaitedId[a] = m.id)
    <3>1. response'[b] = response[b] /\ ready'[b] = ready[b]
      BY <1>1, <2>2 DEF IInv, AlpTyped, AgentsTyped
    <3> QED
      BY <1>1, <1>2, <1>7, <2>0, <3>1, StillWaits
  <2> QED
    BY <2>1, <2>2
<1>19. Waits'
  BY <1>1, <1>18 DEF Waits
<1> QED
  BY <1>10, <1>11, <1>12, <1>13, <1>14, <1>15, <1>16, <1>17, <1>19 DEF IInv

\* A rollback that reaches the agent's past raises the flags and lowers
\* message_ready_; another one is forgotten.
LEMMA AbortKeeps ==
  ASSUME IInv, MainAbort
  PROVE  IInv'
<1>1. PICK m, a, far :
      /\ m = Head(fromClp) /\ a = m.agent /\ far = ~(m.time > Lvt(a))
      /\ main = Nothing /\ fromClp # <<>> /\ m.type = "rollback" /\ fromClp' = Tail(fromClp)
      /\ IF ~far
         THEN UNCHANGED <<aborted, cancel, ready, main>>
         ELSE /\ aborted' = [aborted EXCEPT ![a] = TRUE] /\ cancel' = [cancel EXCEPT ![a] = TRUE]
              /\ ready' = [ready EXCEPT ![a] = FALSE] /\ main' = [at |-> "join", msg |-> m]
      /\ UNCHANGED <<agent, current, history, lastId, sendQueue, sendList,
                     awaitedId, response, send, atClp, rollbacks>>
      /\ UNCHANGED <<given, twins, timeline, slipped, revived>>
  BY DEF MainAbort, IsNext, histVars
<1>2. /\ fromClp' \in Seq(Responses \union Rollbacks) /\ OnceEach(fromClp', Responses)
      /\ m \in Rollbacks
      /\ Answers' = Answers /\ Answering' = Answering /\ Refused' = Refused
  <2>1. m \notin Responses
    BY <1>1, MessageFacts
  <2> QED
    BY <1>1, <2>1, FromClpTail DEF IInv
<1>3. a \in Agents /\ m.time \in Nat /\ far \in BOOLEAN
  BY <1>1, <1>2, MessageFacts
<1>4. far => m.time <= Lvt(a)
  <2>1. Lvt(a) \in Nat
    BY <1>3, LvtFacts DEF IInv
  <2>2. far => ~(m.time > Lvt(a))
    BY <1>1, Zenon
  <2> QED
    BY <1>3, <2>1, <2>2
<1>6. Queued' = Queued /\ Recalled' = Recalled /\ InHand' = InHand /\ OnList' = OnList
  BY <1>1, SamePlaces
<1>7. Known' = Known
  BY <1>1, <1>2, <1>6 DEF Known
<1>8. \A b \in Agents : Lvt(b)' = Lvt(b)
  BY <1>1, SameLvt
<1>9. \A b \in Agents :
        /\ aborted'[b] = (IF far /\ b = a THEN TRUE ELSE aborted[b])
        /\ cancel'[b] = (IF far /\ b = a THEN TRUE ELSE cancel[b])
        /\ ready'[b] = (IF far /\ b = a THEN FALSE ELSE ready[b])
  BY <1>1 DEF IInv, AgentsTyped
<1>10. AgentsTyped'
  <2>1. {ready', aborted', cancel'} \subseteq [Agents -> BOOLEAN]
    <3>1. aborted' \in [Agents -> BOOLEAN]
      BY <1>1 DEF IInv, AgentsTyped
    <3>2. cancel' \in [Agents -> BOOLEAN]
      BY <1>1 DEF IInv, AgentsTyped
    <3>3. ready' \in [Agents -> BOOLEAN]
      BY <1>1 DEF IInv, AgentsTyped
    <3> QED
      BY <3>1, <3>2, <3>3
  <2> QED
    BY <1>1, <1>8, <2>1 DEF IInv, AgentsTyped
<1>11. far => main' \in [at : {"join", "recall", "restart"}, msg : Rollbacks]
              /\ main'.at = "join" /\ main'.msg = m
  BY <1>1, <1>2
<1>12. AlpTyped'
  <2>1. main' \in {Nothing} \union [at : {"join", "recall", "restart"}, msg : Rollbacks]
    BY <1>1, <1>11
  <2> QED
    BY <1>1, <2>1 DEF IInv, AlpTyped
<1>13. ClpTyped'
  BY <1>1, <1>2, <1>7 DEF IInv, ClpTyped
<1>14. Stages'
  BY <1>1, <1>2, <1>6 DEF IInv, Stages
<1>15. Rolling'
  <2>1. CASE far
    <3>1. main' # Nothing
      BY <1>11, <2>1, MessageFacts
    <3>2. \A b \in Agents : ~aborted[b] /\ ~cancel[b] /\ agent[b] # "stopped"
      BY <1>1 DEF IInv, Rolling
    <3>3. \A b \in Agents : aborted'[b] \/ cancel'[b] \/ agent'[b] = "stopped" => b = a
      BY <1>1, <1>9, <3>2
    <3>4. main'.msg.agent = a /\ main'.msg.time <= Lvt(a)'
      BY <1>1, <1>3, <1>4, <1>8, <1>11, <2>1
    <3>5. aborted'[a] /\ cancel'[a] /\ ~ready'[a]
      BY <1>3, <1>9, <2>1
    <3>6. Lvt(main.msg.agent)' = Lvt(a)'
      <4>1. main'.msg.agent = a
        BY <3>4
      <4> QED
        BY <4>1 DEF Lvt
    <3> QED
      BY <1>11, <2>1, <3>1, <3>3, <3>4, <3>5, <3>6 DEF Rolling
  <2>2. CASE ~far
    BY <1>1, <2>2, SameRolling DEF IInv
  <2> QED
    BY <2>1, <2>2
<1>16. Numbered'
  BY <1>1, <1>7 DEF IInv, Numbered
<1>17. IsListed'
  BY <1>1, <1>6 DEF IInv, IsListed, HasTwin
<1>18. IsOfThePast'
  <2>1. main.at # "recall"
    BY <1>1 DEF Nothing
  <2> QED
    BY <1>1, <1>6, <2>1 DEF IInv, IsOfThePast, HasTwin
<1>19. ASSUME NEW b \in Agents \ revived PROVE WaitsFor(b)'
  <2>0. WaitsFor(b)
    BY <1>19 DEF IInv, Waits
  <2>1. main' # Nothing /\ main'.msg.agent = b /\ main'.at # "join" => main' = main
    BY <1>1, <1>11
  <2>2. OneUnderWay(b)' /\ NotYetSent(b)' /\ Awaited(b)'
    BY <1>1, <1>2, <1>6, <1>8, <1>9, <2>0, <2>1
       DEF WaitsFor, OneUnderWay, NotYetSent, Awaited
  <2>3. Woken(b)'
    BY <1>1, <1>6, <1>9, <2>0 DEF WaitsFor, Woken
  <2> QED
    BY <2>2, <2>3 DEF WaitsFor
<1>20. Waits'
  BY <1>1, <1>19 DEF Waits
<1> QED
  BY <1>10, <1>12, <1>13, <1>14, <1>15, <1>16, <1>17, <1>18, <1>20 DEF IInv

\* The message of a rollback that the main thread is at work on.
LEMMA MainFacts ==
  ASSUME IInv, main.at \in {"join", "recall", "restart"}
  PROVE  /\ main # Nothing /\ main \in [at : {"join", "recall", "restart"}, msg : Rollbacks]
         /\ main.msg.agent \in Agents /\ main.msg.time \in Nat
         /\ aborted[main.msg.agent] /\ cancel[main.msg.agent] /\ ~ready[main.msg.agent]
         /\ main.at # "join" => agent[main.msg.agent] = "stopped"
         /\ main.at = "join" => main.msg.time <= Lvt(main.msg.agent)
<1>1. main # Nothing
  BY MessageFacts
<1>2. main \in [at : {"join", "recall", "restart"}, msg : Rollbacks]
  BY <1>1 DEF IInv, AlpTyped
<1>3. main.msg \in Rollbacks
  BY <1>2
<1> QED
  BY <1>1, <1>2, <1>3, MessageFacts DEF IInv, Rolling

\* Nothing of what is rolled back stays in the queue; of an agent that waits for
\* its request that is all there is.
LEMMA JoinKeeps ==
  ASSUME IInv, MainJoin
  PROVE  IInv'
<1>1. PICK a, t :
        /\ a = main.msg.agent /\ t = main.msg.time /\ main.at = "join" /\ agent[a] = "stopped"
        /\ history' = [history EXCEPT ![a] = {h \in @ : h <= t}]
        /\ sendQueue' = Remaining(sendQueue, RolledBack(sendQueue, a, t))
        /\ timeline' = [timeline EXCEPT ![a] = {m \in @ : ~IsRolledBack(m, a, t)}]
        /\ main' = [main EXCEPT !.at = "recall"]
        /\ UNCHANGED <<agent, current, ready, aborted, cancel, lastId, sendList,
                       awaitedId, response, send, fromClp, atClp, rollbacks>>
        /\ UNCHANGED <<given, twins, slipped, revived>>
  BY DEF MainJoin, MayGoOn, clpVars
<1>2. /\ main # Nothing /\ a \in Agents /\ t \in Nat /\ t <= Lvt(a)
      /\ aborted[a] /\ cancel[a] /\ ~ready[a]
      /\ main \in [at : {"join", "recall", "restart"}, msg : Rollbacks]
  BY <1>1, MainFacts
<1>3. /\ main' \in [at : {"join", "recall", "restart"}, msg : Rollbacks]
      /\ main'.at = "recall" /\ main'.msg = main.msg /\ main' # Nothing
  <2>1. main' \in [at : {"join", "recall", "restart"}, msg : Rollbacks]
        /\ main'.at = "recall" /\ main'.msg = main.msg
    BY <1>1, <1>2
  <2> QED
    BY <2>1, MessageFacts
<1>4. /\ sendQueue' \in Seq(Requests \union Antis) /\ OnceEach(sendQueue', Requests)
      /\ Queued' = {m \in Queued : ~IsRolledBack(m, a, t)} /\ Recalled' = Recalled
  <2> DEFINE s    == sendQueue
             gone == RolledBack(s, a, t)
  <2>1. s \in Seq(Requests \union Antis) /\ OnceEach(s, Requests)
    BY DEF IInv, AlpTyped, Stages
  <2>2. \A x \in ToSet(s) : x \in gone <=> IsRolledBack(x, a, t)
    BY DEF RolledBack
  <2>3. \A x \in Requests : ~IsRolledBack(Anti(x), a, t)
    BY MessageFacts DEF IsRolledBack
  <2> HIDE DEF gone
  <2>4. /\ Remaining(s, gone) \in Seq(Requests \union Antis)
        /\ ToSet(Remaining(s, gone)) = ToSet(s) \ gone
        /\ OnceEach(Remaining(s, gone), Requests)
    <3> HIDE DEF s
    <3> QED
      BY <2>1, RemainingFacts
  <2>5. sendQueue' = Remaining(s, gone)
    BY <1>1 DEF gone
  <2> HIDE DEF s
  <2>6. Queued = {m \in ToSet(s) : m \in Requests}
        /\ Recalled = {m \in Requests : Anti(m) \in ToSet(s)}
    BY DEF s, Queued, Recalled
  <2>7. Queued' = {m \in Queued : ~IsRolledBack(m, a, t)}
    BY <2>2, <2>4, <2>5, <2>6 DEF Queued
  <2>8. Recalled' = Recalled
    BY <2>2, <2>3, <2>4, <2>5, <2>6 DEF Recalled
  <2> QED
    BY <2>4, <2>5, <2>7, <2>8
<1>5. /\ InHand' = InHand /\ OnList' = OnList
      /\ Answers' = Answers /\ Answering' = Answering /\ Refused' = Refused
  BY <1>1, SamePlaces
<1>6. Known' \subseteq Known /\ Queued' \subseteq Queued
  BY <1>1, <1>4, <1>5 DEF Known
<1>7. \A b \in Agents : b # a => history'[b] = history[b] /\ Lvt(b)' = Lvt(b)
  BY <1>1, SameLvt DEF IInv, AgentsTyped
<1>8. \A b \in Agents :
        timeline'[b] = IF b = a THEN {m \in timeline[b] : ~IsRolledBack(m, a, t)} ELSE timeline[b]
  BY <1>1 DEF IInv, AgentsTyped
<1>9. AgentsTyped'
  <2>1. history'[a] = {h \in history[a] : h <= t}
    BY <1>1, <1>2 DEF IInv, AgentsTyped
  <2>2. history'[a] \subseteq history[a] /\ 0 \in history'[a]
    BY <1>2, <2>1 DEF IInv, AgentsTyped
  <2>3. history' \in [Agents -> SUBSET Nat]
    BY <1>1, <1>2 DEF IInv, AgentsTyped
  <2>4. timeline' \in [Agents -> SUBSET Requests]
    BY <1>1, <1>2 DEF IInv, AgentsTyped
  <2>5. ASSUME NEW b \in Agents
        PROVE  /\ history'[b] \subseteq 0 .. EndTime[b] /\ 0 \in history'[b]
               /\ agent'[b] \in {"numbering", "waiting"} => Lvt(b)' < EndTime[b]
               /\ agent'[b] = "waiting" => current'[b] \in Requests /\ current'[b].id <= given'
    <3>1. /\ history[b] \subseteq 0 .. EndTime[b] /\ 0 \in history[b]
          /\ agent[b] \in {"numbering", "waiting"} => Lvt(b) < EndTime[b]
          /\ agent[b] = "waiting" => current[b] \in Requests /\ current[b].id <= given
      BY DEF IInv, AgentsTyped
    <3>2. CASE b = a
      BY <1>1, <2>2, <3>1, <3>2
    <3>3. CASE b # a
      BY <1>1, <1>7, <3>1, <3>3
    <3> QED
      BY <3>2, <3>3
  <2> QED
    BY <1>1, <2>3, <2>4, <2>5 DEF IInv, AgentsTyped
<1>10. AlpTyped'
  BY <1>1, <1>3, <1>4 DEF IInv, AlpTyped
<1>11. ClpTyped'
  BY <1>1, <1>6 DEF IInv, ClpTyped
<1>12. Stages'
  BY <1>1, <1>4, <1>5 DEF IInv, Stages
<1>13. Rolling'
  BY <1>1, <1>2, <1>3 DEF IInv, Rolling
<1>14. Numbered'
  BY <1>1, <1>6 DEF IInv, Numbered
<1>15. IsListed'
  BY <1>1, <1>4, <1>5 DEF IInv, IsListed, HasTwin
<1>16. IsOfThePast'
  <2> SUFFICES ASSUME NEW n \in (Queued' \union InHand' \union atClp') \ Recalled',
                      ~(n \in slipped' \/ HasTwin(n)')
               PROVE  \/ n \in timeline'[n.agent]
                      \/ /\ main'.at = "recall" /\ n \notin Queued'
                         /\ IsRolledBack(n, main'.msg.agent, main'.msg.time)
    BY Zenon DEF IsOfThePast, HasTwin
  <2>1. n \in (Queued \union InHand \union atClp) \ Recalled /\ n \in Requests
    BY <1>1, <1>4, <1>5, PlacesTyped DEF IInv, ClpTyped
  <2>2. n \in timeline[n.agent] /\ n.agent \in Agents
    BY <1>1, <2>1, MessageFacts DEF IInv, IsOfThePast, HasTwin
  <2>3. CASE IsRolledBack(n, a, t)
    BY <1>1, <1>3, <1>4, <2>3
  <2>4. CASE ~IsRolledBack(n, a, t)
    BY <1>8, <2>2, <2>4
  <2> QED
    BY <2>3, <2>4
<1>17. ASSUME NEW b \in Agents \ revived PROVE WaitsFor(b)'
  <2>0. WaitsFor(b)
    BY <1>17 DEF IInv, Waits
  <2>1. CASE b = a
    <3>1. ASSUME NEW m \in Queued, m.agent = a PROVE IsRolledBack(m, a, t)
      <4>1. m \in Requests /\ m.time \in Nat /\ IsRequest(m) /\ Lvt(a) \in Nat
        BY <1>2, PlacesTyped, MessageFacts, LvtFacts DEF IInv
      <4>2. IF m.type = "read" THEN m.time >= Lvt(a) ELSE m.time > Lvt(a)
        BY <2>0, <2>1, <3>1 DEF WaitsFor, NotYetSent
      <4> QED
        BY <1>2, <3>1, <4>1, <4>2 DEF IsRolledBack
    <3>2. \A m \in Queued' : m.agent # a
      BY <1>4, <3>1
    <3>3. OneUnderWay(b)' /\ NotYetSent(b)'
      BY <1>1, <1>5, <2>0, <2>1, <3>2 DEF WaitsFor, OneUnderWay, NotYetSent
    <3>4. Awaited(b)' /\ Woken(b)'
      BY <1>1, <1>2, <1>5, <2>0, <2>1 DEF WaitsFor, Awaited, Woken
    <3> QED
      BY <3>3, <3>4 DEF WaitsFor
  <2>2. CASE b # a
    BY <1>1, <1>3, <1>4, <1>5, <1>7, <2>0, <2>2, StillWaits
  <2> QED
    BY <2>1, <2>2
<1>18. Waits'
  BY <1>1, <1>17 DEF Waits
<1> QED
  BY <1>9, <1>10, <1>11, <1>12, <1>13, <1>14, <1>15, <1>16, <1>18 DEF IInv

\* The anti-messages of a list of requests.
LEMMA AntisFacts ==
  ASSUME NEW list \in Seq(Requests)
  PROVE  /\ [i \in DOMAIN list |-> Anti(list[i])] \in Seq(Requests \union Antis)
         /\ ToSet([i \in DOMAIN list |-> Anti(list[i])]) = {Anti(m) : m \in ToSet(list)}
<1> DEFINE antis == [i \in DOMAIN list |-> Anti(list[i])]
<1>1. DOMAIN list = 1 .. Len(list) /\ Len(list) \in Nat /\ \A i \in 1 .. Len(list) : list[i] \in Requests
  BY LenProperties, ElementOfSeq
<1>2. antis \in [1 .. Len(list) -> Requests \union Antis]
  BY <1>1, MessageFacts
<1>3. antis \in Seq(Requests \union Antis)
  BY <1>1, <1>2, IsASeq
<1>4. ToSet(antis) = {Anti(m) : m \in ToSet(list)}
  BY DEF ToSet
<1> QED
  BY <1>3, <1>4

\* What is rolled back leaves the send list for an anti-message; what is in force
\* and neither on the list nor in the queue is the request in hand.
LEMMA RecallKeeps ==
  ASSUME IInv, MainRecall
  PROVE  IInv'
<1> DEFINE Gone(a, t) == RolledBack(sendList, a, t)
           AntisOf(list) == [i \in DOMAIN list |-> Anti(list[i])]
<1>1. PICK a, t, recalled :
        /\ a = main.msg.agent /\ t = main.msg.time /\ main.at = "recall"
        /\ recalled = Remaining(sendList, ToSet(sendList) \ Gone(a, t))
        /\ sendList' = Remaining(sendList, Gone(a, t))
        /\ sendQueue' = sendQueue \o AntisOf(recalled)
        /\ main' = [main EXCEPT !.at = "restart"]
        /\ slipped' = IF send.at = "list" /\ IsRolledBack(send.msg, a, t)
                      THEN slipped \union {send.msg} ELSE slipped
        /\ UNCHANGED <<agent, current, history, ready, aborted, cancel, lastId>>
        /\ UNCHANGED <<awaitedId, response, send, fromClp, atClp, rollbacks>>
        /\ UNCHANGED <<given, twins, timeline, revived>>
  BY DEF MainRecall, agentVars, clpVars
<1>2. /\ main # Nothing /\ a \in Agents /\ t \in Nat
      /\ aborted[a] /\ cancel[a] /\ ~ready[a] /\ agent[a] = "stopped"
      /\ main \in [at : {"join", "recall", "restart"}, msg : Rollbacks]
  BY <1>1, MainFacts
<1>3. /\ main' \in [at : {"join", "recall", "restart"}, msg : Rollbacks]
      /\ main'.at = "restart" /\ main'.msg = main.msg /\ main' # Nothing
  <2>1. main' \in [at : {"join", "recall", "restart"}, msg : Rollbacks]
        /\ main'.at = "restart" /\ main'.msg = main.msg
    BY <1>1, <1>2
  <2> QED
    BY <2>1, MessageFacts
<1>4. /\ sendList' \in Seq(Requests) /\ recalled \in Seq(Requests)
      /\ OnList' = OnList \ Gone(a, t)
      /\ ToSet(recalled) = Gone(a, t)
  <2> DEFINE s == sendList
             gone == Gone(a, t)
  <2>1. s \in Seq(Requests) /\ gone \subseteq ToSet(s)
    BY DEF IInv, AlpTyped, RolledBack
  <2>2. sendList' = Remaining(s, gone) /\ recalled = Remaining(s, ToSet(s) \ gone)
    BY <1>1
  <2> HIDE DEF s, gone
  <2>3. /\ Remaining(s, gone) \in Seq(Requests)
        /\ ToSet(Remaining(s, gone)) = ToSet(s) \ gone
    BY <2>1, RemainingFacts
  <2>4. /\ Remaining(s, ToSet(s) \ gone) \in Seq(Requests)
        /\ ToSet(Remaining(s, ToSet(s) \ gone)) = ToSet(s) \ (ToSet(s) \ gone)
    BY <2>1, RemainingFacts
  <2> QED
    BY <2>1, <2>2, <2>3, <2>4 DEF s, gone, OnList
<1>5. \A m \in OnList : m \in Gone(a, t) <=> IsRolledBack(m, a, t)
  BY DEF OnList, RolledBack
<1>6. Gone(a, t) \subseteq OnList
  BY DEF OnList, RolledBack
<1> HIDE DEF Gone
<1>7. /\ sendQueue' \in Seq(Requests \union Antis) /\ OnceEach(sendQueue', Requests)
      /\ Queued' = Queued /\ Recalled' = Recalled \union Gone(a, t)
  <2> DEFINE s == sendQueue
             u == AntisOf(recalled)
  <2>1. /\ s \in Seq(Requests \union Antis) /\ OnceEach(s, Requests)
    BY DEF IInv, AlpTyped, Stages
  <2>2. u \in Seq(Requests \union Antis) /\ ToSet(u) = {Anti(m) : m \in Gone(a, t)}
    BY <1>4, AntisFacts
  <2>3. Gone(a, t) \subseteq Requests
    BY <1>6, PlacesTyped DEF IInv
  <2>4. ToSet(u) \cap Requests = {}
    BY <2>2, <2>3, MessageFacts
  <2>5. sendQueue' = s \o u
    BY <1>1
  <2> HIDE DEF u
  <2>6. /\ s \o u \in Seq(Requests \union Antis) /\ ToSet(s \o u) = ToSet(s) \union ToSet(u)
        /\ OnceEach(s \o u, Requests)
    <3> HIDE DEF s
    <3> QED
      BY <2>1, <2>2, <2>4, ConcatFacts
  <2>7. Queued' = Queued
    BY <2>4, <2>5, <2>6 DEF Queued
  <2>8. \A m \in Requests : Anti(m) \in ToSet(u) <=> m \in Gone(a, t)
    BY <2>2, <2>3, MessageFacts
  <2>9. Recalled' = Recalled \union Gone(a, t)
    BY <2>3, <2>5, <2>6, <2>8 DEF Recalled
  <2> QED
    BY <2>5, <2>6, <2>7, <2>9
<1>8. /\ InHand' = InHand
      /\ Answers' = Answers /\ Answering' = Answering /\ Refused' = Refused
  BY <1>1, SamePlaces
<1>9. Known' = Known
  BY <1>1, <1>4, <1>6, <1>7, <1>8 DEF Known
<1>10. \A b \in Agents : Lvt(b)' = Lvt(b)
  BY <1>1, SameLvt
<1>11. slipped' \subseteq slipped \union InHand /\ slipped \subseteq slipped'
  <2>1. send.at = "list" => send # Nothing
    BY MessageFacts
  <2> QED
    BY <1>1, <2>1 DEF InHand
<1>12. AgentsTyped'
  BY <1>1, <1>10 DEF IInv, AgentsTyped
<1>13. AlpTyped'
  BY <1>1, <1>3, <1>4, <1>7 DEF IInv, AlpTyped
<1>14. ClpTyped'
  <2>1. InHand \subseteq Known /\ Known \subseteq Requests
    BY PlacesTyped DEF IInv, Known
  <2> QED
    BY <1>1, <1>9, <1>11, <2>1 DEF IInv, ClpTyped
<1>15. Stages'
  <2>1. Queued' \cap (Recalled' \union InHand' \union OnList' \union atClp' \union Answering') = {}
    BY <1>1, <1>4, <1>6, <1>7, <1>8 DEF IInv, Stages
  <2> QED
    BY <1>1, <1>7, <1>8, <2>1 DEF IInv, Stages
<1>16. Rolling'
  BY <1>1, <1>2, <1>3 DEF IInv, Rolling
<1>17. Numbered'
  BY <1>1, <1>9 DEF IInv, Numbered
<1>18. IsListed'
  BY <1>1, <1>4, <1>7, <1>8 DEF IInv, IsListed, HasTwin
<1>19. IsOfThePast'
  <2> SUFFICES ASSUME NEW n \in (Queued' \union InHand' \union atClp') \ Recalled',
                      ~HasTwin(n)'
               PROVE  n \in timeline'[n.agent] \/ n \in slipped'
    BY Zenon DEF IsOfThePast, HasTwin
  <2>1. n \in (Queued \union InHand \union atClp) \ Recalled /\ n \notin Gone(a, t) /\ ~HasTwin(n)
    BY <1>1, <1>7, <1>8 DEF HasTwin
  <2>2. CASE n \in timeline[n.agent] \/ n \in slipped
    BY <1>1, <1>11, <2>2
  <2>3. CASE ~(n \in timeline[n.agent] \/ n \in slipped)
    <3>1. n \notin Queued /\ IsRolledBack(n, a, t)
      BY <1>1, <2>1, <2>3 DEF IInv, IsOfThePast
    <3>2. n \notin OnList
      BY <1>5, <2>1, <3>1
    <3>3. n \in InHand /\ send.at # "note"
      BY <2>1, <3>1, <3>2 DEF IInv, IsListed
    <3>4. send.at = "list" /\ n = send.msg
      BY <3>3 DEF IInv, AlpTyped, InHand
    <3> QED
      BY <1>1, <3>1, <3>4
  <2> QED
    BY <2>2, <2>3
<1>20. ASSUME NEW b \in Agents \ revived PROVE WaitsFor(b)'
  <2>1. WaitsFor(b)
    BY <1>20 DEF IInv, Waits
  <2>2. OneUnderWay(b)' /\ Awaited(b)' /\ Woken(b)'
    BY <1>1, <1>7, <1>8, <2>1 DEF WaitsFor, OneUnderWay, Awaited, Woken
  <2>3. main'.msg.agent = b => main # Nothing /\ main.msg.agent = b /\ main.at # "join"
    BY <1>1, <1>2, <1>3
  <2>4. NotYetSent(b)'
    BY <1>7, <1>10, <2>1, <2>3 DEF WaitsFor, NotYetSent
  <2> QED
    BY <2>2, <2>4 DEF WaitsFor
<1>21. Waits'
  BY <1>1, <1>20 DEF Waits
<1> QED
  BY <1>12, <1>13, <1>14, <1>15, <1>16, <1>17, <1>18, <1>19, <1>21 DEF IInv

\* The agent starts anew with nothing under way, but for what the send thread has
\* in hand.
LEMMA RestartKeeps ==
  ASSUME IInv, MainRestart
  PROVE  IInv'
<1>1. PICK a :
        /\ a = main.msg.agent /\ main.at = "restart"
        /\ agent' = [agent EXCEPT ![a] = "cycle"]
        /\ aborted' = [aborted EXCEPT ![a] = FALSE] /\ cancel' = [cancel EXCEPT ![a] = FALSE]
        /\ response' = [response EXCEPT ![a] = None] /\ awaitedId' = [awaitedId EXCEPT ![a] = NoId]
        /\ main' = Nothing
        /\ revived' = revived \union ({m.agent : m \in InHand} \cap {a})
        /\ UNCHANGED <<current, history, ready, lastId, sendQueue, sendList, send>>
        /\ UNCHANGED <<fromClp, atClp, rollbacks, given, twins, timeline, slipped>>
  BY DEF MainRestart, clpVars
<1>2. /\ main # Nothing /\ a \in Agents /\ ~ready[a] /\ agent[a] = "stopped"
  BY <1>1, MainFacts
<1>3. /\ Queued' = Queued /\ Recalled' = Recalled /\ InHand' = InHand /\ OnList' = OnList
      /\ Answers' = Answers /\ Answering' = Answering /\ Refused' = Refused
  BY <1>1, SamePlaces
<1>4. Known' = Known
  BY <1>1, <1>3 DEF Known
<1>5. \A b \in Agents : Lvt(b)' = Lvt(b)
  BY <1>1, SameLvt
<1>6. \A b \in Agents :
        /\ agent'[b] = IF b = a THEN "cycle" ELSE agent[b]
        /\ aborted'[b] = IF b = a THEN FALSE ELSE aborted[b]
        /\ cancel'[b] = IF b = a THEN FALSE ELSE cancel[b]
        /\ response'[b] = IF b = a THEN None ELSE response[b]
        /\ awaitedId'[b] = IF b = a THEN NoId ELSE awaitedId[b]
  BY <1>1 DEF IInv, AgentsTyped, AlpTyped
<1>7. AgentsTyped'
  <2>1. aborted' \in [Agents -> BOOLEAN] /\ cancel' \in [Agents -> BOOLEAN]
    BY <1>1 DEF IInv, AgentsTyped
  <2>2. agent' \in [Agents -> {"cycle", "numbering", "waiting", "final", "stopped"}]
    BY <1>1 DEF IInv, AgentsTyped
  <2>3. {ready', aborted', cancel'} \subseteq [Agents -> BOOLEAN]
    BY <1>1, <2>1 DEF IInv, AgentsTyped
  <2> QED
    BY <1>1, <1>5, <1>6, <2>2, <2>3 DEF IInv, AgentsTyped
<1>8. AlpTyped'
  <2>1. NoId \in 0 .. given
    BY DEF IInv, ClpTyped, NoId
  <2>2. awaitedId' \in [Agents -> 0 .. given']
    BY <1>1, <2>1 DEF IInv, AlpTyped
  <2> QED
    BY <1>1, <2>2 DEF IInv, AlpTyped
<1>9. ClpTyped' /\ Stages'
  BY <1>1, <1>3, <1>4 DEF IInv, ClpTyped, Stages
<1>10. Rolling'
  <2>1. \A b \in Agents : aborted[b] \/ cancel[b] \/ agent[b] = "stopped" => b = a
    BY <1>1 DEF IInv, Rolling
  <2>2. \A b \in Agents : ~(aborted'[b] \/ cancel'[b] \/ agent'[b] = "stopped")
    BY <1>6, <2>1
  <2> QED
    BY <1>1, <2>2 DEF Rolling
<1>11. Numbered'
  BY <1>1, <1>4, <1>6 DEF IInv, Numbered
<1>12. IsListed'
  BY <1>1, <1>3 DEF IInv, IsListed, HasTwin
<1>13. IsOfThePast'
  BY <1>1, <1>3 DEF IInv, IsOfThePast, HasTwin
<1>14. ASSUME NEW b \in Agents \ revived' PROVE WaitsFor(b)'
  <2>1. WaitsFor(b)
    BY <1>1, <1>14 DEF IInv, Waits
  <2>2. CASE b = a
    <3>1. \A m \in InHand : m.agent # a
      BY <1>1, <1>14, <2>2
    <3>2. \A m \in Queued : m.agent # a
      BY <1>1, <1>2, <2>1, <2>2 DEF WaitsFor, NotYetSent
    <3>3. \A m \in Answering : m.id # NoId
      BY PlacesTyped, MessageFacts DEF IInv, NoId
    <3>4. OneUnderWay(b)' /\ NotYetSent(b)'
      BY <1>3, <2>2, <3>1, <3>2 DEF OneUnderWay, NotYetSent
    <3>5. Awaited(b)' /\ Woken(b)'
      BY <1>1, <1>2, <1>3, <1>6, <2>2, <3>3 DEF Awaited, Woken
    <3> QED
      BY <3>4, <3>5 DEF WaitsFor
  <2>3. CASE b # a
    BY <1>1, <1>3, <1>6, <2>1, <2>3, StillWaits
  <2> QED
    BY <2>2, <2>3
<1>15. Waits'
  BY <1>14 DEF Waits
<1> QED
  BY <1>7, <1>8, <1>9, <1>10, <1>11, <1>12, <1>13, <1>15 DEF IInv

-----------------------------------------------------------------------------
(* The CLP, and the whole.                                                 *)

\* One rollback more is on its way.
LEMMA ClpRollbackKeeps ==
  ASSUME IInv, NEW m \in atClp, NEW t \in Nat, ClpRollback(m, t)
  PROVE  IInv'
<1>1. /\ fromClp' = Append(fromClp, Rollback(m.agent, t))
      /\ UNCHANGED <<agent, current, history, ready, aborted, cancel, lastId>>
      /\ UNCHANGED <<sendQueue, sendList, awaitedId, response, send, main, atClp>>
      /\ UNCHANGED <<given, twins, timeline, slipped, revived>>
  BY DEF ClpRollback, agentVars, alpVars, histVars
<1>2. Rollback(m.agent, t) \in Rollbacks /\ Rollback(m.agent, t) \notin Responses
  <2>1. m \in Requests
    BY DEF IInv, ClpTyped
  <2>2. m.agent \in Agents
    BY <2>1, MessageFacts
  <2>3. Rollback(m.agent, t) \in Rollbacks
    BY <2>2, MessageFacts
  <2> QED
    BY <2>3, MessageFacts
<1>3. /\ fromClp' \in Seq(Responses \union Rollbacks) /\ OnceEach(fromClp', Responses)
      /\ Answers' = Answers /\ Answering' = Answering /\ Refused' = Refused
  BY <1>1, <1>2, FromClpAppend DEF IInv, Stages
<1>4. Queued' = Queued /\ Recalled' = Recalled /\ InHand' = InHand /\ OnList' = OnList
  BY <1>1, SamePlaces
<1>5. Known' = Known
  BY <1>1, <1>3, <1>4 DEF Known
<1>6. \A b \in Agents : Lvt(b)' = Lvt(b)
  BY <1>1, SameLvt
<1>7. AgentsTyped' /\ AlpTyped'
  BY <1>1, <1>6 DEF IInv, AgentsTyped, AlpTyped
<1>8. ClpTyped' /\ Stages'
  BY <1>1, <1>3, <1>4, <1>5 DEF IInv, ClpTyped, Stages
<1>9. Rolling'
  BY <1>1, SameRolling DEF IInv
<1>10. Numbered'
  BY <1>1, <1>5 DEF IInv, Numbered
<1>11. IsListed' /\ IsOfThePast'
  BY <1>1, <1>3, <1>4 DEF IInv, IsListed, IsOfThePast, HasTwin
<1>12. Waits'
  BY <1>1, <1>3, <1>4, StillWaits DEF IInv, Waits
<1> QED
  BY <1>7, <1>8, <1>9, <1>10, <1>11, <1>12 DEF IInv

\* Nothing happens.
LEMMA StutterKeeps ==
  ASSUME IInv, UNCHANGED vars
  PROVE  IInv'
<1>1. /\ UNCHANGED <<alpVars, clpVars, histVars>> /\ lastId' = lastId
      /\ UNCHANGED <<agent, current, history, ready, aborted, cancel, main,
                     awaitedId, response, given, twins, timeline, revived>>
  BY DEF vars, agentVars, alpVars, histVars
<1>2. lastId' \in {lastId, lastId + 1}
  BY <1>1
<1>3. /\ AlpTyped' /\ ClpTyped' /\ Stages' /\ IsListed' /\ IsOfThePast'
      /\ Queued' = Queued /\ InHand' = InHand /\ Answering' = Answering /\ Known' = Known
  BY <1>1, <1>2, AgentOnly
<1>4. \A b \in Agents : Lvt(b)' = Lvt(b)
  BY <1>1, SameLvt
<1>5. AgentsTyped'
  BY <1>1, <1>4 DEF IInv, AgentsTyped
<1>6. Rolling'
  BY <1>1, SameRolling DEF IInv
<1>7. Numbered'
  BY <1>1, <1>3 DEF IInv, Numbered
<1>8. Waits'
  BY <1>1, <1>3, StillWaits DEF IInv, Waits
<1> QED
  BY <1>3, <1>5, <1>6, <1>7, <1>8 DEF IInv

\* Every step keeps the invariant.
LEMMA NextKeeps == IInv /\ [Next]_vars => IInv'
<1> SUFFICES ASSUME IInv, [Next]_vars PROVE IInv'
  OBVIOUS
<1>1. ASSUME NEW a \in Agents, AgentStep(a) PROVE IInv'
  <2>1. CASE AgentNumber(a)
    BY <2>1, NumberKeeps
  <2>2. ASSUME NEW type \in {"read", "write"}, AgentAsk(a, type) PROVE IInv'
    BY <2>2, AskKeeps
  <2>3. CASE AgentTake(a)
    BY <2>3, TakeKeeps
  <2>4. CASE AgentStop(a)
    BY <2>4, MoveKeeps DEF AgentStop, Goes
  <2>5. CASE AgentFinish(a)
    BY <2>5, MoveKeeps DEF AgentFinish, Goes
  <2>6. CASE AgentReturn(a)
    BY <2>6, MoveKeeps DEF AgentReturn, Goes
  <2> QED
    BY <1>1, <2>1, <2>2, <2>3, <2>4, <2>5, <2>6 DEF AgentStep
<1>2. CASE SendStep
  BY <1>2, DequeueKeeps, SendListKeeps, NoteKeeps DEF SendStep
<1>3. CASE MainStep
  BY <1>3, ResponseKeeps, AbortKeeps, JoinKeeps, RecallKeeps, RestartKeeps DEF MainStep
<1>4. ASSUME NEW m \in atClp, NEW t \in 0 .. Max(Range(EndTime)), ClpRollback(m, t) PROVE IInv'
  BY <1>4, ClpRollbackKeeps
<1>5. CASE UNCHANGED vars
  BY <1>5, StutterKeeps
<1> QED
  BY <1>1, <1>2, <1>3, <1>4, <1>5 DEF Next
-----------------------------------------------------------------------------
(* The theorems.                                                           *)

\* The inductive invariant holds of every behaviour.
THEOREM Invariance == Spec => []IInv
BY InitKeeps, NextKeeps, PTL DEF Spec

\* Every variable always holds a value of its type.
THEOREM TypeCorrect == Spec => []TypeOK
<1>1. ASSUME IInv PROVE TypeOK
  <2>1. /\ \A m \in Requests : m.id <= lastId => m.id \in 1 .. lastId
        /\ \A m \in Requests : m.time \in 0 .. EndTime[m.agent]
    <3>1. lastId \in Nat
      BY <1>1 DEF IInv, ClpTyped
    <3>2. \A a \in Agents : EndTime[a] \in Nat
      BY AlpThreadsAssumption
    <3> QED
      BY <3>1, <3>2, MessageFacts
  <2>2. \A m \in Requests : m.id <= given => m.id <= lastId
    BY <1>1, MessageFacts DEF IInv, ClpTyped
  <2>3. ASSUME NEW m \in Requests, m.id <= given PROVE IsMessage(m) /\ IsRequest(m)
    BY <2>1, <2>2, <2>3, MessageFacts DEF IsMessage
  <2>4. \A m \in Antis : IsMessage(m)
    BY MessageFacts DEF IsMessage
  <2>5. \A m \in Known \union slipped : m \in Requests /\ m.id <= given
    BY <1>1, PlacesTyped DEF IInv, ClpTyped
  <2>6. \A m \in ToSet(sendQueue) : IsMessage(m)
    <3>1. ToSet(sendQueue) \subseteq Requests \union Antis
      BY <1>1, TailFacts DEF IInv, AlpTyped
    <3>2. \A m \in ToSet(sendQueue) : m \in Requests => m \in Known
      BY DEF Known, Queued
    <3> QED
      BY <2>3, <2>4, <2>5, <3>1, <3>2
  <2>7. \A m \in ToSet(sendList) \union atClp \union slipped : IsMessage(m) /\ IsRequest(m)
    BY <2>3, <2>5 DEF Known, OnList
  <2>8. send = Nothing \/ (send.at \in {"list", "note"} /\ IsRequest(send.msg))
    BY <1>1, MessageFacts DEF IInv, AlpTyped
  <2>9. main = Nothing \/ (main.at \in {"join", "recall", "restart"} /\ main.msg.type = "rollback")
    BY <1>1, MessageFacts DEF IInv, AlpTyped
  <2>10. ASSUME NEW a \in Agents
         PROVE  /\ history[a] \subseteq 0 .. EndTime[a] /\ 0 \in history[a]
                /\ awaitedId[a] \in 0 .. lastId
                /\ agent[a] = "waiting" => current[a].id \in 1 .. lastId
                /\ response[a] = None \/ response[a].type = "response"
                /\ agent[a] = "stopped" => main # Nothing
                /\ agent[a] \in {"numbering", "waiting"} => Lvt(a) < EndTime[a]
    <3>1. awaitedId[a] \in 0 .. given /\ given \in 0 .. lastId /\ lastId \in Nat
      BY <1>1 DEF IInv, AlpTyped, ClpTyped
    <3>2. awaitedId[a] \in 0 .. lastId
      BY <3>1
    <3>3. agent[a] = "waiting" => current[a].id \in 1 .. lastId
      BY <1>1, <2>1, <2>2 DEF IInv, AgentsTyped
    <3>4. response[a] = None \/ response[a].type = "response"
      BY <1>1, MessageFacts DEF IInv, AlpTyped
    <3>5. agent[a] = "stopped" => main # Nothing
      BY <1>1 DEF IInv, Rolling
    <3> QED
      BY <1>1, <3>2, <3>3, <3>4, <3>5 DEF IInv, AgentsTyped
  <2>11. /\ agent \in [Agents -> {"cycle", "numbering", "waiting", "final", "stopped"}]
         /\ {ready, aborted, cancel} \subseteq [Agents -> BOOLEAN]
    BY <1>1 DEF IInv, AgentsTyped
  <2> QED
    BY <2>6, <2>7, <2>8, <2>9, <2>10, <2>11 DEF TypeOK
<1> QED
  BY <1>1, Invariance, PTL

\* What is in force at the CLP, in the terms of the invariant.
LEMMA InForceIs ==
  ASSUME IInv
  PROVE  InForce = (Queued \union InHand \union atClp) \ Recalled
<1>1. /\ ToSet(sendQueue) \subseteq Requests \union Antis /\ InHand \subseteq Requests
  BY TailFacts, PlacesTyped DEF IInv, AlpTyped
<1> DEFINE coming == ToSet(sendQueue) \union InHand
<1>2. {m \in coming : IsRequest(m)} = Queued \union InHand
  BY <1>1, MessageFacts DEF Queued
<1>3. {x \in coming : x.type = "anti"} = {x \in ToSet(sendQueue) : x \in Antis}
  <2>1. \A m \in Requests : m.type # "anti"
    BY MessageFacts
  <2>2. \A m \in Antis : m.type = "anti"
    BY MessageFacts
  <2> QED
    BY <1>1, <2>1, <2>2, MessageFacts
<1>4. {m.of : m \in {x \in coming : x.type = "anti"}} = Recalled
  BY <1>3, MessageFacts DEF Recalled
<1> QED
  BY <1>2, <1>4 DEF InForce

\* A rollback leaves nothing behind of what it takes back, but what the send
\* thread holds between the queue and the send list, and what shares its
\* identifier.
THEOREM OnlyOneSlips == Spec => []OnlyTheOneInHandSlips
<1>1. ASSUME IInv PROVE OnlyTheOneInHandSlips
  <2> SUFFICES ASSUME NEW m \in InForce
               PROVE  \/ m \in timeline[m.agent]
                      \/ m \in slipped \/ HasTwin(m)
                      \/ main.at = "recall" /\ main.msg.agent = m.agent
    BY DEF OnlyTheOneInHandSlips
  <2>1. \/ m \in timeline[m.agent]
        \/ m \in slipped \/ HasTwin(m)
        \/ main.at = "recall" /\ IsRolledBack(m, main.msg.agent, main.msg.time)
    BY <1>1, InForceIs DEF IInv, IsOfThePast
  <2> QED
    BY <2>1 DEF IsRolledBack
<1> QED
  BY <1>1, Invariance, PTL

\* What takes effect at the CLP is on the send list until it is recalled.
THEOREM EffectsAreListed == Spec => []WhatTakesEffectIsListed
<1>1. ASSUME IInv PROVE WhatTakesEffectIsListed
  <2> SUFFICES ASSUME NEW m \in InForce \ (ToSet(sendQueue) \union InHand)
               PROVE  m \in ToSet(sendList) \/ HasTwin(m)
    BY DEF WhatTakesEffectIsListed
  <2>1. m \in atClp \ Recalled
    BY <1>1, InForceIs DEF Queued
  <2> QED
    BY <1>1, <2>1 DEF IInv, IsListed, OnList
<1> QED
  BY <1>1, Invariance, PTL

\* An agent that has been woken takes the response to its own request, unless it
\* was restarted with one in hand.
THEOREM OwnResponse == Spec => []ResponseIsOwn
<1>1. ASSUME IInv PROVE ResponseIsOwn
  BY <1>1 DEF IInv, Waits, WaitsFor, Woken, ResponseIsOwn
<1> QED
  BY <1>1, Invariance, PTL
=============================================================================
