----------------------------- MODULE AlpThreads -----------------------------
(***************************************************************************)
(* An ALP step by step: the threads of its agents, its send thread and its *)
(* main thread, which share the send queue, the send list, and for each    *)
(* agent the identifier of the response it waits for, the response and the *)
(* flag message_ready_.  None of these but the queue has a lock.           *)
(*                                                                         *)
(*   agent    numbers a request (IdentifierHandler, two steps), queues it, *)
(*            and polls message_ready_ until the response is there;        *)
(*   send     takes a request from the queue, puts a copy on the send      *)
(*            list, notes whose response is awaited, and transmits it;     *)
(*   main     hands a response over, or performs a rollback: it stops the  *)
(*            agent's thread at its next SyncPoint, waits for its end,     *)
(*            clears the queue, sends anti-messages for what is on the     *)
(*            send list, and starts the thread anew.                       *)
(*                                                                         *)
(* TimeWarp takes each of these as one step; here they interleave.  What   *)
(* the CLP does is reduced to executing requests and anti-messages in      *)
(* order, refusing some writes, and rolling reads back for whatever        *)
(* reason, each time with a new tag.  It does so when they leave the ALP:  *)
(* the delay is all on the way back, as the ALP cannot tell.  An agent     *)
(* reads at its LVT and writes at its LVT plus one, as RemoveMessages      *)
(* expects, and then moves its LVT on by one.  GVT does not get to the end *)
(* time.                                                                   *)
(*                                                                         *)
(* A step is what no other thread can tell apart from its parts: only      *)
(* those accesses to shared data are separate steps between which another  *)
(* thread's access makes a difference.                                     *)
(***************************************************************************)
EXTENDS FiniteSetsExt, Lists

CONSTANTS
  Agents,         \* the agents of the ALP
  EndTime,        \* the end_time_ of each
  MaxRollbacks    \* bound: rollbacks the CLP sends

ASSUME AlpThreadsAssumption ==
  /\ Agents # {} /\ IsFiniteSet(Agents)
  /\ EndTime \in [Agents -> Nat] /\ MaxRollbacks \in Nat

VARIABLES
  agent,       \* per agent, where its thread is
  current,     \* per agent, the last request it made
  history,     \* per agent, agent_lvt_history_map_; its maximum is the LVT
  ready,       \* per agent, message_ready_
  aborted,     \* per agent, whether Abort has set the state of its thread
  cancel,      \* per agent, agent_cancel_flag_map_
  lastId,      \* fLastID of the identifier handler
  sendQueue,   \* fSendMessageQueue
  sendList,    \* fSendList
  awaitedId,   \* per agent, agent_response_message_id_map_
  response,    \* per agent, agent_response_map_
  send,        \* where the send thread is, with what message
  main,        \* where the main thread is, with what message
  fromClp,     \* messages from the CLP, fReceiveMessageQueue included
  atClp,       \* the requests in force at the CLP
  rollbacks,   \* how many rollbacks the CLP has sent
  given,       \* history variable: the last identifier given out
  twins,       \* history variable: the identifiers given out twice
  timeline,    \* history variable: per agent, the requests of its present past
  slipped,     \* history variable: requests in hand while the send list was rolled back
  revived      \* history variable: agents restarted with a request in hand

agentVars   == <<agent, current, history, ready, aborted, cancel, lastId>>
alpVars     == <<sendQueue, sendList, awaitedId, response, send, main>>
clpVars     == <<fromClp, atClp, rollbacks>>
histVars    == <<given, twins, timeline, slipped, revived>>
vars        == <<agentVars, alpVars, clpVars, histVars>>

-----------------------------------------------------------------------------
(* Messages.  An agent's identifiers are its own, two agents' may not be.   *)

None    == [type |-> "none"]
Nothing == [at |-> "idle", msg |-> None]      \* what a thread does when idle

NoId == 0      \* what ProcessRollback writes into agent_response_message_id_map_

Request(type, a, id, time) == [type |-> type, agent |-> a, id |-> id, time |-> time]

IsRequest(m) == m.type \in {"read", "write"}

\* The anti-message of a request; the model keeps which one that was.
Anti(m)        == [type |-> "anti", of |-> m]
Response(m, ok) == [type |-> "response", to |-> m, ok |-> ok]
Rollback(a, t)  == [type |-> "rollback", agent |-> a, time |-> t]

\* MessageQueue::RemoveMessages and HasSendList::RollbackSendList: a read is
\* rolled back from its own time on, a write only from the time after: it was
\* made in the step before.
IsRolledBack(m, a, t) ==
  /\ IsRequest(m)
  /\ m.agent = a
  /\ IF m.type = "read" THEN m.time >= t ELSE m.time > t

RolledBack(list, a, t) == {m \in ToSet(list) : IsRolledBack(m, a, t)}

Lvt(a) == Max(history[a])

Init ==
  /\ agent     = [a \in Agents |-> "cycle"]
  /\ current   = [a \in Agents |-> None]
  /\ history   = [a \in Agents |-> {0}]
  /\ ready     = [a \in Agents |-> FALSE]
  /\ aborted   = [a \in Agents |-> FALSE]
  /\ cancel    = [a \in Agents |-> FALSE]
  /\ lastId    = 0
  /\ sendQueue = <<>>
  /\ sendList  = <<>>
  /\ awaitedId = [a \in Agents |-> NoId]
  /\ response  = [a \in Agents |-> None]
  /\ send      = Nothing
  /\ main      = Nothing
  /\ fromClp   = <<>>
  /\ atClp     = {}
  /\ rollbacks = 0
  /\ given     = NoId
  /\ twins     = {}
  /\ timeline  = [a \in Agents |-> {}]
  /\ slipped   = {}
  /\ revived   = {}

-----------------------------------------------------------------------------
(* The thread of an agent.                                                 *)

Goes(a, from, to) ==
  /\ agent[a] = from
  /\ agent' = [agent EXCEPT ![a] = to]

\* IdentifierHandler::GetNextID: under its lock...
AgentNumber(a) ==
  /\ Lvt(a) < EndTime[a]
  /\ Goes(a, "cycle", "numbering")
  /\ lastId' = lastId + 1
  /\ UNCHANGED <<current, history, ready, aborted, cancel, alpVars, clpVars, histVars>>

\* ...and without it; then SendReadMessageAndGetResponse and its like.
AgentAsk(a, type) ==
  LET m == Request(type, a, lastId, IF type = "read" THEN Lvt(a) ELSE Lvt(a) + 1)
  IN /\ Goes(a, "numbering", "waiting")
     /\ current'   = [current EXCEPT ![a] = m]
     /\ sendQueue' = Append(sendQueue, m)
     /\ given'     = m.id
     /\ twins'     = IF m.id = given THEN twins \union {m.id} ELSE twins
     /\ timeline'  = [timeline EXCEPT ![a] = @ \union {m}]
     /\ UNCHANGED <<history, ready, aborted, cancel, lastId, sendList, awaitedId,
                    response, send, main, clpVars, slipped, revived>>

\* WaitUntilMessageArrive, GetResponseMessage and SetLVT.  The response itself
\* stays in the map.
AgentTake(a) ==
  /\ ready[a] /\ ~aborted[a]
  /\ Goes(a, "waiting", "cycle")
  /\ ready'   = [ready EXCEPT ![a] = FALSE]
  /\ history' = [history EXCEPT ![a] = @ \union {Lvt(a) + 1}]
  /\ UNCHANGED <<current, aborted, cancel, lastId, alpVars, clpVars, histVars>>

\* One of the two SyncPoints of WaitUntilMessageArrive throws.
AgentStop(a) ==
  /\ aborted[a]
  /\ Goes(a, "waiting", "stopped")
  /\ UNCHANGED <<current, history, ready, aborted, cancel, lastId, alpVars, clpVars, histVars>>

\* Agent::Body past the end time: it waits for GVT, and for the cancel flag.
AgentFinish(a) ==
  /\ Lvt(a) >= EndTime[a]
  /\ Goes(a, "cycle", "final")
  /\ UNCHANGED <<current, history, ready, aborted, cancel, lastId, alpVars, clpVars, histVars>>

\* Variant of AgentReturn that lets the thread end at the end time.
AgentReturnAtOnce(a) ==
  /\ Goes(a, "final", "stopped")
  /\ UNCHANGED <<current, history, ready, aborted, cancel, lastId, alpVars, clpVars, histVars>>

AgentReturn(a) ==
  /\ cancel[a]
  /\ Goes(a, "final", "stopped")
  /\ UNCHANGED <<current, history, ready, aborted, cancel, lastId, alpVars, clpVars, histVars>>

-----------------------------------------------------------------------------
(* The send thread: Alp::Send.                                             *)

\* The request it has taken and not yet transmitted.
InHand == IF send = Nothing THEN {} ELSE {send.msg}

\* The queue's own mutex covers this much; an anti-message goes straight out.
SendDequeue ==
  /\ send = Nothing
  /\ sendQueue # <<>>
  /\ sendQueue' = Tail(sendQueue)
  /\ LET m == Head(sendQueue)
     IN IF IsRequest(m)
        THEN send' = [at |-> "list", msg |-> m] /\ UNCHANGED atClp
        ELSE atClp' = atClp \ {m.of} /\ UNCHANGED send
  /\ UNCHANGED <<agentVars, sendList, awaitedId, response, main, fromClp, rollbacks, histVars>>

\* HasSendList::AddToSendList.
SendList ==
  /\ send.at = "list"
  /\ sendList' = Append(sendList, send.msg)
  /\ send'     = [send EXCEPT !.at = "note"]
  /\ UNCHANGED <<agentVars, sendQueue, awaitedId, response, main, clpVars, histVars>>

\* The CLP executes a request, or refuses it, and responds.
ClpExecute(m, ok) ==
  /\ m.type = "read" => ok
  /\ atClp'   = IF ok THEN atClp \union {m} ELSE atClp
  /\ fromClp' = Append(fromClp, Response(m, ok))

\* Variant of SendNote without the case of a write.
SendNoteReads(ok) ==
  /\ send.at = "note"
  /\ awaitedId' = IF send.msg.type = "write" THEN awaitedId
                  ELSE [awaitedId EXCEPT ![send.msg.agent] = send.msg.id]
  /\ send'      = Nothing
  /\ ClpExecute(send.msg, ok)
  /\ UNCHANGED <<agentVars, sendQueue, sendList, response, main, rollbacks, histVars>>

\* The request is noted as awaited and transmitted.
SendNote(ok) ==
  /\ send.at = "note"
  /\ awaitedId' = [awaitedId EXCEPT ![send.msg.agent] = send.msg.id]
  /\ send'      = Nothing
  /\ ClpExecute(send.msg, ok)
  /\ UNCHANGED <<agentVars, sendQueue, sendList, response, main, rollbacks, histVars>>

-----------------------------------------------------------------------------
(* The main thread: Alp::Receive, a response.                              *)

IsNext(type) == main = Nothing /\ fromClp # <<>> /\ Head(fromClp).type = type

\* Variant of RemoveFromSendList that takes the agent's first.
RemoveFirstOf(list, m) ==
  LET i == SelectInSeq(list, LAMBDA s : s.agent = m.agent)
  IN IF i = 0 THEN list ELSE RemoveAt(list, i)

\* HasSendList::RemoveFromSendList: the first with the identifier.
RemoveFromSendList(list, m) ==
  LET i == SelectInSeq(list, LAMBDA s : s.id = m.id)
  IN IF i = 0 THEN list ELSE RemoveAt(list, i)

\* Alp::ProcessMessage of a response: a refused write leaves the send list; the
\* agent gets the response and its flag is set if it waits for this one.
MainResponse ==
  /\ IsNext("response")
  /\ LET m == Head(fromClp)
         a == m.to.agent
     IN /\ sendList' = IF m.ok THEN sendList ELSE RemoveFromSendList(sendList, m.to)
        /\ IF awaitedId[a] = m.to.id
           THEN /\ response' = [response EXCEPT ![a] = m]
                /\ ready'    = [ready EXCEPT ![a] = TRUE]
           ELSE UNCHANGED <<response, ready>>
  /\ fromClp' = Tail(fromClp)
  /\ UNCHANGED <<agent, current, history, aborted, cancel, lastId, sendQueue,
                 awaitedId, send, main, atClp, rollbacks, histVars>>

-----------------------------------------------------------------------------
(* The main thread: Alp::ProcessRollback.                                  *)

\* Variant of MainAbort without SetCancelFlag.
MainAbortNoFlag ==
  /\ IsNext("rollback")
  /\ LET m == Head(fromClp)
     IN IF m.time > Lvt(m.agent)
        THEN UNCHANGED <<aborted, ready, main>>
        ELSE /\ aborted' = [aborted EXCEPT ![m.agent] = TRUE]
             /\ ready'   = [ready EXCEPT ![m.agent] = FALSE]
             /\ main'    = [at |-> "join", msg |-> m]
  /\ fromClp' = Tail(fromClp)
  /\ UNCHANGED <<agent, current, history, cancel, lastId, sendQueue, sendList,
                 awaitedId, response, send, atClp, rollbacks, histVars>>

\* What is not far enough back is ignored; else Abort, SetCancelFlag and
\* ResetMessageArriveFlag.
MainAbort ==
  /\ IsNext("rollback")
  /\ LET m == Head(fromClp)
     IN IF m.time > Lvt(m.agent)
        THEN UNCHANGED <<aborted, cancel, ready, main>>
        ELSE /\ aborted' = [aborted EXCEPT ![m.agent] = TRUE]
             /\ cancel'  = [cancel EXCEPT ![m.agent] = TRUE]
             /\ ready'   = [ready EXCEPT ![m.agent] = FALSE]
             /\ main'    = [at |-> "join", msg |-> m]
  /\ fromClp' = Tail(fromClp)
  /\ UNCHANGED <<agent, current, history, lastId, sendQueue, sendList,
                 awaitedId, response, send, atClp, rollbacks, histVars>>

\* Variant of MayGoOn that does not wait for the thread.
MayAlwaysGoOn(a) == TRUE

\* ThreadWrapper::Join returns.
MayGoOn(a) == agent[a] = "stopped"

\* Variant of MainJoin that leaves the queue alone.
MainJoinKeepsQueue ==
  LET a == main.msg.agent
      t == main.msg.time
  IN /\ main.at = "join"
     /\ MayGoOn(a)
     /\ history'   = [history EXCEPT ![a] = {h \in @ : h <= t}]
     /\ timeline'  = [timeline EXCEPT ![a] = {m \in @ : ~IsRolledBack(m, a, t)}]
     /\ main'      = [main EXCEPT !.at = "recall"]
     /\ UNCHANGED <<agent, current, ready, aborted, cancel, lastId, sendQueue,
                    sendList, awaitedId, response, send, clpVars, given, twins, slipped, revived>>

\* Then the LVT goes back, and what is not yet sent leaves the queue.
MainJoin ==
  LET a == main.msg.agent
      t == main.msg.time
  IN /\ main.at = "join"
     /\ MayGoOn(a)
     /\ history'   = [history EXCEPT ![a] = {h \in @ : h <= t}]
     /\ sendQueue' = Remaining(sendQueue, RolledBack(sendQueue, a, t))
     /\ timeline'  = [timeline EXCEPT ![a] = {m \in @ : ~IsRolledBack(m, a, t)}]
     /\ main'      = [main EXCEPT !.at = "recall"]
     /\ UNCHANGED <<agent, current, ready, aborted, cancel, lastId, sendList,
                    awaitedId, response, send, clpVars, given, twins, slipped, revived>>

\* What has been sent is taken from the send list and cancelled.  A request
\* that the send thread has in hand is neither in the queue nor on the list.
MainRecall ==
  LET a       == main.msg.agent
      t       == main.msg.time
      recalled == Remaining(sendList, ToSet(sendList) \ RolledBack(sendList, a, t))
  IN /\ main.at = "recall"
     /\ sendList'  = Remaining(sendList, RolledBack(sendList, a, t))
     /\ sendQueue' = sendQueue \o [i \in DOMAIN recalled |-> Anti(recalled[i])]
     /\ main'      = [main EXCEPT !.at = "restart"]
     /\ slipped'   = IF send.at = "list" /\ IsRolledBack(send.msg, a, t)
                     THEN slipped \union {send.msg} ELSE slipped
     /\ UNCHANGED <<agentVars, awaitedId, response, send, clpVars, given, twins, timeline, revived>>

\* The maps are reset, and ThreadWrapper::Restart starts Body again.
MainRestart ==
  LET a == main.msg.agent
  IN /\ main.at = "restart"
     /\ agent'     = [agent EXCEPT ![a] = "cycle"]
     /\ aborted'   = [aborted EXCEPT ![a] = FALSE]
     /\ cancel'    = [cancel EXCEPT ![a] = FALSE]
     /\ response'  = [response EXCEPT ![a] = None]
     /\ awaitedId' = [awaitedId EXCEPT ![a] = NoId]
     /\ main'      = Nothing
     /\ revived'   = revived \union ({m.agent : m \in InHand} \cap {a})
     /\ UNCHANGED <<current, history, ready, lastId, sendQueue, sendList, send, clpVars,
                    given, twins, timeline, slipped>>

-----------------------------------------------------------------------------
(* The CLP.                                                                *)

\* A read has become wrong from time t on.
ClpRollback(m, t) ==
  /\ rollbacks < MaxRollbacks
  /\ m.type = "read" /\ t <= m.time
  /\ fromClp'   = Append(fromClp, Rollback(m.agent, t))
  /\ rollbacks' = rollbacks + 1
  /\ UNCHANGED <<agentVars, alpVars, atClp, histVars>>

-----------------------------------------------------------------------------
AgentStep(a) ==
  \/ AgentNumber(a)
  \/ \E type \in {"read", "write"} : AgentAsk(a, type)
  \/ AgentTake(a) \/ AgentStop(a) \/ AgentFinish(a) \/ AgentReturn(a)

SendStep == SendDequeue \/ SendList \/ \E ok \in BOOLEAN : SendNote(ok)

MainStep == MainResponse \/ MainAbort \/ MainJoin \/ MainRecall \/ MainRestart

Next ==
  \/ \E a \in Agents : AgentStep(a)
  \/ SendStep
  \/ MainStep
  \/ \E m \in atClp, t \in 0 .. Max(Range(EndTime)) : ClpRollback(m, t)

(***************************************************************************)
(* Every thread runs, and an agent's Cycle comes to its next request.      *)
(* Rollbacks need not happen.                                              *)
(***************************************************************************)
Spec ==
  /\ Init
  /\ [][Next]_vars
  /\ \A a \in Agents : WF_vars(AgentStep(a))
  /\ WF_vars(SendStep) /\ WF_vars(MainStep)

-----------------------------------------------------------------------------
(* Properties.                                                             *)

IsMessage(m) ==
  \/ /\ IsRequest(m)
     /\ m.agent \in Agents /\ m.id \in 1 .. lastId /\ m.time \in 0 .. EndTime[m.agent]
  \/ m.type = "anti" /\ IsRequest(m.of)

\* Every variable holds a value of its type; a thread that computes or waits is
\* short of the end time, and none has ended but for a rollback.
TypeOK ==
  /\ agent \in [Agents -> {"cycle", "numbering", "waiting", "final", "stopped"}]
  /\ \A a \in Agents :
       /\ history[a] \subseteq 0 .. EndTime[a] /\ 0 \in history[a]
       /\ awaitedId[a] \in 0 .. lastId
       /\ agent[a] = "waiting" => current[a].id \in 1 .. lastId
       /\ response[a] = None \/ response[a].type = "response"
       /\ agent[a] = "stopped" => main # Nothing
       /\ agent[a] \in {"numbering", "waiting"} => Lvt(a) < EndTime[a]
  /\ {ready, aborted, cancel} \subseteq [Agents -> BOOLEAN]
  /\ \A m \in ToSet(sendQueue) : IsMessage(m)
  /\ \A m \in ToSet(sendList) \union atClp \union slipped : IsMessage(m) /\ IsRequest(m)
  /\ \/ send = Nothing
     \/ send.at \in {"list", "note"} /\ IsRequest(send.msg)
  /\ \/ main = Nothing
     \/ main.at \in {"join", "recall", "restart"} /\ main.msg.type = "rollback"

\* What is or will be in force at the CLP: the requests on their way or
\* executed, whose anti-message is not on its way.
InForce ==
  LET coming == ToSet(sendQueue) \union InHand
  IN ({m \in coming : IsRequest(m)} \union atClp)
       \ {m.of : m \in {x \in coming : x.type = "anti"}}

\* GetNextID returns fLastID after its lock: two agents numbering at once may
\* both get the later identifier.
HasTwin(m) == m.id \in twins

\* A rollback leaves nothing behind of what it takes back: wherever the
\* agent's requests were at the time, in the queue, at the send thread, on
\* their way or executed, and however long its thread went on after Abort, they
\* leave the queue or get an anti-message.  One alone may slip through: the one
\* the send thread holds between DequeueMessage and AddToSendList when
\* RollbackSendList runs (Alp::Send and Alp::ProcessRollback share no lock);
\* and one that shares its identifier is only safe while it is on the list.
OnlyTheOneInHandSlips ==
  \A m \in InForce :
    \/ m \in timeline[m.agent]
    \/ m \in slipped \/ HasTwin(m)
    \/ main.at = "recall" /\ main.msg.agent = m.agent

\* What takes effect at the CLP can be taken back later: it is on the send list
\* when it leaves, and stays there until it is recalled; RemoveFromSendList, on a
\* refused write, does not take another's request, but for one with the same
\* identifier.
WhatTakesEffectIsListed ==
  \A m \in InForce \ (ToSet(sendQueue) \union InHand) :
    \/ m \in ToSet(sendList)
    \/ HasTwin(m)

\* An agent that has been woken takes the response to the request it made, not
\* to one made before it was rolled back: unless the send thread had one in hand
\* then, and notes it as awaited after the rollback has forgotten it.
ResponseIsOwn ==
  \A a \in Agents :
    agent[a] = "waiting" /\ ready[a] =>
      \/ response[a] # None /\ response[a].to = current[a]
      \/ a \in revived

\* No agent polls for ever: its response comes, or its thread is stopped.
EveryWaitEnds == \A a \in Agents : agent[a] = "waiting" ~> agent[a] # "waiting"

\* A rollback never waits for a thread that does not stop: an agent that computes
\* comes to a request and there to a SyncPoint, one past the end time sees the
\* cancel flag.
RollbacksEnd == main.at = "join" ~> main = Nothing
=============================================================================
