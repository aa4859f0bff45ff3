------------------------------ MODULE TimeWarp ------------------------------
(***************************************************************************)
(* The optimistic protocol of PDES-MAS around one shared state variable:   *)
(* agents, the ALPs that run them, and the CLP that hosts the variable.    *)
(*                                                                         *)
(* An agent reads and writes the variable at timestamps of its own local   *)
(* virtual time (LVT) without waiting for the others, one request at a     *)
(* time.  The CLP answers from the list of write periods (WritePeriods)    *)
(* and, when a write or an undone write turns out to be in the past of     *)
(* some reads, sends rollbacks to the readers.  The ALP of a reader then   *)
(* stops the agent, takes its LVT back, cancels the requests not yet sent, *)
(* sends an anti-message for each request that was sent, and restarts it.  *)
(* An undone write may cause further rollbacks, under the same tag.        *)
(*                                                                         *)
(* GVT is taken from outside: any lower bound of the LVTs and of the       *)
(* timestamps in transit, which is what the GVT calculators must deliver   *)
(* (module GvtRing looks at how they do).                                  *)
(* The variable stays where it is: the CLP's load is taken to remain under *)
(* the threshold at which SetGvt migrates variables to another CLP.        *)
(*                                                                         *)
(* Steps are those of the code's threads: an agent's thread (Issue,        *)
(* TimeWrap, Consume), an ALP's send thread (AlpSend) and main thread      *)
(* (AlpResponse, AlpRollback, AlpSetGvt), the CLP's main thread (Clp...).  *)
(* A CLP's send queue and the channel after it are one FIFO queue here, as *)
(* are a channel and the receive queue at its end.                         *)
(***************************************************************************)
EXTENDS WritePeriods, Lists

CONSTANTS
  Agents,        \* the agents' LpIds
  EndTime,       \* fEndTime: an agent at or past it issues nothing more
  WrapSteps,     \* the arguments agents give time_wrap
  WriteDelays,   \* how far after its LVT an agent writes
  MaxMessages    \* bound: requests one agent issues, re-executions included

Ranks == {a.rank : a \in Agents}

\* How far an agent that is before EndTime can get in one step.
MaxTime == EndTime - 1 + Max({2} \union WrapSteps)

\* An agent's n-th request (the code's message identifiers are unique too).
Ids  == [agent : Agents, n : 1 .. MaxMessages]
NoId == [agent |-> [id |-> 0, rank |-> 0], n |-> 0]

\* The value Clp::InitialiseState writes, and the agent LpId(0, 0) it names.
InitialValue == NoId
InitialAgent == [id |-> 0, rank |-> 0]

ASSUME TimeWarpAssumption ==
  /\ Agents \subseteq LpId /\ IsFiniteSet(Agents) /\ Agents # {}
  /\ \A a \in Agents : a.rank > 0            \* rank 0 is a CLP
  /\ \A a, b \in Agents : a # b => a.id # b.id
  /\ EndTime \in Nat \ {0}
  /\ WriteDelays \subseteq {0, 1}
  /\ WrapSteps \subseteq Nat \ {0} /\ IsFiniteSet(WrapSteps)
  /\ Infinity > MaxTime
  /\ MaxMessages \in Nat
  \* std::map needs "same key" to be transitive.
  /\ \A a, b, c \in Agents : IsSameKey(a, b) /\ IsSameKey(b, c) => IsSameKey(a, c)

VARIABLES
  periods,     \* the variable's write period list, at the CLP
  clpGvt,      \* fGVT of the CLP
  toClp,       \* per ALP rank, messages on their way to the CLP
  toAlp,       \* per ALP rank, messages on their way from the CLP
  sendQueue,   \* per ALP rank, fSendMessageQueue
  sendList,    \* per ALP rank, fSendList: requests sent and not yet committed
  tagList,     \* per ALP rank, fRollbackTagList
  alpGvt,      \* per ALP rank, fGVT
  history,     \* per agent, agent_lvt_history_map_; its maximum is the LVT
  waitingFor,  \* per agent, the request its thread is blocked on
  awaitedId,   \* per agent, agent_response_message_id_map_
  response,    \* per agent, agent_response_map_ while message_ready_ holds
  issued,      \* per agent, the number of identifiers used up
  gvt,         \* the last GVT computed
  learnt,      \* history variable: the reads each agent has acted upon
  lost,        \* history variable: rollbacks that reached nobody
  undone,      \* history variable: writes whose anti-message was processed
  committed,   \* history variable: the highest GVT the CLP has set
  fallen,      \* history variable: agents that a rollback to a time not before GVT took to
               \* where they may ask for one before it
  stolen       \* history variable: writes undone by another agent's anti-message

clpVars   == <<periods, clpGvt>>
netVars   == <<toClp, toAlp>>
alpVars   == <<sendQueue, sendList, tagList, alpGvt>>
agentVars == <<history, waitingFor, awaitedId, response, issued>>
histVars  == <<learnt, lost, undone, committed, fallen, stolen>>
vars      == <<clpVars, netVars, alpVars, agentVars, gvt, histVars>>

-----------------------------------------------------------------------------
(* Messages.  An anti-message does not carry the identifier of the request *)
(* it cancels; the model keeps it to say which one that was.               *)

Tag(m) == [time |-> m.time, by |-> m.id]      \* RollbackTag of a write

None == [type |-> "none", id |-> NoId, time |-> 0]

Request(type, id, time) == [type |-> type, id |-> id, time |-> time]

Anti(m, tag) ==
  [type |-> IF m.type = "read" THEN "readAnti" ELSE "writeAnti",
   id |-> m.id, time |-> m.time, tag |-> tag]

ReadResponse(m, value) ==
  [type |-> "readResponse", id |-> m.id, time |-> m.time, value |-> value]

WriteResponse(m, ok) ==
  [type |-> "writeResponse", id |-> m.id, time |-> m.time, ok |-> ok]

Rollback(agent, time, tag) ==
  [type |-> "rollback", agent |-> agent, time |-> time, tag |-> tag]

IsResponse(m) == m.type \in {"readResponse", "writeResponse"}

\* Messages of type `type` at the head of the queue of rank r.
IsNext(queues, r, type) == queues[r] # <<>> /\ Head(queues[r]).type = type

Lvt(a) == Max(history[a])

\* The least time an agent at lvt may ask for.
EarliestRequest(lvt) == lvt + Min({1} \union WriteDelays)

\* RollbackList::SendRollbacks: what each ALP's queue gains.
SendRollbacks(queues, rollbacks, tag) ==
  [r \in Ranks |->
     queues[r] \o SetToSeq({Rollback(a, rollbacks[a], tag) :
                              a \in {b \in DOMAIN rollbacks : b.rank = r}})]

\* Requests of an agent that has no entry in the rollback list.
Forgotten(requests, rollbacks) == {q \in requests : q.agent \notin DOMAIN rollbacks}

-----------------------------------------------------------------------------
Init ==
  /\ periods    = <<Period(InitialValue, 0, InitialAgent)>>
  /\ clpGvt     = 0
  /\ toClp      = [r \in Ranks |-> <<>>]
  /\ toAlp      = [r \in Ranks |-> <<>>]
  /\ sendQueue  = [r \in Ranks |-> <<>>]
  /\ sendList   = [r \in Ranks |-> <<>>]
  /\ tagList    = [r \in Ranks |-> {}]
  /\ alpGvt     = [r \in Ranks |-> 0]
  /\ history    = [a \in Agents |-> {0}]
  /\ waitingFor = [a \in Agents |-> None]
  /\ awaitedId  = [a \in Agents |-> NoId]
  /\ response   = [a \in Agents |-> None]
  /\ issued     = [a \in Agents |-> 0]
  /\ gvt        = 0
  /\ learnt     = [a \in Agents |-> {}]
  /\ lost       = {}
  /\ undone     = {}
  /\ committed  = 0
  /\ fallen     = {}
  /\ stolen     = {}

-----------------------------------------------------------------------------
(* The agent's thread.                                                     *)

\* Variant of IsFree without the end time.
IsFreeAtAnyTime(a) == waitingFor[a] = None

\* Agent::Body calls Cycle while GetLVT() < GetEndTime().
IsFree(a) == waitingFor[a] = None /\ Lvt(a) < EndTime

\* Agent::ReadInt, WriteInt and their like, up to the wait.  The agents of
\* src/testing read at GetLVT() + 1 and write at GetLVT() + 1 or, right after
\* a read (NaiveAgent::SendMail), at GetLVT().
Issue(a, type, delay) ==
  LET m == Request(type, [agent |-> a, n |-> issued[a] + 1], Lvt(a) + delay)
  IN /\ IsFree(a)
     /\ issued[a] < MaxMessages
     /\ issued'     = [issued EXCEPT ![a] = @ + 1]
     /\ waitingFor' = [waitingFor EXCEPT ![a] = m]
     /\ sendQueue'  = [sendQueue EXCEPT ![a.rank] = Append(@, m)]
     /\ UNCHANGED <<clpVars, netVars, sendList, tagList, alpGvt, history,
                    awaitedId, response, gvt, histVars>>

\* Agent::time_wrap.
TimeWrap(a, step) ==
  /\ IsFree(a)
  /\ history' = [history EXCEPT ![a] = @ \union {Lvt(a) + step}]
  /\ UNCHANGED <<clpVars, netVars, alpVars, waitingFor, awaitedId, response,
                 issued, gvt, histVars>>

\* The end of WaitUntilMessageArrive and of ReadInt, WriteInt...: SetLVT.
Consume(a) ==
  LET m == response[a]
  IN /\ waitingFor[a] # None
     /\ m # None
     /\ history'    = [history EXCEPT ![a] = @ \union {waitingFor[a].time + 1}]
     /\ waitingFor' = [waitingFor EXCEPT ![a] = None]
     /\ response'   = [response EXCEPT ![a] = None]
     /\ learnt'     = IF m.type = "readResponse"
                      THEN [learnt EXCEPT ![a] = @ \union {[time |-> m.time, value |-> m.value]}]
                      ELSE learnt
     /\ UNCHANGED <<clpVars, netVars, alpVars, awaitedId, issued, gvt, lost, undone, committed, fallen, stolen>>

-----------------------------------------------------------------------------
(* The ALP's send thread: Alp::Send.                                       *)

AlpSend(r) ==
  /\ sendQueue[r] # <<>>
  /\ LET m == Head(sendQueue[r])
     IN /\ sendQueue' = [sendQueue EXCEPT ![r] = Tail(@)]
        /\ toClp'     = [toClp EXCEPT ![r] = Append(@, m)]
        /\ IF m.type \in {"read", "write"}
           THEN /\ sendList'  = [sendList EXCEPT ![r] = Append(@, m)]
                /\ awaitedId' = [awaitedId EXCEPT ![m.id.agent] = m.id]
           ELSE UNCHANGED <<sendList, awaitedId>>
  /\ UNCHANGED <<clpVars, toAlp, tagList, alpGvt, history, waitingFor, response,
                 issued, gvt, histVars>>

-----------------------------------------------------------------------------
(* The CLP's main thread: Clp::Receive and its handlers.                   *)

Take(r) == toClp' = [toClp EXCEPT ![r] = Tail(@)]

\* Clp::ProcessMessage(SingleReadMessage).
ClpRead(r) ==
  /\ IsNext(toClp, r, "read")
  /\ Take(r)
  /\ LET m == Head(toClp[r])
     IN IF m.time < clpGvt
        THEN UNCHANGED <<periods, toAlp>>
        ELSE /\ Covering(periods, m.time) # 0      \* otherwise the CLP exits
             /\ periods' = NoteRead(periods, m.id.agent, m.time)
             /\ toAlp'   = [toAlp EXCEPT ![m.id.agent.rank] =
                              Append(@, ReadResponse(m, ReadValue(periods, m.time)))]
  /\ UNCHANGED <<clpGvt, alpVars, agentVars, gvt, histVars>>

\* Clp::ProcessMessage(SingleReadAntiMessage).
ClpReadAnti(r) ==
  /\ IsNext(toClp, r, "readAnti")
  /\ Take(r)
  /\ LET m == Head(toClp[r])
     IN IF m.time < clpGvt
        THEN UNCHANGED periods
        ELSE /\ Covering(periods, m.time) # 0      \* otherwise undefined
             /\ periods' = PerformReadRollback(periods, m.id.agent, m.time)
  /\ UNCHANGED <<clpGvt, toAlp, alpVars, agentVars, gvt, histVars>>

\* Clp::ProcessMessage(WriteMessage), refused or accepted.
ClpWrite(r) ==
  /\ IsNext(toClp, r, "write")
  /\ Take(r)
  /\ LET m        == Head(toClp[r])
         agent    == m.id.agent
         refused  == IsRefused(periods, agent, m.time)
         requests == ReadsToRollBack(periods, m.time)
         answered == [toAlp EXCEPT ![agent.rank] = Append(@, WriteResponse(m, ~refused))]
     IN \/ /\ refused
           /\ toAlp' = answered
           /\ UNCHANGED <<periods, lost>>
        \/ /\ ~refused
           /\ periods' = WriteWithRollback(periods, agent, m.id, m.time)
           /\ \E rollbacks \in AddLp(requests) :
                /\ toAlp' = SendRollbacks(answered, rollbacks, Tag(m))
                /\ lost'  = lost \union Forgotten(requests, rollbacks)
  /\ UNCHANGED <<clpGvt, alpVars, agentVars, gvt, learnt, undone, committed, fallen, stolen>>

\* Clp::ProcessMessage(WriteAntiMessage).
ClpWriteAnti(r) ==
  /\ IsNext(toClp, r, "writeAnti")
  /\ Take(r)
  /\ LET m == Head(toClp[r])
     IN /\ undone' = undone \union {m.id}
        /\ IF m.time < clpGvt \/ ~CanUndo(periods, m.id.agent, m.time)
           THEN UNCHANGED <<periods, toAlp, lost, stolen>>
           ELSE LET requests == ReadsOfUndone(periods, m.time)
                    gone     == periods[StartingAt(periods, m.time)]
                IN /\ periods' = PerformWriteRollback(periods, m.time)
                   /\ stolen'  = IF gone.agent = m.id.agent THEN stolen
                                 ELSE stolen \union {gone.value}
                   /\ \E rollbacks \in AddLp(requests) :
                        /\ toAlp' = SendRollbacks(toAlp, rollbacks, m.tag)
                        /\ lost'  = lost \union Forgotten(requests, rollbacks)
  /\ UNCHANGED <<clpGvt, alpVars, agentVars, gvt, learnt, committed, fallen>>

\* Clp::SetGvt.
ClpSetGvt ==
  /\ clpGvt # gvt
  /\ clpGvt'  = gvt
  /\ periods' = RemoveWritePeriods(periods, gvt)
  /\ committed' = Max({committed, gvt})
  /\ UNCHANGED <<netVars, alpVars, agentVars, gvt, learnt, lost, undone, fallen, stolen>>

-----------------------------------------------------------------------------
(* The ALP's main thread: Alp::Receive and its handlers.                   *)

\* Variant of RemoveFromSendList that keeps the refused write.
RefusedWriteKept(list, m) == list

\* HasSendList::RemoveFromSendList.
RemoveFromSendList(list, m) == Remaining(list, {s \in ToSet(list) : s.id = m.id})

\* Variant of IsAwaited that leaves a refusal to the next retry.
IsAwaitedAndNotRefused(m) ==
  awaitedId[m.id.agent] = m.id /\ (m.type = "writeResponse" => m.ok)

\* Alp::ProcessMessage of a response: whether it answers the request sent last.
IsAwaited(m) == awaitedId[m.id.agent] = m.id

\* Alp::ProcessMessage of a response: a refused write leaves the send list,
\* and the response is handed over if the agent is waiting for this very one.
AlpResponse(r) ==
  /\ toAlp[r] # <<>>
  /\ LET m == Head(toAlp[r])
     IN /\ IsResponse(m)
        /\ toAlp' = [toAlp EXCEPT ![r] = Tail(@)]
        /\ sendList' = IF m.type = "writeResponse" /\ ~m.ok
                       THEN [sendList EXCEPT ![r] = RemoveFromSendList(@, m)]
                       ELSE sendList
        /\ response' = IF IsAwaited(m)
                       THEN [response EXCEPT ![m.id.agent] = m]
                       ELSE response
  /\ UNCHANGED <<clpVars, toClp, sendQueue, tagList, alpGvt, history, waitingFor,
                 awaitedId, issued, gvt, histVars>>

\* MessageQueue::RemoveMessages and HasSendList::RollbackSendList: a read is
\* rolled back from its own time on, a write only from the time after.
IsRolledBack(m, agent, time) ==
  /\ m.id.agent = agent
  /\ \/ m.type = "read"  /\ m.time >= time
     \/ m.type = "write" /\ m.time > time

\* The two early returns of Alp::ProcessRollback.
AlpIgnoreRollback(r) ==
  /\ IsNext(toAlp, r, "rollback")
  /\ LET m     == Head(toAlp[r])
         again == m.tag \in tagList[r]
         late  == waitingFor[m.agent] # None /\ waitingFor[m.agent].time >= m.time
     IN /\ again \/ m.time > Lvt(m.agent)
        /\ toAlp'   = [toAlp EXCEPT ![r] = Tail(@)]
        /\ tagList' = [tagList EXCEPT ![r] = @ \union {m.tag}]
        /\ lost'    = IF again \/ late
                      THEN lost \union {[agent |-> m.agent, time |-> m.time]}
                      ELSE lost
  /\ UNCHANGED <<clpVars, toClp, sendQueue, sendList, alpGvt, agentVars, gvt,
                 learnt, undone, committed, fallen, stolen>>

\* The rest of Alp::ProcessRollback: the agent's thread is stopped and joined,
\* its state taken back, its requests cancelled, and the thread started anew.
AlpRollback(r) ==
  /\ IsNext(toAlp, r, "rollback")
  /\ LET m       == Head(toAlp[r])
         a       == m.agent
         Gone(l) == {s \in ToSet(l) : IsRolledBack(s, a, m.time)}
         kept    == {s \in ToSet(sendList[r]) :
                       ~IsRolledBack(s, a, m.time) \/ s.time < alpGvt[r]}
         sent    == Remaining(sendList[r], kept)
         past    == {h \in history[a] : h <= m.time}
     IN /\ m.tag \notin tagList[r]
        /\ m.time <= Lvt(a)
        /\ toAlp'      = [toAlp EXCEPT ![r] = Tail(@)]
        /\ tagList'    = [tagList EXCEPT ![r] = @ \union {m.tag}]
        /\ history'    = [history EXCEPT ![a] = past]
        /\ sendQueue'  = [sendQueue EXCEPT ![r] =
                            Remaining(sendQueue[r], Gone(sendQueue[r])) \o
                            [i \in 1 .. Len(sent) |-> Anti(sent[i], m.tag)]]
        /\ sendList'   = [sendList EXCEPT ![r] = Remaining(sendList[r], Gone(sendList[r]))]
        /\ waitingFor' = [waitingFor EXCEPT ![a] = None]
        /\ response'   = [response EXCEPT ![a] = None]
        /\ awaitedId'  = [awaitedId EXCEPT ![a] = NoId]
        /\ learnt'     = [learnt EXCEPT ![a] = {l \in @ : l.time < m.time}]
        /\ fallen'     = IF \E g \in {gvt, committed} :
                              EarliestRequest(Max(past)) < g /\ g <= m.time
                         THEN fallen \union {a} ELSE fallen
  /\ UNCHANGED <<clpVars, toClp, alpGvt, issued, gvt, lost, undone, committed, stolen>>

\* Alp::SetGvt.
AlpSetGvt(r) ==
  /\ alpGvt[r] # gvt
  /\ alpGvt'   = [alpGvt EXCEPT ![r] = gvt]
  /\ sendList' = [sendList EXCEPT ![r] =
                     Remaining(sendList[r], {s \in ToSet(sendList[r]) : s.time < gvt})]
  /\ tagList'  = [tagList EXCEPT ![r] = {t \in @ : t.time >= gvt}]
  /\ UNCHANGED <<clpVars, netVars, sendQueue, agentVars, gvt, histVars>>

-----------------------------------------------------------------------------
(* GVT, from outside.                                                      *)

InTransit ==
  UNION {ToSet(toClp[r]) \union ToSet(toAlp[r]) \union ToSet(sendQueue[r]) : r \in Ranks}

\* Variant of LowerBound that forgets the messages in transit.
LowerBoundOfLvts == Min({Lvt(a) : a \in Agents})

\* What the two cuts gather: the least LVT and the least time in transit.
LowerBound == Min({Lvt(a) : a \in Agents} \union {m.time : m \in InTransit})

ComputeGvt ==
  /\ \/ gvt < LowerBound /\ gvt' \in (gvt + 1) .. LowerBound
     \/ gvt > LowerBound /\ gvt' = LowerBound
  /\ UNCHANGED <<clpVars, netVars, alpVars, agentVars, histVars>>

-----------------------------------------------------------------------------
Agent(a) ==
  \/ Issue(a, "read", 1)
  \/ \E delay \in WriteDelays : Issue(a, "write", delay)
  \/ \E step \in WrapSteps : TimeWrap(a, step)
  \/ Consume(a)

AlpMain(r) == AlpResponse(r) \/ AlpIgnoreRollback(r) \/ AlpRollback(r) \/ AlpSetGvt(r)

ClpMain(r) == ClpRead(r) \/ ClpReadAnti(r) \/ ClpWrite(r) \/ ClpWriteAnti(r)

Next ==
  \/ \E a \in Agents : Agent(a)
  \/ \E r \in Ranks : AlpSend(r) \/ AlpMain(r) \/ ClpMain(r)
  \/ ClpSetGvt
  \/ ComputeGvt

Spec == Init /\ [][Next]_vars

(***************************************************************************)
(* A step that some thread takes without being asked to: an agent whose    *)
(* response is there wakes up, a send thread sends, a main thread takes    *)
(* the next message, an LP applies the GVT it was told.                    *)
(***************************************************************************)
ThreadStep ==
  \/ \E a \in Agents : Consume(a)
  \/ \E r \in Ranks : AlpSend(r) \/ AlpMain(r) \/ ClpMain(r)
  \/ ClpSetGvt

-----------------------------------------------------------------------------
(* Properties.                                                             *)

Requests == [type : {"read", "write"}, id : Ids, time : 0 .. MaxTime]

\* Every variable holds a value of its type.
TypeOK ==
  /\ IsWritePeriodList(periods, Ids \union {InitialValue})
  /\ clpGvt \in 0 .. MaxTime /\ gvt \in 0 .. MaxTime
  /\ \A r \in Ranks :
       /\ \A m \in ToSet(toClp[r]) \union ToSet(sendQueue[r]) :
            m.type \in {"read", "write", "readAnti", "writeAnti"}
       /\ \A m \in ToSet(toAlp[r]) : m.type \in {"readResponse", "writeResponse", "rollback"}
       /\ ToSet(sendList[r]) \subseteq Requests
       /\ alpGvt[r] \in 0 .. MaxTime
  /\ \A a \in Agents :
       /\ history[a] \subseteq 0 .. MaxTime /\ 0 \in history[a]
       /\ waitingFor[a] \in Requests \union {None}
       /\ awaitedId[a] \in Ids \union {NoId}
       /\ issued[a] \in 0 .. MaxMessages

\* However writes, undone writes and GVT updates interleave, the write periods
\* follow one another without gap or overlap and the last never ends: every
\* time from the first period on has exactly one period in force
\* (WriteWithRollback, PerformWriteRollback, RemoveWritePeriods).
PeriodsPartitionTime == IsPartition(periods)

\* A read is noted in the period that is in force at the time of the read,
\* also after that period was cut by a write in the past, extended by an
\* undone write, or truncated at GVT.
ReadsStayInTheirPeriod == ReadsAreInside(periods)

\* If the CLP migrated the variable now (Clp::MigrateStateVariables), the other
\* CLP would have every write with its start, end and writer, also those at one
\* and the same time, and also those that GVT made to start later; only the
\* reads would be gone, and nothing would be left behind.
MigrationKeepsWrites ==
  /\ Insert(periods) = [i \in DOMAIN periods |-> [periods[i] EXCEPT !.reads = {}]]
  /\ RemoveWritePeriodList(periods).list = <<>>

\* And as the reads would be on record nowhere, the reader would be rolled back
\* to before the read, unless it read at the very time of the write, or shares
\* its key in the rollback list with another.  (A rollback to the start of the
\* period would do for every reader; the code adds one to it.)
MigrationTellsReaders ==
  \A entries \in AddLp(RemoveWritePeriodList(periods).requests) :
    \A i \in DOMAIN periods : \A r \in periods[i].reads :
      r.time > periods[i].start =>
        \E a \in DOMAIN entries :
          IsSameKey(a, r.agent) /\ TimeAfterMigration(entries[a]) <= r.time

\* The reads an agent has acted upon or is about to: the answers accepted, and
\* those on the way to an agent that will accept them.
Answers(a) ==
  learnt[a] \union
  {[time |-> m.time, value |-> m.value] :
     m \in {x \in {response[a]} \union ToSet(toAlp[a.rank]) :
              /\ x.type = "readResponse"
              /\ x.id = waitingFor[a].id
              /\ x.id = awaitedId[a]}}

IsOnRecord(a, read) ==
  LET i == Covering(periods, read.time)
  IN /\ i # 0
     /\ periods[i].value = read.value
     /\ [agent |-> a, time |-> read.time] \in periods[i].reads

WillBeRolledBack(a, time) ==
  \E m \in ToSet(toAlp[a.rank]) : m.type = "rollback" /\ m.agent = a /\ m.time <= time

\* What optimism rests on: an agent that acted on a value which is no longer
\* the one in force at the time it read, or whose read is not on record and so
\* could not be found by a later write, has a rollback to that time or before
\* on its way, unless GVT has passed the read.
\* This is what the comment of Alp::ProcessRollback says of an agent that is
\* waiting ("and discard incoming invalidated message (if any)").
EveryStaleReadIsRolledBack ==
  \A a \in Agents : \A read \in Answers(a) :
     \/ read.time < committed
     \/ IsOnRecord(a, read)
     \/ WillBeRolledBack(a, read.time)

\* The same but for the rollbacks that were sent and reached nobody: those
\* RollbackList merged under one key, those dropped for a tag seen before, and
\* those dropped because the agent had not yet taken the answer they revoke.
\* The list of periods itself loses none.  (One lost rollback excuses all that the
\* agent reads at that time or later, not only what it was to revoke.)
StaleReadsAreRolledBack ==
  \A a \in Agents : \A read \in Answers(a) :
     \/ read.time < committed
     \/ IsOnRecord(a, read)
     \/ WillBeRolledBack(a, read.time)
     \/ \E l \in lost : l.agent = a /\ l.time <= read.time

\* "If anti write message, rollback write" (Clp.cpp): a write whose anti-message
\* the CLP has processed is not in the list (StateVariable::PerformWriteRollback).
UndoneWritesLeave == \A i \in DOMAIN periods : periods[i].value \notin undone

\* The CLP finds a period for every read and read anti-message it will accept;
\* otherwise StateVariable::Read ends the process ("Could not find a write
\* period") and PerformReadRollback runs off the list.
ReadsAreServable ==
  \A r \in Ranks : \A m \in ToSet(toClp[r]) :
     m.type \in {"read", "readAnti"} /\ m.time >= clpGvt => Covering(periods, m.time) # 0

\* What is before the CLP's GVT is committed: no rollback and no anti-message
\* on its way, however late, concerns a time before it.  (Alp::ProcessRollback
\* logs "rollback before GVT" as an error, and the CLP drops such messages.)
\* The exception is a fault of the code: ProcessRollback takes an LVT to the last entry of
\* its history at or before the rollback.  Where there is a gap that is before GVT, and so
\* may be what the agent asks for next: after a jump, or, if it writes at its LVT, even without.
NothingCommittedIsUndone ==
  fallen = {} => \A r \in Ranks :
     /\ \A m \in ToSet(toAlp[r]) : m.type = "rollback" => m.time >= clpGvt
     /\ \A m \in ToSet(toClp[r]) : m.type \in {"readAnti", "writeAnti"} => m.time >= clpGvt

\* And no agent asks to read in the committed past, not after any number of rollbacks, as long as
\* none of them took an agent that far.  The CLP drops such a request and the agent would
\* wait for ever (Clp::ProcessMessage, Agent::SetLVT, HasIDLVTMap).
NoReadBelowGvt ==
  fallen = {} => \A r \in Ranks : \A m \in ToSet(toClp[r]) \union ToSet(sendQueue[r]) :
     m.type = "read" => m.time >= clpGvt

Quiet == \A r \in Ranks : toClp[r] = <<>> /\ toAlp[r] = <<>> /\ sendQueue[r] = <<>>

\* When no message is on its way, every uncommitted write that an ALP would
\* still undo (it is on the send list) is in the CLP's list: no write is lost,
\* refused without the ALP knowing, or undone behind the ALP's back.  The exception is
\* a fault of the code: LpId::operator!= does not tell agents of one ALP apart, so that one's
\* anti-message undoes the other's write of the same time.
WritesInSync ==
  Quiet => \A r \in Ranks : \A m \in ToSet(sendList[r]) :
             m.type = "write" /\ m.time >= committed /\ m.id \notin stolen
               => \E p \in ToSet(periods) : p.value = m.id

\* The CLP has met a read or anti-message it has no period for, and has ended.
ClpHasEnded ==
  \E r \in Ranks :
     /\ IsNext(toClp, r, "read") \/ IsNext(toClp, r, "readAnti")
     /\ Head(toClp[r]).time >= clpGvt
     /\ Covering(periods, Head(toClp[r]).time) = 0

\* No agent is left waiting: when all threads have done what they can, each agent
\* that asked has had its response, or was rolled back and started anew, unless
\* the CLP has ended, or dropped a read of the committed past.  (WaitUntilMessageArrive has
\* no timeout: a request or a response dropped on the way, or given to nobody, stops the
\* agent for ever.)
AgentsAreAnswered ==
  ~ENABLED ThreadStep =>
    \/ ClpHasEnded
    \/ \A a \in Agents : \/ waitingFor[a] = None
                         \/ waitingFor[a].type = "read" /\ waitingFor[a].time < committed
=============================================================================
