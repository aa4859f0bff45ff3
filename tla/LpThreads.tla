------------------------------ MODULE LpThreads ------------------------------
(***************************************************************************)
(* The threads of one logical process (LP), their two locks, two           *)
(* semaphores and queues.                                                  *)
(*                                                                         *)
(*   main     waits for a unit of recvSemaphore, takes the Lp lock, lets   *)
(*            Receive() dequeue and process one message, and releases it;  *)
(*   receive  probes MPI under the MPI mutex; when there is a message,     *)
(*            takes the MPI mutex and the Lp lock, queues it, releases     *)
(*            both and signals recvSemaphore;                              *)
(*   send     waits for a unit of sendSemaphore, takes the MPI mutex, lets *)
(*            Send() dequeue and transmit one message, and releases it;    *)
(*   agents   (of an ALP) queue messages and signal sendSemaphore.         *)
(*                                                                         *)
(* Three handlers do more with the locks than run: the second cut of the   *)
(* GVT computation receives further messages from inside Receive(); the    *)
(* last GVT value makes an LP wait at a barrier; and the GVT starter, once *)
(* GVT has reached the end time, lets the control queue drain and goes to  *)
(* the same barrier.  A rollback, at an ALP, takes messages out of the     *)
(* send queue but leaves the semaphore alone.                              *)
(*                                                                         *)
(* Messages are only counted.  Whether MPI has one, what it turns out to   *)
(* be and how many messages its handler sends are choices; so are the      *)
(* arrival of the other LPs at a barrier and the number of white messages  *)
(* the second cut still waits for.                                         *)
(***************************************************************************)
EXTENDS Naturals

CONSTANT MaxQueue    \* bound: messages in a queue, units in a semaphore

ASSUME MaxQueueAssumption == MaxQueue \in Nat

VARIABLES
  role,         \* the LP is the GVT starter (rank 0), another CLP or an ALP
  main,         \* where the main thread is
  receive,      \* where the receive thread is
  send,         \* where the send thread is
  draining,     \* main is inside the loop of ProcessSecondCutGvtControl
  lpLock,       \* the holder of Lp::fProcessMutex
  mpiLock,      \* the holder of MpiInterface::fMutex
  recvSem,      \* units of MpiInterface::recvSemaphore
  sendSem,      \* units of MpiInterface::sendSemaphore
  received,     \* messages in fReceive(LoadBalancing)MessageQueue
  requests,     \* requests of the ALP's agents in fSendMessageQueue
  others,       \* other messages in fSendMessageQueue
  control,      \* length of fSendControlMessageQueue
  balancing,    \* length of fSendLoadBalancingMessageQueue
  agentsOwe,    \* agents that have queued a message and not yet signalled
  over,         \* TerminationCondition: fGVT >= fEndTime
  running       \* fIsSimulationRunning of the send and the receive thread

locks  == <<lpLock, mpiLock>>
sems   == <<recvSem, sendSem>>
queues == <<received, requests, others, control, balancing>>
vars   == <<role, main, receive, send, draining, locks, sems, queues,
            agentsOwe, over, running>>

MainSteps ==
  {"start", "wait", "lock", "receive", "process", "signal", "drain", "yield",
   "yielded", "lockMpi", "barrier", "lastBarrier", "unlock", "finalise",
   "endSignal", "stop", "join", "done"}

ReceiveSteps == {"loop", "probe", "found", "lockLp", "recv", "unlockMpi", "signal", "done"}

SendSteps ==
  {"loop", "wait", "lock", "check", "checkControl", "checkMessages",
   "dequeueBalancing", "dequeueControl", "dequeue", "transmit", "done"}

Init ==
  /\ role \in {"starter", "clp", "alp"}
  /\ main = "start" /\ receive = "loop" /\ send = "loop"
  /\ draining = FALSE
  /\ lpLock = "free" /\ mpiLock = "free"
  /\ recvSem = 0 /\ sendSem = 0
  /\ received = 0 /\ requests = 0 /\ others = 0 /\ control = 0 /\ balancing = 0
  /\ agentsOwe = 0
  /\ over = FALSE
  /\ running = TRUE

-----------------------------------------------------------------------------
(* Lp::Run on the main thread.                                             *)

\* MPI_Barrier, then Initialise.
MainStart ==
  /\ main = "start"
  /\ main' = "wait"
  /\ UNCHANGED <<role, receive, send, draining, locks, sems, queues, agentsOwe, over, running>>

\* Variant of MainWait that leaves the unit in the semaphore.
MainWaitPeeks ==
  /\ main = "wait"
  /\ ~over
  /\ recvSem > 0
  /\ main' = "lock"
  /\ UNCHANGED <<role, receive, send, draining, locks, sems, queues, agentsOwe, over, running>>

\* ReceiveWait, of the loop of Run or of the second cut.
MainWait ==
  /\ main = "wait"
  /\ ~over
  /\ recvSem > 0
  /\ recvSem' = recvSem - 1
  /\ main' = "lock"
  /\ UNCHANGED <<role, receive, send, draining, locks, sendSem, queues, agentsOwe, over, running>>

MainLock ==
  /\ main = "lock"
  /\ lpLock = "free"
  /\ lpLock' = "main"
  /\ main' = "receive"
  /\ UNCHANGED <<role, receive, send, draining, mpiLock, sems, queues, agentsOwe, over, running>>

\* Receive(): dequeue, and enter the handler: of an ordinary message, of a
\* second cut, or of a GVT value at or above the end time.  Inside a second cut
\* there is no other, and no last value: GVT is computed one round at a time.
MainReceive ==
  /\ main = "receive"
  /\ received' = IF received > 0 THEN received - 1 ELSE 0
  /\ \/ main' = "process" /\ UNCHANGED draining
     \/ ~draining /\ draining' = TRUE /\ main' = "drain"
     \/ ~draining /\ role # "starter" /\ main' = "lastBarrier" /\ UNCHANGED draining
  /\ UNCHANGED <<role, receive, send, locks, sems, requests, others, control,
                 balancing, agentsOwe, over, running>>

MainUnlock ==
  /\ main = "unlock"
  /\ lpLock' = "free"
  /\ main' = "wait"
  /\ UNCHANGED <<role, receive, send, draining, mpiLock, sems, queues, agentsOwe, over, running>>

-----------------------------------------------------------------------------
(* The handlers.                                                           *)

\* Length of fSendMessageQueue, and of the three send queues.
Sending == requests + others
Queued  == Sending + control + balancing

HasRoom == Queued < MaxQueue /\ sendSem + agentsOwe < MaxQueue

\* SendToLp: QueueMessage...
MainQueue ==
  /\ main = "process"
  /\ HasRoom
  /\ \/ others' = others + 1 /\ UNCHANGED <<control, balancing>>
     \/ control' = control + 1 /\ UNCHANGED <<others, balancing>>
     \/ role # "alp" /\ balancing' = balancing + 1 /\ UNCHANGED <<others, control>>
  /\ main' = "signal"
  /\ UNCHANGED <<role, receive, send, draining, locks, sems, received, requests,
                 agentsOwe, over, running>>

\* Variant of MainSignal that signals nothing.
MainSignalForgotten ==
  /\ main = "signal"
  /\ main' = "process"
  /\ UNCHANGED <<role, receive, send, draining, locks, sems, queues, agentsOwe, over, running>>

\* ...then SignalSend.
MainSignal ==
  /\ main = "signal"
  /\ sendSem' = sendSem + 1
  /\ main' = "process"
  /\ UNCHANGED <<role, receive, send, draining, locks, recvSem, queues, agentsOwe, over, running>>

\* MessageQueue::RemoveMessages, called by Alp::ProcessRollback: requests of
\* the agent that is rolled back, its thread stopped, leave the queue.
MainRemove ==
  /\ main = "process"
  /\ role = "alp"
  /\ requests > 0
  /\ requests' \in 0 .. requests - 1
  /\ UNCHANGED <<role, main, receive, send, draining, locks, sems, received, others,
                 control, balancing, agentsOwe, over, running>>

\* The handler returns, to the loop of the second cut when it was called there.
MainProcessed ==
  /\ main = "process"
  /\ main' = IF draining THEN "drain" ELSE "unlock"
  /\ UNCHANGED <<role, receive, send, draining, locks, sems, queues, agentsOwe, over, running>>

\* ProcessSecondCutGvtControl: white messages are outstanding, Unlock...
MainDrain ==
  /\ main = "drain"
  /\ lpLock' = "free"
  /\ main' = "wait"
  /\ UNCHANGED <<role, receive, send, draining, mpiLock, sems, queues, agentsOwe, over, running>>

\* ...or none is, and the rest of the handler follows.
MainDrained ==
  /\ main = "drain"
  /\ draining' = FALSE
  /\ main' = "process"
  /\ UNCHANGED <<role, receive, send, locks, sems, queues, agentsOwe, over, running>>

\* GvtCalculator::ProcessMessage(GvtValueMessage): MPI_Barrier and SetGvt.
MainLastBarrier ==
  /\ main = "lastBarrier"
  /\ over' = TRUE
  /\ main' = "unlock"
  /\ UNCHANGED <<role, receive, send, draining, locks, sems, queues, agentsOwe, running>>

(***************************************************************************)
(* GvtCalculator::SendAndSetGvt with GVT at or above the end time: the     *)
(* value messages have been queued; while the control queue is not empty,  *)
(* Unlock, yield and Lock; then the MPI mutex is taken, with the Lp lock   *)
(* still held.                                                             *)
(***************************************************************************)
MainEnd ==
  /\ main = "process"
  /\ role = "starter"
  /\ ~draining
  /\ main' = "yield"
  /\ UNCHANGED <<role, receive, send, draining, locks, sems, queues, agentsOwe, over, running>>

MainYield ==
  /\ main = "yield"
  /\ IF control > 0
     THEN lpLock' = "free" /\ main' = "yielded"
     ELSE main' = "lockMpi" /\ UNCHANGED lpLock
  /\ UNCHANGED <<role, receive, send, draining, mpiLock, sems, queues, agentsOwe, over, running>>

\* Variant of MainRelock that does not take the lock again.
MainRelockNot ==
  /\ main = "yielded"
  /\ main' = "yield"
  /\ UNCHANGED <<role, receive, send, draining, locks, sems, queues, agentsOwe, over, running>>

\* The Lock() after yielding.
MainRelock ==
  /\ main = "yielded"
  /\ lpLock = "free"
  /\ lpLock' = "main"
  /\ main' = "yield"
  /\ UNCHANGED <<role, receive, send, draining, mpiLock, sems, queues, agentsOwe, over, running>>

MainLockMpi ==
  /\ main = "lockMpi"
  /\ mpiLock = "free"
  /\ mpiLock' = "main"
  /\ main' = "barrier"
  /\ UNCHANGED <<role, receive, send, draining, lpLock, sems, queues, agentsOwe, over, running>>

MainBarrier ==
  /\ main = "barrier"
  /\ mpiLock' = "free"
  /\ over' = TRUE
  /\ main' = "unlock"
  /\ UNCHANGED <<role, receive, send, draining, lpLock, sems, queues, agentsOwe, running>>

-----------------------------------------------------------------------------
(* Finalise, of a CLP or an ALP; the ALP first joins its agents and sends  *)
(* an EndMessage.                                                          *)

MainLeave ==
  /\ main = "wait"
  /\ over
  /\ main' = "finalise"
  /\ UNCHANGED <<role, receive, send, draining, locks, sems, queues, agentsOwe, over, running>>

MainFinalise ==
  /\ main = "finalise"
  /\ IF role = "alp"
     THEN agentsOwe = 0 /\ control' = control + 1 /\ main' = "endSignal"
     ELSE main' = "stop" /\ UNCHANGED control
  /\ UNCHANGED <<role, receive, send, draining, locks, sems, received, requests,
                 others, balancing, agentsOwe, over, running>>

MainEndSignal ==
  /\ main = "endSignal"
  /\ sendSem' = sendSem + 1
  /\ main' = "stop"
  /\ UNCHANGED <<role, receive, send, draining, locks, recvSem, queues, agentsOwe, over, running>>

\* Variant of MainStop that does not wake the send thread.
StopWithoutSignal ==
  /\ main = "stop"
  /\ running' = FALSE
  /\ main' = "join"
  /\ UNCHANGED <<role, receive, send, draining, locks, sems, queues, agentsOwe, over>>

\* MpiInterface::StopSimulation.
MainStop ==
  /\ main = "stop"
  /\ running' = FALSE
  /\ sendSem' = sendSem + 1
  /\ main' = "join"
  /\ UNCHANGED <<role, receive, send, draining, locks, recvSem, queues, agentsOwe, over>>

\* MpiInterface::Join.
MainJoin ==
  /\ main = "join"
  /\ receive = "done" /\ send = "done"
  /\ main' = "done"
  /\ UNCHANGED <<role, receive, send, draining, locks, sems, queues, agentsOwe, over, running>>

-----------------------------------------------------------------------------
(* ReceiveThread::MyThread.                                                *)

ReceiveLoop ==
  /\ receive = "loop"
  /\ IF running
     THEN mpiLock = "free" /\ mpiLock' = "receive" /\ receive' = "probe"
     ELSE receive' = "done" /\ UNCHANGED mpiLock
  /\ UNCHANGED <<role, main, send, draining, lpLock, sems, queues, agentsOwe, over, running>>

\* MPI_Iprobe, then UnlockMpi.
ReceiveProbe ==
  /\ receive = "probe"
  /\ mpiLock' = "free"
  /\ \/ receive' = "loop"
     \/ received < MaxQueue /\ receive' = "found"
  /\ UNCHANGED <<role, main, send, draining, lpLock, sems, queues, agentsOwe, over, running>>

ReceiveLockMpi ==
  /\ receive = "found"
  /\ mpiLock = "free"
  /\ mpiLock' = "receive"
  /\ receive' = "lockLp"
  /\ UNCHANGED <<role, main, send, draining, lpLock, sems, queues, agentsOwe, over, running>>

ReceiveLockLp ==
  /\ receive = "lockLp"
  /\ lpLock = "free"
  /\ lpLock' = "receive"
  /\ receive' = "recv"
  /\ UNCHANGED <<role, main, send, draining, mpiLock, sems, queues, agentsOwe, over, running>>

\* MPI_Recv, ReceiveToLp, Unlock...
ReceiveQueue ==
  /\ receive = "recv"
  /\ received' = received + 1
  /\ lpLock' = "free"
  /\ receive' = "unlockMpi"
  /\ UNCHANGED <<role, main, send, draining, mpiLock, sems, requests, others,
                 control, balancing, agentsOwe, over, running>>

\* ...UnlockMpi...
ReceiveUnlockMpi ==
  /\ receive = "unlockMpi"
  /\ mpiLock' = "free"
  /\ receive' = "signal"
  /\ UNCHANGED <<role, main, send, draining, lpLock, sems, queues, agentsOwe, over, running>>

\* ...and ReceiveSignal.
ReceiveSignal ==
  /\ receive = "signal"
  /\ recvSem' = recvSem + 1
  /\ receive' = "loop"
  /\ UNCHANGED <<role, main, send, draining, locks, sendSem, queues, agentsOwe, over, running>>

-----------------------------------------------------------------------------
(* SendThread::MyThread.                                                   *)

SendLoop ==
  /\ send = "loop"
  /\ send' = IF running THEN "wait" ELSE "done"
  /\ UNCHANGED <<role, main, receive, draining, locks, sems, queues, agentsOwe, over, running>>

\* SendWait, and the second look at fIsSimulationRunning.
SendWait ==
  /\ send = "wait"
  /\ sendSem > 0
  /\ sendSem' = sendSem - 1
  /\ send' = IF running THEN "lock" ELSE "loop"
  /\ UNCHANGED <<role, main, receive, draining, locks, recvSem, queues, agentsOwe, over, running>>

SendLock ==
  /\ send = "lock"
  /\ mpiLock = "free"
  /\ mpiLock' = "send"
  /\ send' = IF role = "alp" THEN "checkControl" ELSE "check"
  /\ UNCHANGED <<role, main, receive, draining, lpLock, sems, queues, agentsOwe, over, running>>

\* Clp::Send looks for a load-balancing message first.  IsEmpty and
\* DequeueMessage take the queue's own mutex one after the other, and the Lp
\* lock is not held.
SendCheck ==
  /\ send = "check"
  /\ send' = IF balancing > 0 THEN "dequeueBalancing" ELSE "checkControl"
  /\ UNCHANGED <<role, main, receive, draining, locks, sems, queues, agentsOwe, over, running>>

SendDequeueBalancing ==
  /\ send = "dequeueBalancing"
  /\ balancing' = balancing - 1
  /\ send' = "transmit"
  /\ UNCHANGED <<role, main, receive, draining, locks, sems, received, requests,
                 others, control, agentsOwe, over, running>>

\* Variant of SendCheckControl that does not ask whether there is a message.
SendCheckNothing ==
  /\ send = "checkControl"
  /\ send' = "dequeueControl"
  /\ UNCHANGED <<role, main, receive, draining, locks, sems, queues, agentsOwe, over, running>>

\* Clp::Send and Alp::Send, next.
SendCheckControl ==
  /\ send = "checkControl"
  /\ send' = IF control > 0 THEN "dequeueControl" ELSE "checkMessages"
  /\ UNCHANGED <<role, main, receive, draining, locks, sems, queues, agentsOwe, over, running>>

SendDequeueControl ==
  /\ send = "dequeueControl"
  /\ control' = control - 1
  /\ send' = "transmit"
  /\ UNCHANGED <<role, main, receive, draining, locks, sems, received, requests,
                 others, balancing, agentsOwe, over, running>>

\* With every queue empty Send returns, and the MPI mutex is released.
SendCheckMessages ==
  /\ send = "checkMessages"
  /\ IF Sending > 0
     THEN send' = "dequeue" /\ UNCHANGED mpiLock
     ELSE send' = "loop" /\ mpiLock' = "free"
  /\ UNCHANGED <<role, main, receive, draining, lpLock, sems, queues, agentsOwe, over, running>>

\* The message at the front is of either kind.  front() and pop_front() of an
\* empty deque are undefined; the model goes on.
SendDequeue ==
  /\ send = "dequeue"
  /\ \/ requests > 0 /\ requests' = requests - 1 /\ UNCHANGED others
     \/ others > 0 /\ others' = others - 1 /\ UNCHANGED requests
     \/ Sending = 0 /\ UNCHANGED <<requests, others>>
  /\ send' = "transmit"
  /\ UNCHANGED <<role, main, receive, draining, locks, sems, received, control,
                 balancing, agentsOwe, over, running>>

\* MPI_Isend and MPI_Test, then UnlockMpi.
SendTransmit ==
  /\ send = "transmit"
  /\ mpiLock' = "free"
  /\ send' = "loop"
  /\ UNCHANGED <<role, main, receive, draining, lpLock, sems, queues, agentsOwe, over, running>>

-----------------------------------------------------------------------------
(* Agents' threads: a request, or a GVT request, is queued and signalled.  *)

AgentQueue ==
  /\ role = "alp"
  /\ main \notin {"endSignal", "stop", "join", "done"}
  /\ HasRoom
  /\ \/ requests' = requests + 1 /\ UNCHANGED control
     \/ control' = control + 1 /\ UNCHANGED requests
  /\ agentsOwe' = agentsOwe + 1
  /\ UNCHANGED <<role, main, receive, send, draining, locks, sems, received, others,
                 balancing, over, running>>

AgentSignal ==
  /\ agentsOwe > 0
  /\ agentsOwe' = agentsOwe - 1
  /\ sendSem' = sendSem + 1
  /\ UNCHANGED <<role, main, receive, send, draining, locks, recvSem, queues, over, running>>

-----------------------------------------------------------------------------
MainNext ==
  \/ MainStart \/ MainWait \/ MainLock \/ MainReceive \/ MainUnlock
  \/ MainQueue \/ MainSignal \/ MainRemove \/ MainProcessed
  \/ MainDrain \/ MainDrained \/ MainLastBarrier
  \/ MainEnd \/ MainYield \/ MainRelock \/ MainLockMpi \/ MainBarrier
  \/ MainLeave \/ MainFinalise \/ MainEndSignal \/ MainStop \/ MainJoin

ReceiveNext ==
  \/ ReceiveLoop \/ ReceiveProbe \/ ReceiveLockMpi \/ ReceiveLockLp
  \/ ReceiveQueue \/ ReceiveUnlockMpi \/ ReceiveSignal

SendNext ==
  \/ SendLoop \/ SendWait \/ SendLock
  \/ SendCheck \/ SendDequeueBalancing \/ SendCheckControl \/ SendDequeueControl
  \/ SendCheckMessages \/ SendDequeue \/ SendTransmit

AgentNext == AgentQueue \/ AgentSignal

Next == MainNext \/ ReceiveNext \/ SendNext \/ AgentNext

Spec == Init /\ [][Next]_vars

\* Every thread that can go on does so in the end; an agent signals what it queued.
FairSpec ==
  /\ Spec
  /\ WF_vars(MainNext) /\ WF_vars(ReceiveNext) /\ WF_vars(SendNext) /\ WF_vars(AgentSignal)

(***************************************************************************)
(* And a thread that waits for a mutex which is free over and over again   *)
(* gets it.  POSIX does not promise this; what fails under it fails        *)
(* whatever the scheduler.                                                 *)
(***************************************************************************)
LockFairSpec ==
  /\ Spec
  /\ SF_vars(MainNext) /\ SF_vars(ReceiveNext) /\ SF_vars(SendNext) /\ WF_vars(AgentSignal)

-----------------------------------------------------------------------------
(* Properties.                                                             *)

\* Every variable holds a value of its type.
TypeOK ==
  /\ role \in {"starter", "clp", "alp"}
  /\ main \in MainSteps /\ receive \in ReceiveSteps /\ send \in SendSteps
  /\ draining \in BOOLEAN /\ over \in BOOLEAN /\ running \in BOOLEAN
  /\ lpLock \in {"free", "main", "receive"}
  /\ mpiLock \in {"free", "main", "receive", "send"}
  /\ recvSem \in Nat /\ sendSem \in Nat
  /\ received \in Nat /\ requests \in Nat /\ others \in Nat
  /\ control \in Nat /\ balancing \in Nat
  /\ agentsOwe \in Nat

\* Where the main thread holds the Lp lock.
MainHoldsLp ==
  main \in {"receive", "process", "signal", "drain", "yield", "lockMpi", "barrier",
            "lastBarrier", "unlock"}

InMpi ==
  {t \in {"main", "receive", "send"} :
     \/ t = "main" /\ main = "barrier"
     \/ t = "receive" /\ receive \in {"probe", "recv"}
     \/ t = "send" /\ send = "transmit"}

\* No two threads of the LP are inside MPI at once, but for the barriers of
\* Lp::Run and of the last GVT value; and the receive thread does not queue a
\* message while the main thread is inside Receive(), also when that has let go
\* of the Lp lock and taken it again (the second cut, the last drain).
ThreadsExclude ==
  /\ \A s, t \in InMpi : s = t
  /\ ~(MainHoldsLp /\ receive = "recv")

\* Alp::Receive dequeues without looking, trusting the semaphore: whenever the
\* main thread gets that far, also from inside the second cut, there is a
\* message.  Load-balancing and control messages, and the messages of a CLP, are still there
\* when the send thread dequeues what it has just seen.
DequeuesFindAMessage ==
  /\ main = "receive" => received > 0
  /\ send = "dequeueBalancing" => balancing > 0
  /\ send = "dequeueControl" => control > 0
  /\ send = "dequeue" /\ role # "alp" => Sending > 0

\* "A message signal was issued, but no message remains" (Alp::Send): the ALP's
\* send thread, too, finds a message when it dequeues.
SendFindsAMessage == send = "dequeue" => Sending > 0

\* The units the send thread can count on: those in the semaphore and those
\* that some thread is about to add.
UnitsDue ==
  sendSem + agentsOwe + (IF main \in {"signal", "endSignal"} THEN 1 ELSE 0)

SendHasUnit ==
  send \in {"lock", "check", "checkControl", "checkMessages",
            "dequeueBalancing", "dequeueControl", "dequeue"}

\* No message is stranded in a send queue: for every one the send thread has a
\* unit, or will get one, however rollbacks remove messages under it and
\* load-balancing and control messages overtake the others.
EveryMessageHasAUnit ==
  running => Queued <= UnitsDue + (IF SendHasUnit THEN 1 ELSE 0)

\* Once the main thread has ended the simulation the other two threads end,
\* wherever they are, and the main thread's Join returns.
StopEndsAllThreads == main = "stop" ~> main = "done" /\ receive = "done" /\ send = "done"

\* "Yield all control messages. And barrier" (GvtCalculator::SendAndSetGvt):
\* the starter that has GVT at the end time comes to the barrier and past it.
StarterReachesEnd == main = "yield" ~> over
=============================================================================
