-------------------------- MODULE LpThreadsProofs --------------------------
(***************************************************************************)
(* What holds of the threads of an LP for every bound on the queues: the   *)
(* locks exclude, no dequeue finds an empty queue that the code trusts to  *)
(* be non-empty, and no message is left without a unit of the semaphore.   *)
(*                                                                         *)
(* None of the properties is inductive.  The inductive invariant says, for *)
(* each lock, exactly at which steps it is held (LockInv); that a received *)
(* message is matched by a unit in the semaphore, by a unit the main       *)
(* thread has taken and not used, or by a signal the receive thread still  *)
(* owes (RecvInv); and the like, as an inequality, of messages to send     *)
(* (SendInv), with what the send thread has learnt by looking.             *)
(***************************************************************************)
EXTENDS LpThreads, TLAPS

\* Each lock is held by a thread exactly at these steps of the thread.
LockInv ==
  /\ lpLock = "main" <=> MainHoldsLp
  /\ lpLock = "receive" <=> receive = "recv"
  /\ mpiLock = "main" <=> main = "barrier"
  /\ mpiLock = "receive" <=> receive \in {"probe", "lockLp", "recv", "unlockMpi"}
  /\ mpiLock = "send" <=>
       send \in {"check", "checkControl", "checkMessages",
                 "dequeueBalancing", "dequeueControl", "dequeue", "transmit"}

\* The main thread has taken a unit of recvSemaphore and not yet dequeued.
MainHasUnit == IF main \in {"lock", "receive"} THEN 1 ELSE 0

\* The receive thread has queued a message and not yet signalled.
ReceiveOwes == IF receive \in {"unlockMpi", "signal"} THEN 1 ELSE 0

RecvInv == received = recvSem + MainHasUnit + ReceiveOwes

\* Only agents of an ALP queue requests, only a CLP balances load, and only the
\* send thread and rollbacks remove messages.
RoleInv ==
  /\ role = "alp" => balancing = 0
  /\ role # "alp" =>
       /\ requests = 0
       /\ agentsOwe = 0
       /\ send = "dequeue" => others > 0

\* Once the send thread has seen the load-balancing queue empty, or the control
\* queue, the messages queued there since have units of their own.
SendInv ==
  /\ send = "dequeueBalancing" => balancing > 0
  /\ send = "dequeueControl" => control > 0
  /\ EveryMessageHasAUnit
  /\ running /\ send \in {"checkControl", "dequeueControl"} => balancing <= UnitsDue
  /\ running /\ send \in {"checkMessages", "dequeue"} => balancing + control <= UnitsDue

IInv == TypeOK /\ LockInv /\ RecvInv /\ RoleInv /\ SendInv

-----------------------------------------------------------------------------
\* The initial states satisfy the inductive invariant.
LEMMA InitInv == Init => IInv
<1> SUFFICES ASSUME Init PROVE IInv
  OBVIOUS
<1>1. draining \in BOOLEAN /\ over \in BOOLEAN /\ running \in BOOLEAN
  BY Zenon DEF Init
<1>2. TypeOK
  BY <1>1 DEF Init, TypeOK, MainSteps, ReceiveSteps, SendSteps
<1>3. LockInv
  BY DEF Init, LockInv, MainHoldsLp
<1>4. RecvInv
  BY DEF Init, RecvInv, MainHasUnit, ReceiveOwes
<1>5. RoleInv /\ SendInv
  BY DEF Init, RoleInv, SendInv, EveryMessageHasAUnit, Queued, Sending, UnitsDue, SendHasUnit
<1> QED
  BY <1>2, <1>3, <1>4, <1>5 DEF IInv

\* Every step of every thread preserves it.
LEMMA StepInv == IInv /\ [Next]_vars => IInv'
<1> SUFFICES ASSUME IInv, [Next]_vars PROVE IInv'
  OBVIOUS
<1>0. MainReceive => draining' \in BOOLEAN
  <2>1. draining \in BOOLEAN
    BY DEF IInv, TypeOK
  <2> QED
    BY <2>1, Zenon DEF MainReceive
<1> USE DEF IInv, TypeOK, MainSteps, ReceiveSteps, SendSteps, LockInv, MainHoldsLp,
        RecvInv, MainHasUnit, ReceiveOwes, RoleInv, SendInv, EveryMessageHasAUnit,
        Queued, Sending, UnitsDue, SendHasUnit, locks, sems, queues
<1>1. CASE MainStart
  BY <1>1 DEF MainStart
<1>2. CASE MainWait
  BY <1>2 DEF MainWait
<1>3. CASE MainLock
  BY <1>3 DEF MainLock
<1>4. CASE MainReceive
  <2>1. draining' \in BOOLEAN
    BY <1>0, <1>4
  <2>2. received > 0
    BY <1>4 DEF MainReceive
  <2> QED
    BY <1>4, <2>1, <2>2 DEF MainReceive
<1>5. CASE MainUnlock
  BY <1>5 DEF MainUnlock
<1>6. CASE MainQueue
  BY <1>6 DEF MainQueue, HasRoom, Queued
<1>7. CASE MainSignal
  BY <1>7 DEF MainSignal
<1>8. CASE MainRemove
  <2>1. PICK n \in 0 .. requests - 1 : requests' = n
    BY <1>8 DEF MainRemove
  <2>2. n \in Nat /\ n < requests
    BY <2>1
  <2> QED
    BY <1>8, <2>1, <2>2 DEF MainRemove
<1>9. CASE MainProcessed
  BY <1>9 DEF MainProcessed
<1>10. CASE MainDrain
  BY <1>10 DEF MainDrain
<1>11. CASE MainDrained
  <2>1. draining' \in BOOLEAN
    BY <1>11, Zenon DEF MainDrained
  <2> QED
    BY <1>11, <2>1 DEF MainDrained
<1>12. CASE MainLastBarrier
  BY <1>12 DEF MainLastBarrier
<1>13. CASE MainEnd
  BY <1>13 DEF MainEnd
<1>14. CASE MainYield
  BY <1>14 DEF MainYield
<1>15. CASE MainRelock
  BY <1>15 DEF MainRelock
<1>16. CASE MainLockMpi
  BY <1>16 DEF MainLockMpi
<1>17. CASE MainBarrier
  BY <1>17 DEF MainBarrier
<1>18. CASE MainLeave
  BY <1>18 DEF MainLeave
<1>19. CASE MainFinalise
  BY <1>19 DEF MainFinalise
<1>20. CASE MainEndSignal
  BY <1>20 DEF MainEndSignal
<1>21. CASE MainStop
  <2>1. running' \in BOOLEAN
    BY <1>21, Zenon DEF MainStop
  <2> QED
    BY <1>21, <2>1 DEF MainStop
<1>22. CASE MainJoin
  BY <1>22 DEF MainJoin
<1>23. CASE ReceiveLoop
  BY <1>23 DEF ReceiveLoop
<1>24. CASE ReceiveProbe
  BY <1>24 DEF ReceiveProbe
<1>25. CASE ReceiveLockMpi
  BY <1>25 DEF ReceiveLockMpi
<1>26. CASE ReceiveLockLp
  BY <1>26 DEF ReceiveLockLp
<1>27. CASE ReceiveQueue
  BY <1>27 DEF ReceiveQueue
<1>28. CASE ReceiveUnlockMpi
  BY <1>28 DEF ReceiveUnlockMpi
<1>29. CASE ReceiveSignal
  BY <1>29 DEF ReceiveSignal
<1>30. CASE SendLoop
  BY <1>30 DEF SendLoop
<1>31. CASE SendWait
  BY <1>31 DEF SendWait
<1>32. CASE SendLock
  BY <1>32 DEF SendLock
<1>33. CASE SendCheck
  BY <1>33 DEF SendCheck
<1>34. CASE SendDequeueBalancing
  BY <1>34 DEF SendDequeueBalancing
<1>35. CASE SendCheckControl
  BY <1>35 DEF SendCheckControl
<1>36. CASE SendDequeueControl
  BY <1>36 DEF SendDequeueControl
<1>37. CASE SendCheckMessages
  BY <1>37 DEF SendCheckMessages
<1>38. CASE SendDequeue
  BY <1>38 DEF SendDequeue
<1>39. CASE SendTransmit
  BY <1>39 DEF SendTransmit
<1>40. CASE AgentQueue
  BY <1>40 DEF AgentQueue, HasRoom, Queued
<1>41. CASE AgentSignal
  BY <1>41 DEF AgentSignal
<1>42. CASE UNCHANGED vars
  BY <1>42 DEF vars
<1> QED
  BY <1>1, <1>2, <1>3, <1>4, <1>5, <1>6, <1>7, <1>8, <1>9, <1>10, <1>11, <1>12,
     <1>13, <1>14, <1>15, <1>16, <1>17, <1>18, <1>19, <1>20, <1>21, <1>22, <1>23,
     <1>24, <1>25, <1>26, <1>27, <1>28, <1>29, <1>30, <1>31, <1>32, <1>33, <1>34,
     <1>35, <1>36, <1>37, <1>38, <1>39, <1>40, <1>41, <1>42
     DEF Next, MainNext, ReceiveNext, SendNext, AgentNext

\* The inductive invariant holds in every reachable state, for every MaxQueue.
THEOREM Invariance == Spec => []IInv
<1>1. Init => IInv
  BY InitInv
<1>2. IInv /\ [Next]_vars => IInv'
  BY StepInv
<1> QED
  BY <1>1, <1>2, PTL DEF Spec

\* The counters and program counters stay in their types; in particular no
\* semaphore, queue or count of agents goes below zero.
THEOREM TypeCorrect == Spec => []TypeOK
<1>1. IInv => TypeOK
  BY DEF IInv
<1> QED
  BY <1>1, Invariance, PTL

\* The two mutexes exclude the threads, through every Unlock and Lock inside
\* a handler: no two threads in MPI, none queuing while another processes.
THEOREM Exclusion == Spec => []ThreadsExclude
<1>1. IInv => ThreadsExclude
  <2> SUFFICES ASSUME LockInv PROVE ThreadsExclude
    BY DEF IInv
  <2>1. \A s, t \in InMpi : s = t
    BY DEF LockInv, InMpi
  <2>2. ~(MainHoldsLp /\ receive = "recv")
    BY DEF LockInv
  <2> QED
    BY <2>1, <2>2 DEF ThreadsExclude
<1> QED
  BY <1>1, Invariance, PTL

\* The semaphore keeps its promise to Alp::Receive, which does not look before
\* it dequeues; so does what the send thread of a CLP has just seen.
THEOREM DequeuesSafe == Spec => []DequeuesFindAMessage
<1>1. IInv => DequeuesFindAMessage
  <2> SUFFICES ASSUME IInv PROVE DequeuesFindAMessage
    OBVIOUS
  <2>1. main = "receive" => received > 0
    BY DEF IInv, TypeOK, RecvInv, MainHasUnit, ReceiveOwes
  <2>2. send = "dequeue" /\ role # "alp" => Sending > 0
    BY DEF IInv, TypeOK, RoleInv, Sending
  <2> QED
    BY <2>1, <2>2 DEF DequeuesFindAMessage, IInv, SendInv
<1> QED
  BY <1>1, Invariance, PTL

\* No message is left in a send queue without a unit of sendSemaphore that
\* will make the send thread look for it.
THEOREM UnitsSuffice == Spec => []EveryMessageHasAUnit
<1>1. IInv => EveryMessageHasAUnit
  BY DEF IInv, SendInv
<1> QED
  BY <1>1, Invariance, PTL
=============================================================================
