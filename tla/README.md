# A formal model of PDES-MAS

PDES-MAS runs a multi-agent simulation optimistically over MPI.  *Agents* keep
their own local virtual time (LVT) and read and write *shared state variables*
(SSVs) at timestamps of their choosing, without waiting for each other.  *ALPs*
(agent logical processes) run the agents; *CLPs* (communication logical
processes), arranged in a binary tree, host the variables, answer the requests,
and send rollbacks when a write arrives in the past of a read.  A *GVT*
computation over the ring of all LPs finds a time below which nothing can be
undone any more.

This directory holds TLA+ modules of the engine's core, TLC configurations, and
TLAPS proofs.  Paths below are relative to the repository.

| file | what it is |
|---|---|
| `WritePeriods.tla` | the list of write periods of one SSV, the rollback list, the move of a list to another CLP: operators only |
| `TimeWarp.tla` | agents, ALPs and the CLP of one SSV: requests, rollbacks, anti-messages, GVT |
| `LpThreads.tla` | main, receive and send thread of one LP: locks, semaphores, queues, the end |
| `GvtRing.tla` | the GVT computation on the ring of LPs |
| `ClpTree.tla` | the tree of CLPs and its tables: operators only |
| `Routing.tla` | requests, responses and migrating variables on that tree |
| `RemoteAccess.tla` | the abstract specification that `Routing` implements |
| `AlpThreads.tla` | an ALP from within: its agents' threads, send thread, main thread |
| `RangeQueries.tla` | range queries and range updates on the tree |
| `Lists.tla` | what a walk over a send queue or send list leaves of it: one operator |
| `LpThreadsProofs.tla`, `GvtRingProofs.tla`, `TimeWarpProofs.tla`, `RoutingProofs.tla`, `AlpThreadsProofs.tla`, `RangeQueriesProofs.tla` | inductive invariants, and what follows from them |
| `ClpTreeTheorems.tla` | lemmas on the operators of `ClpTree` |
| `ListTheorems.tla` | lemmas on lists and finite sets |
| `MC*.tla`, `MC*.cfg` | instances for TLC |

Run a configuration with `tlc -config MCTimeWarp.cfg MCTimeWarp` and so on; check
the proofs with `tlapm` on each `*Proofs.tla` and `*Theorems.tla`.


## 1. Inventory

### Components, their state and operations

**Shared state** (`state/SharedState`, `StateVariable`, `WritePeriod`; `lp/RollbackList`, `LpId`).
Per SSV a list of write periods in time order: start, end, value, writer, and the
reads answered from it.  Operations: read; write (which may split a period of the
past and reports the reads it invalidates); undo a read; undo a write (merging the
period into the one before); cut everything below GVT.  `RollbackList` reduces the
reads reported to one rollback per LP key.
*Correct when* the periods partition time, each read is noted in the period in
force at its time (that is how a later write finds it), and no operation that the
CLP accepts falls off the list.

**CLP protocol** (`lp/Clp`).  Hosts a `SharedState`; handles reads, writes, both
anti-messages, GVT values, end messages, range queries and state migration;
forwards what is for others through the router.
*Correct when* an agent never keeps, once GVT has passed it, a value that was not
the one in force at the time it read.

**ALP and agents** (`lp/Alp`, `interface/Agent`, `HasSendList`, `HasRollbackTagList`,
`lp/MessageQueue`, `ThreadWrapper`).  Per agent an LVT history, the request it is
blocked on, and the response handed over; per ALP a send queue, a send list
(requests that may have to be cancelled) and the rollback tags already seen.
Agents are threads of their own; the ALP's main thread stops and restarts them
when a rollback arrives.
*Correct when* a rollback leaves no trace of the future it cancels, and every
waiting agent is answered or restarted.

**LP threads** (`lp/Lp`, `MpiInterface`, `ReceiveThread`, `SendThread`, `util/Semaphore.h`,
`Mutex`).  Three threads per LP, two mutexes (the LP's and the one around MPI), two
semaphores counting messages to receive and to send, and several queues with a mutex each.
*Correct when* the locks exclude, the semaphores never promise what the queues do
not hold (nor strand what they do), and everything stops at the end.

**GVT calculation** (`lp/GvtCalculator`, `GvtControlMessage`, `HasMessageCount`).
Mattern's two cuts: colours, counters of white messages, the least red timestamp.
*Correct when* one computation runs at a time, the counters are right, values are
set in order, and a value is a lower bound of all LVTs and messages on their way.

**Routing** (`routing/`).  Per CLP: which port leads to each SSV, to each rank, and
who is at each port.
*Correct when* every table leads to the variable, wherever it is and even while it moves,
and nothing sent to it is lost, executed twice, or passed round for ever.

**State migration and load balancing** (`AccessCostCalculator`, `Clp::MigrateStateVariables`):
per variable and port the accesses and the hops they took, per CLP its load; when GVT is set, a
loaded CLP sends busy variables one step towards their readers.  It is compiled in
(`CMakeLists.txt` defines `SSV_LOCALISATION`).
*Correct when* the variable arrives with all that was written, and whoever read
from what it left behind is rolled back.

**Range queries** (`rangequery/`, `RQPortScanStatus`).  Per CLP and port the rectangle around
the values that lie that way, the queries noted there, and a tracker of queries
that await replies.  A query is spread over the tree; changes of values send
range updates over it.
*Correct when* each query is answered, an answer that has become wrong is rolled
back, and a cancelled query is forgotten everywhere.

**Message identifiers** (`IdentifierHandler`): a counter with a lock.
*Correct when* no two agents of an ALP get the same one.

**End messages.**  An ALP sends one when its agents are done, and CLPs would flood it over the
tree; but an ALP sends it in `Finalise`, after GVT has reached the end time, when the
CLPs have left `Lp::Run`: no CLP processes one.

The rest: messages and serialisation, values and pools,
set-up and parser, the old `Interface`, logging, test agents.

### How they interact

    agent --(request, blocks)--> send queue --send thread--> MPI --> CLP receive queue
    CLP main thread: write periods --> response, rollbacks --> send queue --> MPI
    ALP main thread: response wakes the agent;
                     rollback stops it, cancels requests, queues anti-messages, restarts it
    GVT starter (rank 0) --control message--> 1 --> 2 ... --> 0 --value messages--> all
    every LP: main thread | receive thread | send thread, sharing two locks
    CLP <-> CLP: what is for a variable elsewhere, state migrations, range queries,
                 range updates; GVT is when a CLP looks at its load

### What is hard

Messages of several agents reaching a CLP out of timestamp order; rollbacks racing
responses and cascading; two threads of an LP, or an agent and its ALP, in an order
nobody tested; a handler that lets go of its lock in the middle and receives from
inside itself; counters of messages that change while the colour does; time
boundaries (a write at the time of a write, GVT equal to a period's start, a gap
in an LVT history); a variable that moves while messages are on their way to it,
and overtakes them; a query that is half way through the tree when a value changes; the end, when every thread must get out of whatever it blocks
on.  `PROJECT.json` lists the hazards with their lines and the properties for each.


## 2. Plan

Order: what the engine exists for first (optimistic reads and writes), then what
that rests on (threads; GVT), then the parts around it.

1. `WritePeriods`, `TimeWarp`: done; all its invariants are proved but `AgentsAreAnswered`.
2. `LpThreads` with proofs: done.
3. `GvtRing`: done; all its invariants and its action property are proved.
4. `AlpThreads`: done; all its invariants are proved.
5. `ClpTree`, `Routing`, `RemoteAccess`, and the migration operators of `WritePeriods`: done;
   all their invariants are proved, and the refinement but for liveness.
6. `RangeQueries`: done for changes in the order of their times; all its invariants are proved.

What remains, in this order: changes in the past and the migration's range updates in
`RangeQueries`, which need several range periods per port; `TimeWarp` composed with `Routing`, so that rollbacks
happen while the variable moves.

Theorems that remain: an abstract specification of `RangeQueries` (a query is asked, answered once, rolled back),
and that the tree implements it.


## 3. The modules

### WritePeriods

Constant-level: each operation is an operator from the old list to the new, and what
else it returns.  The comparisons of `LpId` are those of the code (each the
conjunction of the comparisons of the two fields, so `<` is a partial order and
`!=` is not the negation of `==`), and they matter: `std::map` takes two agents
neither of which is less for the same key (`AddLp`), `PerformWriteRollback`
tests ownership with `!=` (`CanUndo`), and a write at the time of another agent's is refused only
if that one is greater in both fields (`IsRefused`).  `AddLp` returns the *set* of
rollback lists that can result, since the agent under whose name a shared entry is
kept depends on arrival order, which the model does not keep.  `ULONG_MAX` and
`LONG_MAX`, both used for "no end", are one constant, above every time.

The move of a list between CLPs is two recursive functions: `RemoveWritePeriodList` undoes the
periods one after the other and collects the reads (`UndoPeriod`), `Insert` writes them
anew at the other CLP (`InsertPeriod`).  They are not actions of `TimeWarp`, which has one
CLP; its invariants `MigrationKeepsWrites` and `MigrationTellsReaders` say, in every
state, what a move at that moment would do.  Two limits show.  The readers are rolled
back to one *after* the start of the period they read (`RollbackList.cpp:71`), so one that read at the very start is
not.  And `Insert` would refuse to repeat writes of one time that stand in the wrong order of their
agents; an undone write that stays (section 6) leaves them so only if "same key" is not transitive among the
agents, which `TimeWarpAssumption` asks for because `std::map` does (`WriterInvariance` in section 5).

### TimeWarp

One SSV at one CLP, any set of agents on any ALPs.

| code | model |
|---|---|
| `Agent::ReadInt`, `WriteInt`... up to the wait | `Issue` |
| `Agent::WaitUntilMessageArrive`, then `SetLVT` | `Consume` |
| `Agent::time_wrap` | `TimeWrap` |
| `Alp::Send` | `AlpSend` |
| `Alp::ProcessMessage` of a response | `AlpResponse` |
| `Alp::ProcessRollback` | `AlpIgnoreRollback` (two early returns), `AlpRollback` |
| `Alp::SetGvt`, `Clp::SetGvt` | `AlpSetGvt`, `ClpSetGvt` |
| `Clp::ProcessMessage` of each kind | `ClpRead`, `ClpReadAnti`, `ClpWrite`, `ClpWriteAnti` |

Choices a reader should know:

* A value is the identifier of the write that made it, so "which value was read"
  means "which write was read".  The tag of a rollback (SSV, time, real time) is
  the identity of the write that started the cascade.
* A CLP's send queue and the channel behind it are one FIFO; so are a channel and
  the receive queue behind it.  MPI keeps the order between two LPs.
* GVT comes from outside as any lower bound of the LVTs and of the timestamps in
  transit; each LP applies the latest one, so intermediate values may be skipped.
  When an LVT falls below GVT (see below), GVT goes back too: the code does nothing
  to prevent it.
* The agents' choice of timestamps is that of `src/testing`: one unit after the
  LVT, or at the LVT for a write right after a read (`NaiveAgent::SendMail`);
  `WriteDelays` says which.
* `Covering(...) # 0` in `ClpRead` stands for the code's `exit(1)`: a read that finds no
  period is never taken, and nothing behind it in its queue either (`ClpHasEnded`).  The
  other queues go on, which is more than a process that has ended would do, so that what is shown of all
  states holds of those the code reaches.  `ReadsAreServable` says that it does not come to that, and
  is false (section 6).
* `learnt`, `lost`, `undone`, `committed`, `fallen` and `stolen` are history variables.  `lost` collects
  the rollbacks that were sent and reached nobody, in the three ways the code has:
  merged into another agent's entry by `RollbackList::AddLp`, dropped by an ALP
  that has seen the tag, or dropped because its time is above the LVT although the
  agent is waiting for a response at or after that time.  It never shrinks: a lost rollback excuses the
  agent's later stale reads at or after its time too.  `fallen` has the agents that a rollback to a time not before GVT
  has taken to an LVT from which they may ask for a time before GVT (`EarliestRequest`: one after the LVT, or the LVT
  itself if they write there).  `stolen` has the writes that another agent's anti-message has undone.
* Stopping, joining and restarting an agent is one step with the rest of
  `ProcessRollback`: `ThreadWrapper::Join` waits until the thread is gone.

### LpThreads

One LP of any kind, messages only counted.  The `main`, `receive` and `send`
variables are the program counters of the three threads; each action runs from one
operation on a lock, semaphore or queue to the next.  What a message turns out to
be, and how many messages its handler sends, is a choice.  The handlers that do more with the
locks are modelled step by step: the second cut, which unlocks, receives and relocks
from inside `Receive()` (`draining`); the last GVT value, which waits at a
barrier; and `SendAndSetGvt` at the end time, which yields until the control queue is
empty and then takes the MPI mutex.  `Clp::Send` looks at three queues in order,
`Alp::Send` at the last two.  A rollback removes any number of requests from
an ALP's send queue (`MainRemove`: which agent's is not kept).  Threads are started
inside `Lp::Run`'s first step.

### GvtRing

N LPs; rank 0 is the starter and the only CLP, the others are ALPs with one agent.
Of the simulation only what GVT can see is kept: LVTs, the messages, whether an
agent waits.  Each LP has its send thread, which stamps a message with the colour
(`Stamp`) and then reads the colour again to count it (`CountAndSend`), as
`Lp::PreProcessSendMessage` does without the LP's lock.  The counters are partial
functions that start empty, because `GetWhiteTransientMessageCounter` returns -1
for an entry that does not exist, and the starter looks only at its own entries.
`drift` is a history variable that records the messages counted under another
colour than the one they were stamped with.  A cut is one step of the main thread (`FirstCut`, `SecondCutDone`),
which is coarser than the code: as the send thread does without the LP's lock, it may stamp and count also between the reading of
the counters, the turn of the colour and the reset of the red time (`GvtCalculator.cpp:122-135`), and between the
reading of the red time and the turn of the colour (`:193-200`).  What the run and the theorems show does not turn on that: two of the
properties say nothing of colours and counters, and a cut reads the counters that `WhiteAccounting` is about and changes none.  The
violation needs no finer steps.  Anti-messages are left out (they go
through the same steps as requests), and so is the barrier at the end time
(`LpThreads` has it).

### ClpTree, Routing and RemoteAccess

`ClpTree` has the tree (CLP `r` above `2r+1` and `2r+2`, ALPs at the leaves), the
forwarding table (`NextClp`) and the ports.  `Routing` moves messages along it:

| code | model |
|---|---|
| a request by an agent; `Alp::ProcessRollback` whatever caused it | `Issue`, `Cancel` |
| `Alp::ProcessMessage` of a response | `AlpReceive` |
| `Router::Route` of a request or anti-message, of a response | `Forward`, `ForwardResponse` |
| `Clp::ProcessMessage` of a request or anti-message | `Execute` |
| `Clp::SetGvt`, `MigrateStateVariables`, `AccessCostCalculator` | `SetGvt` with `Migrate`, `LeavesBy`, `IsLoaded` |
| `Clp::ProcessMessage(StateMigrationMessage)` | `Receive` |

* `link[<<x, y>>]` is the send queue of x, the MPI channel and the receive queue of y in
  one.  Both queues hand load-balancing messages out first, so a migration is taken from
  anywhere in the link, any other message only from its head.
* A request is on the send list, and so sent, from the moment it is issued.  What a rollback does to
  requests that are still in the ALP's send queue is in `AlpThreads`.
* Reads and writes are routed alike and both are "requests"; what they do to the list, the timestamps, and what is dropped below GVT
  are in `TimeWarp`.  `store` holds, per variable, the messages executed.
* `RemoteAccess` promises that a message sent is executed once and a request executed is answered once, and that
  both happen.  It promises no order: a variable that moves can meet an anti-message before the request, still on its way to where the
  variable was.  The refinement mapping reads `sent` off the agents' requests and send lists, and `log` off the variable
  wherever it is, the message it travels in included.

### AlpThreads

What `TimeWarp` does in one step per handler is here in the steps of three kinds of thread:
an agent's (numbering a request in the two steps of `GetNextID`, queueing it,
polling `message_ready_`, stopping at a `SyncPoint`), the send thread (`SendDequeue`, `SendList`,
`SendNote`: the lines of `Alp::Send`), and the main thread (`MainResponse`, and `ProcessRollback`
as `MainAbort`, `MainJoin`, `MainRecall`, `MainRestart`).  The send thread holds only the MPI
mutex and the main thread only the Lp lock, so all of these interleave; `LpThreads`
has the locks.  Agents read at their LVT, write at LVT + 1, and then go on by
one: `RemoveMessages` and `RollbackSendList` keep a write at the time of a rollback, which is right only for
such agents.  The CLP executes requests when they leave the ALP, since only the order of what comes back matters here.
The history variables name the three races:
`slipped` (in hand at the send thread, in neither queue nor list, while a rollback walks both), `revived` (an
agent restarted while its old request is in hand, whose answer it may then be
given), `twins` (an identifier given out twice).

### RangeQueries

| code | model |
|---|---|
| an agent's range query; its anti-message | `Ask`, `Cancel` |
| `Clp::ProcessMessage(RangeQueryMessage)`, new or a reply | `FirstVisit`, `Reply` |
| `Clp::ProcessMessage(RangeQueryAntiMessage)` | `Follow` |
| a write or undone write, and its range updates | `Change` |
| `Clp::ProcessMessage(RangeUpdateMessage)` | `Learn` |

Changes come in the order of their times and all queries are later: then one range period
per port is in force.  A change may also write the value that is there already, and be refused.  Each query is
an agent's of its own; a rollback has arrived when it is sent, what an ALP does with it being in `TimeWarp`.  Four faults of the
code limit what holds; each has a history variable, so that the properties say exactly when: `crossed`
(`Range.cpp:44` looks for corners inside the other rectangle, and misses two that
cross), `replaced` (`Clp.cpp:941` is to combine the ranges of several ports under a
condition that is never met, so the update for one port replaces what was known of the others), `misled`
(`RangePeriod.cpp:78` returns the status of whichever query is first in the list) and `lost`
(`RollbackList::AddLp` has one entry for agents that `LpId::operator<` does not tell apart, any two of one ALP among
them: the first in the list is sent a rollback and the others are not).  `replaced` has
the CLP and port whose range leaves another CLP's out, and loses them again when that port gets its
next range; an update says for which of the sender's ports it is in `source`, which the code does not
send and only `replaced` and the properties look at.
All four occur in the run, and without any one of them a property fails.  As in `TimeWarp`, "same key" is taken to be
transitive among the agents, which `std::map` asks for.


## 4. Runs

Distinct states are those TLC reports.

| run | question | result |
|---|---|---|
| `timewarp` | two agents on two ALPs, two requests each, jumps of two units; reads one unit after the LVT, writes at it | 1,077,186 states, holds |
| `unserved` | does the CLP always have a period to read from? | no (finding) |
| `undo` | does an undone write leave the list? | no (finding) |
| `stale` | is every stale read rolled back? | no (finding) |
| `lp_threads` | the three threads of each kind of LP, with fairness | 405,888 states, holds |
| `lp_send` | does the ALP's send thread find the message it saw? | no (finding) |
| `lp_end` | does the starter pass the barrier at the end? | no (finding) |
| `gvt_ring` | two GVT computations, three LPs, a request from each agent | 525,809 states, holds |
| `gvt_bound` | is no message on its way below GVT? | no (finding) |
| `routing` | two agents, one variable that moves through three CLPs; with fairness | 38,515 states, holds |
| `alp_threads` | two agents on one ALP, one rollback; with fairness | 312,749 states, holds |
| `range_query` | two queries and two changes, three CLPs; with fairness | 135,747 states, holds |

### What they show

*timewarp.*  However writes in the past, undone writes and GVT cuts interleave,
the list is a partition of time (`PeriodsPartitionTime`) with each read in its
period (`ReadsStayInTheirPeriod`).  A stale read is rolled back, unless its
rollback is one of those the code sends and loses
(`StaleReadsAreRolledBack`): so the list itself never forgets a reader, and the three ways in `lost`
are the only ways a stale value survives.  Nothing before the CLP's GVT is undone
(`NothingCommittedIsUndone`) or asked for (`NoReadBelowGvt`: the CLP drops such a read and its agent
would wait for ever).  No agent is left waiting when all threads have done what they can, whatever the order of
responses, rollbacks and GVT values, unless the CLP has ended (`AgentsAreAnswered`); as every behaviour of the instance is
finite, so is every wait.  And when nothing is on its way, each uncommitted write on
a send list is in the CLP's list (`WritesInSync`).  If the variable migrated at any of these moments, every
write would arrive, with its start, end and writer (`MigrationKeepsWrites`), and every read after the start
of its period would be rolled back (`MigrationTellsReaders`).

A rollback takes an LVT to the last entry of the history at or before its time.  After a jump there is a gap, and that
entry may be before GVT, so that the agent's next request is too; an agent that writes at its LVT needs no gap for it.  The
agents of `src/testing` do both (`TestAgent.cpp:44` jumps by 500 and up to 999, `NaiveAgent` writes at its LVT), and
`Clp.cpp:365-370` drops such a read with a critical log.  The two properties about GVT hold until that happens, which
`fallen` records.  Without the exception `NothingCommittedIsUndone` fails in this run.  A read
before GVT takes a longer jump (`WrapSteps = {3}`, `EndTime = 8`, `MaxMessages = 3`, by simulation), so that in this
run the exceptions of `NoReadBelowGvt` and of `AgentsAreAnswered` for it are not made use of.  Nor is `stolen`, which takes two
agents on one ALP.  The invariants also hold for two agents on one ALP (with `WrapSteps = {1}` and
`WriteDelays = {0}`, where without `stolen` `WritesInSync` fails; with `{1}` and `{1}`; with `{2}` and `{0, 1}`), and on two with
`{1}` and `{1}` (715,084 states) and with `{2}` and `{0, 1}` (2,891,678 states), all for an end time of 3 and two requests each.

*unserved.*  An agent writes at time 3 and GVT becomes 3, its anti-message being on its way, which GVT allows.
The CLP cuts the list: the write covers GVT, so it is all that is left.  Then the anti-message undoes it.  The list is empty, and the
next read ends the CLP, and with it the simulation.

*undo.*  Two agents may both have a period that starts at the same time;
`PerformWriteRollback` stops at the first, finds it is not its own, and gives up.

*stale.*  Agent 1 reads; the ALP accepts the answer, the agent has not yet woken;
the rollback of that read arrives and is ignored since its time is above the LVT.

*lp_threads.*  Together with the proofs below: no two threads in MPI, no message queued while
another is processed, no dequeue of an empty queue where the code trusts the
semaphore, no message without a unit, and the end of all threads.  The barriers of `Lp::Run` and of the last
GVT value are called without the MPI mutex and are left out of
`ThreadsExclude`.

*lp_send.*  `IsEmpty` and `DequeueMessage` are two critical sections, and a rollback fits between.

*lp_end.*  The starter holds the LP lock and waits for the MPI mutex; its
receive thread holds the MPI mutex and waits for the LP lock.  This is a deadlock
whatever the scheduler, so the run assumes even strong fairness.

*gvt_ring.*  There is exactly one control message while the starter accepts no
requests (`OneRoundAtATime`), also with requests arriving inside the second cut; GVT
values are set in order (`ValuesInOrder`); and the counters of all LPs together know
exactly how many white messages are on their way to each LP but for `drift`
(`WhiteAccounting`): the colour race is the only thing that disturbs them.

*gvt_bound.*  A GVT computation can nevertheless end with a message below it on
its way: an entry that does not exist counts as -1, the starter leaves out ranks it
never sent to, and a colour change between stamping and counting hides a message.

*routing.*  A variable is at one CLP or in one message (`OnePlace`), and the tables
of all CLPs lead there, though only two of them change when it moves
(`DirectionsLeadHome`).  Every message sent is on its way or executed, every request executed is answered or
its response on its way, and never both (`NothingIsLost`).  A message that misses it makes a detour of at most two hops per move
(`DetoursAreBounded`).  An anti-message comes before its request only if
the variable moved in between (`OvertakenOnlyByAMove`): the one case in which a
cancelled request takes effect.  The tree implements `RemoteAccess`, liveness
included (`ImplementsRemoteAccess`).

*alp_threads.*  A rollback leaves nothing behind of what it takes back, except the
request in hand (`OnlyTheOneInHandSlips`); what has effect at the CLP can be taken back
(`WhatTakesEffectIsListed`), but for a twin, which the removal of a refused write may take from the list in its place; a woken agent takes the
answer to its own request, unless it was revived (`ResponseIsOwn`); no agent polls
for ever and no rollback waits for ever (`EveryWaitEnds`, `RollbacksEnd`).  Each exception is reached.

*range_query.*  A reply always finds the entry that waits for it and a query never
finds one (`RepliesAreExpected`), although the two are the same message.  An answer that has
become wrong is rolled back, at the latest when the range updates have arrived
(`StaleAnswersAreRolledBack`), wherever on its way through the tree the query was when the value changed, and a cancelled query is forgotten
(`CancelledQueriesAreForgotten`), but for the faults above: of two agents on one ALP, for instance, whose answers one change
makes wrong, one keeps its answer.  Every query is answered (`EveryQueryIsAnswered`).

### Bounds, and why they are enough

* `TimeWarp`: two agents, on two ALPs, with two requests each (re-executions count)
  and an end time of 3.  Two agents give writes in the other's past, equal
  times in both orders of `LpId`, cascades of length two and rollbacks racing
  responses; the third request of an agent repeats situations.  The agents' identifiers are ordered
  as their ranks are, so they are not the same key; agents that are (two on one ALP) need
  `Agents` to be given so.  `MaxTime` follows from `EndTime` and
  `WrapSteps`.  Symmetry is not used: the agents are ordered.
* `LpThreads`: `MaxQueue` bounds the length of the queues, the semaphores and the
  agents that have queued and not signalled.  Three is more than one thread can
  have in hand plus one to race with; the safety properties are proved for every bound.
* `GvtRing`: three LPs are the least with an LP that is not next to the starter; two
  computations let values and rounds follow each other; one request each
  already gives white and red messages in both directions, and rollbacks.  The
  violation needs two requests and one computation.
* `Routing`: three CLPs are the least with a middle, an agent at either end.  `PortThreshold = 3` is what
  `AccessCostCalculator` computes for this tree.  Three requests of one agent are enough to make the
  variable move three times, and one of the other to cross it; one is cancelled.  Checked too, for safety, with two
  cancelled (703,084 states), and in full with (3, 2) requests and one cancelled
  (148,347) and (2, 2) and two (258,762).
* `AlpThreads`: two agents, for the twins; time for two requests of one, so that it goes on after a rollback; one rollback. With time for one request
  each and two rollbacks (126,848 states) the same holds.
* `RangeQueries`: three CLPs, so that one range stands for two of them; five variables whose values make
  each fault possible; two queries, so that one can be taken for the other; two
  changes, so that an update follows another.

`CHECK_DEADLOCK FALSE` is given in every configuration: a simulation ends, and the
bounds end it early.  That nobody waits for ever is what `AgentsAreAnswered`, `EveryWaitEnds` and
`StopEndsAllThreads` are for.

### Fairness

* `TimeWarp` states none: `AgentsAreAnswered` looks at the states in which no thread can go on.  That the threads do go on
  until then is theirs: they loop on semaphores and never wait for a condition that comes and goes.
* `LpThreads!FairSpec`: weak fairness of each of the three threads, and of an agent's signal.
* `LpThreads!LockFairSpec`: strong fairness, used only for a property that fails.
* `Routing!Spec`: what is in a link is taken in the end, link by link: MPI delivers, and a link holds finitely many
  messages.  Nobody has to issue, cancel or compute a GVT.
* `AlpThreads!Spec`: each thread runs; rollbacks need not happen.
* `RangeQueries!Spec`: some message is received as long as there is one.  This is weaker than fairness of each link and
  suffices, as there are finitely many messages.
* `GvtRing` states no liveness: with a drifted counter the second cut may wait for a
  message that does not exist.


## 5. Proofs

### LpThreads

`LpThreadsProofs.tla` proves, for every `MaxQueue \in Nat` and each kind of LP:

| theorem | statement |
|---|---|
| `Invariance` | `Spec => []IInv` |
| `TypeCorrect` | `Spec => []TypeOK`; no semaphore, queue or count goes below zero |
| `Exclusion` | `Spec => []ThreadsExclude` |
| `DequeuesSafe` | `Spec => []DequeuesFindAMessage` |
| `UnitsSuffice` | `Spec => []EveryMessageHasAUnit` |

None of the properties is inductive by itself.  `ThreadsExclude` speaks of the threads, not of
the locks; `LockInv` ties each lock to the exact steps at which each thread holds
it.  That `Receive()` finds a message needs the balance of `RecvInv`: messages received =
units in the semaphore + the unit the main thread has taken + the signal the receive thread owes.
`EveryMessageHasAUnit` fails to be inductive where the send thread gives a unit up on
finding its queues empty: one after the other, so a message may have come into the
first while it looked at the last.  `SendInv` says that such messages have units of their own, and
`RoleInv` which kind of LP can have which messages.  `StepInv` has one step per action.
`MaxQueueAssumption` is the only assumption, and bounds nothing in the argument.

### GvtRing

For any number of LPs, of requests and of rounds, from `GvtRingAssumption` alone:

| theorem (`GvtRingProofs.tla`) | statement |
|---|---|
| `Invariance` | `Spec => []GvtInv` |
| `TypeCorrect` | `Spec => []TypeOK` |
| `OneRound` | `Spec => []OneRoundAtATime` |
| `Accounting` | `Spec => []WhiteAccounting` |
| `InOrder` | `Spec => ValuesInOrder`, an action property |

`GvtInv` has these parts, each preserved given those before it:

* `IInv`.  `TokenInv`: the control
  message is in at most one place of all (queues, channels, the handler of the second
  cut), and it is in one exactly while the starter accepts no request.  `ShapeInv`: queues and
  channels are lists of messages of the known kinds; without it nothing could be said of what
  their head is, or of where a message appended to them is.
* `TypedInv`.  That a GVT is a time and never `Infinity` depends on what a control message has
  seen: the first cut starts with `Infinity`, and once it has left the starter's neighbour it has an
  ALP's LVT.  That an LVT stays in `Times` depends on the number of requests made: each moves it two units at most.
* `ValueInv`.  The values that an ALP has still to set are those of the rounds after the last one it has
  applied up to the last one ended, each once, in order, the older ones in the channel from the starter and the
  younger in its queue.  `ValuesInOrder` follows, as the head of the channel is the next value.
* `WhiteAccounting`, which is inductive given the types.  Each side is a sum over the LPs; a step changes
  one summand on each side, by numbers that match.  What `Total`, a recursive function, does when one summand changes
  (`TotalChange`) is proved by a least counterexample.

### WritePeriods and TimeWarp

| theorem (`TimeWarpProofs.tla`) | statement |
|---|---|
| `Invariance` | `Spec => []IInv` |
| `TypeCorrect` | `Spec => []TypeOK` |
| `Partition` | `Spec => []PeriodsPartitionTime` |
| `ReadsStay` | `Spec => []ReadsStayInTheirPeriod` |
| `ReadInvariance` | `Spec => [](IInv /\ ReadInv)` |
| `NoStaleRead` | `Spec => []StaleReadsAreRolledBack` |
| `GvtInvariance` | `Spec => [](IInv /\ GvtInv)` |
| `CommittedStays` | `Spec => []NothingCommittedIsUndone` |
| `NoneReadsBelowGvt` | `Spec => []NoReadBelowGvt` |
| `SyncInvariance` | `Spec => [](IInv /\ ReadInv /\ SyncInv)` |
| `WritesStayInSync` | `Spec => []WritesInSync` |
| `WriterInvariance` | `Spec => [](IInv /\ WrittenByAgents(periods))` |
| `MigrationCopies` | `Spec => []MigrationKeepsWrites` |
| `MigrationTells` | `Spec => []MigrationTellsReaders` |

They hold for any agents, on any ALPs, for any jumps, times and numbers of requests, from `TimeWarpAssumption` and
`InfinityAssumption`.  Where the code does not keep a property, the property says so by a history variable that
records the very step that breaks it (`lost`, `fallen`, `stolen`; section 3), and no theorem has a restriction on how the
agents behave.  The first part of `TimeWarpProofs.tla` has the lemmas they rest on:
`NoteRead`, `PerformReadRollback`, `WriteWithRollback`, `PerformWriteRollback`
and `RemoveWritePeriods` each keep `ListInv`, for lists of any length.  `ListInv` says that the list is typed, is a partition, has its reads
inside, and has its periods *in order* of start, whichever two one compares: that follows from
`IsPartition` only by induction, and so is carried along.

The operators need times below `Infinity`, and a read needs a period that covers it.  That
such times arrive is the rest of `IInv`: messages on their way and on send lists
are typed (`TypedMessages`), because requests are made at or just after an LVT, and LVTs are at
most `MaxTime` (`TypedAgents`), which is above the end time; GVT never exceeds
`MaxTime` either (`TypedGvt`).

`StaleReadsAreRolledBack` speaks of what the list has on record for reads that agents *have* made.  It is not inductive: a read
is noted when the CLP answers, and the agent learns the answer steps later; in between the agent may be rolled back
and its read taken back.  `ReadInv` follows the read over that way:

* `Covered` is the property itself, said of the answers that are still on their way to an agent that will take them as well.
  Each operation on the list keeps a read on record or has its agent rolled back (`NoteReadRecords`, `WriteWithRollbackRecords` and the like in
  the first part of `TimeWarpProofs`); a rollback that does not reach its agent goes to `lost`.
* The one operation that takes a read off the list without a rollback is its anti-message.  `AntisFirst` says that such a message
  never meets a read the agent still acts upon: it is before the repeated read in each queue, because `ProcessRollback`
  appends it when it has removed what was to come, and the queues are FIFO.
* A rollback goes to a time, and takes away the reads after it.  `Timely` says that an agent's history has an entry right after each of
  its reads, or will have it when the agent wakes up, so that a rollback that is applied to the LVT takes all of them.
* `Addressed` and `SentOnce` say that identifiers are fresh, and that messages of one agent use one path: without them an
  answer to an older request could be taken for the one awaited.

`GvtInv` says that what is ahead of GVT stays there as long as no agent has fallen.  `Safe(g)`: no message on its way has a
time below g, and no agent may ask for one (`AgentsAhead`: `EarliestRequest` of each LVT is at least g).  It
is needed both for the GVT computed last and for the highest one the CLP has set, which are different times
(`Safe(gvt) /\ Safe(committed)`), and `clpGvt <= committed` links them to the properties.  A rollback is at or after
both, so that an agent it takes to before one of them is `fallen` by definition; what is to be shown is that nothing else goes
back: no new GVT, request, repetition, response or rollback of a cascade.

`SyncInv` follows each write from the send list to the CLP's list.  `Listed`: what is on a send list is of that ALP's
agents.  `WriteAntisFirst`: an anti-message is before the repetition of the write it takes back, in every queue, so it
never undoes the repeated one.  `InSync`: a write on a send list is on its way to the CLP, or refused with the response on its way back, or in the CLP's list
with no anti-message of its agent for it on its way, or stolen, unless it is of a time before `committed`.  As the CLP's GVT is never above `committed`,
neither its cuts nor its dropping of old messages concerns the other writes, and no statement about GVT is needed.

A migration walks the list from its first period.  After n of them, the copy is the first n without their reads (`Copied`), and
what has been collected is the reads of those n (`ReadsUpTo`); a least counterexample replaces induction over n.  For `Insert` to
refuse none of them, two writes of one time must stand in the order of their agents.  That is `WrittenByAgents`, which every
operation on the list keeps as "not greater" is transitive (`TimeWarpAssumption`).

Induction over data is done by a least counterexample: a nonempty set of numbers has a least member (`ListTheorems!MinOfSet`), and so
`FiniteSetHasBound` and `RemainingFacts` (that `Lists!Remaining`, a recursive function, keeps
the elements that are not to go, once each if they were there once each) are proved without the induction theorems.  `Remaining` is used
where `SelectSeq` would be, whose definition the prover cannot expand.

### Routing

For any full tree of CLPs, any ALPs below it, any variables, agents, thresholds and bounds, from `RoutingAssumption` and
`ClpTreeAssumption`: the number of CLPs is odd, so that each inner CLP has two children, and the ALPs are finitely
many, numbered apart from the CLPs, at most two of them below one leaf CLP:

| theorem (`RoutingProofs.tla`) | statement |
|---|---|
| `Invariance` | `Spec => []IInv` |
| `TypeCorrect` | `Spec => []TypeOK` |
| `OnePlaceHolds` | `Spec => []OnePlace` |
| `DirectionsHold` | `Spec => []DirectionsLeadHome` |
| `NothingIsLostHolds` | `Spec => []NothingIsLost` |
| `DetoursAreBoundedHolds` | `Spec => []DetoursAreBounded` |
| `OvertakenOnlyByAMoveHolds` | `Spec => []OvertakenOnlyByAMove` |
| `Refinement` | `Spec => Abstract!Safety`, the initial condition and the steps of `RemoteAccess` |

All of them rest on one account of where things are.  `Placed`: a variable is in one store, or in one message of one link and in
no store.  `Conserved`: the same for each access (in one link or executed) and each response (in one link or arrived).
`Directed`: all tables lead to the variable, or, while it travels from x to y, to x and from x to y.  It is preserved because when a variable goes
one step, only the tables of the two CLPs at the ends of the step have to change; that is a fact of trees
(`ClpTreeTheorems`: a CLP's parent is nearer to the root, and the next CLP on the way to a neighbour of the
host is, but at those two, the next on the way to the host).
`Counted` is needed for moves: a variable leaves by a port with more than two thirds of its accesses, and as there are none at a port
the CLP does not have, it goes to a neighbour, and by one port only.

`DetoursAreBounded` is proved of the hops a message has made and the distance it has still to go together (`Bounded`): at most
the longest way, and two for each move since the request was issued.  Forwarding takes one from the
distance as it adds one to the hops.  A variable that travels counts as still where it came from, but for messages behind it on
the same link, which have gone a step beyond; when it arrives, a message is further away by one step at most, or by that one, and is allowed
two more.

`OvertakenOnlyByAMove` needs the order of messages in the links.  While the variable has not moved since the request was issued,
the request and its anti-message take the same way, so the anti-message is behind the request in one link, or in a link
nearer to the ALP, or the request is executed already.  A migration, taken from the middle of a link, changes the order of no two others.

For `Refinement`, `Sent` changes when an agent issues or cancels, the log when an access is executed, and nothing that
`RemoteAccess` sees in any other step, moves included: what was done to a variable is the same
before, during and after.

### AlpThreads

For any agents, end times and number of rollbacks, from `AlpThreadsAssumption` alone:

| theorem (`AlpThreadsProofs.tla`) | statement |
|---|---|
| `Invariance` | `Spec => []IInv` |
| `TypeCorrect` | `Spec => []TypeOK` |
| `OnlyOneSlips` | `Spec => []OnlyTheOneInHandSlips` |
| `EffectsAreListed` | `Spec => []WhatTakesEffectIsListed` |
| `OwnResponse` | `Spec => []ResponseIsOwn` |

`IInv` has, besides the types:

* `Stages`: a request is queued, in hand or executed, in one of these at most, and has one response at most, which a refused
  one has instead of taking effect.
* `Rolling`: the flags of an agent are up only while the main thread rolls it back, and both are up then.
* `Numbered`: two requests have the same identifier only if that is in `twins`, and are then of different agents.  This is
  where the window in `GetNextID` enters.
* `IsListed`: what has left the ALP is on the send list or recalled.  The main thread takes a request from the list by its identifier, so
  this needs `Numbered`.
* `IsOfThePast`: what is in force is in its agent's timeline, or is being recalled at this moment, or is one
  of the exceptions of `OnlyTheOneInHandSlips`, which follows from it.
* `Waits`: an agent that is not in `revived` has one request under way; the response it awaits is to this one and not there yet;
  when it is woken, the response is the one it has in hand.  `ResponseIsOwn` is the last of these.

### RangeQueries

For any full tree of CLPs, any ALPs, finitely many variables, any values they take, any queries and any number of changes, from
`RangeQueriesAssumption` and `ClpTreeAssumption`:

| theorem (`RangeQueriesProofs.tla`) | statement |
|---|---|
| `TypeCorrect` | `Spec => []TypeOK` |
| `RepliesAreExpectedHolds` | `Spec => []RepliesAreExpected` |
| `CancelledQueriesAreForgottenHolds` | `Spec => []CancelledQueriesAreForgotten` |
| `StaleAnswersAreRolledBackHolds` | `Spec => []StaleAnswersAreRolledBack` |

Each is proved from an invariant that uses those before it:

* `Typed`: messages, notes and trackers are typed, and the links carry what they may: an agent is sent replies to its own queries only, and
  anti-messages go away from the agent (`AllAllowed`).
* `Once`.  For a query, each CLP has one neighbour in the direction of its agent (`Up`).  On this edge of the tree there is at
  most one message about the query: the query on its way out, or the reply on its way back; and if there is one, or the
  CLP waits for replies, the neighbour waits for this CLP.  So a message that looks like a reply is one.
* `AllFollowed`.  Where a query is noted or on its way to, its anti-message is behind it on the same link, or the neighbour
  towards the agent still has it noted as passed on and will send one.  When no anti-message is left, take the CLP
  nearest to the agent that has a note: its neighbour is nearer and has one too, or is the ALP, which has sent its own.
* `SoundState`.  A CLP's range at HERE is that of its values (`OwnRange`), and the last update on a link is what the sender has
  now (`UpdatesAreTrue`).  A port's range contains those of the neighbour's other ports, unless news of one is on the
  way or was replaced (`RangesCover`).  A query is noted as blocked only at ports whose range it does not overlap
  (`BlockedAreOutside`), since an update that makes it overlap rolls it back.  What a reply, a tracker or an answer says of a
  variable is `Settled`: it is right and the query is noted at the variable's CLP, so that the next change rolls it back;
  or it says nothing of it and the query is blocked somewhere on the way there.  In the second case the
  variable is outside the rectangle too, as the ranges from that port on contain each other down to the value; if they do not, take
  the last link where they do not, and news is on its way there or was replaced: `NotYetSeen`.

`crossed`, `replaced` and `misled` occur in these invariants exactly where the properties name them.

### Only model-checked

`AgentsAreAnswered` of `TimeWarp`, which uses `ENABLED`, and the liveness properties: `StopEndsAllThreads` of `LpThreads`, `EveryWaitEnds` and
`RollbacksEnd` of `AlpThreads`, `EveryQueryIsAnswered` of `RangeQueries`, and what `RemoteAccess` promises beyond its steps.  They need
fairness and `ENABLED`, which the prover does not have.  Every other property of a passing run is a theorem.  The fairness
each run assumes is in section 4.


## 6. Findings

Six statements of the code's comments and logs do not hold of the code; `PROJECT.json`
quotes each with its line and names the run: an undone write that stays
(`StateVariable.cpp:223`), a list cut down to a write that is not committed (`StateVariable.cpp:63`), the rollback ignored while its reader is about to wake
(`Alp.cpp:305`), the dequeue of a queue emptied in between (`Alp.cpp:105`), the
deadlock at the end time (`GvtCalculator.cpp:239`), and a message below GVT (`GvtCalculator.cpp:90`).


## 7. Not modelled

* End messages: their handler in the CLP never runs (section 1).  `MpiInterface.cpp:51` may drop
  the ones in a send queue when the simulation stops.
* In `RangeQueries`: changes in the past, which recalculate the later range periods
  (`RangeRoutingTable.cpp:181-192`); the range updates of a migration; times, and the
  clearing of old periods at GVT.
* `Routing` composed with `TimeWarp`: more than one SSV or CLP in `TimeWarp`.  Variables share only the rollback tags
  and the send lists of an ALP, which the model has.
* Calls to MPI that breach `MPI_THREAD_SERIALIZED` (`Simulation.cpp:15`): the barriers of
  `Lp::Run` and `GvtCalculator.cpp:54` are called without the MPI mutex.  What MPI does then is not in this code.
* Range query anti-messages in the GVT counters: `Clp.cpp:173` does not count them on
  sending, though they are counted on receipt.
* What an unlocked container (`HasSendList.cpp:98`) does when two threads change it at
  once: `AlpThreads` takes each access as one step.
* Initial ranges: `Initialisor.cpp:94` has an `else if` that makes them miss a point; `RangeQueries` starts from right ones.
* An agent with identifier 0, which `Clp::InitialiseState`'s `LpId(0, 0)` would be mistaken for:
  the test program numbers from 10001.  The wrap of identifiers at `ULONG_MAX`.
* `fProcessMessageMutex` of `Alp::Receive`: an error-checking mutex that the second cut
  locks again on the same thread; only the main thread takes it.
* Crashes and restarts: nothing is persisted, and MPI ends all processes when one ends.
* Wire formats, values, parsing, set-up, logging and the test agents: data or output only.  More
  than half of the repository's C++ lines are the vendored `spdlog`; the old `Interface` is not part of the build.
