------------------------------- MODULE GvtRing -------------------------------
(***************************************************************************)
(* The GVT computation of GvtCalculator.cpp, after Mattern: a control      *)
(* message goes round the ring of LPs.  The first cut turns each LP red    *)
(* and sums, per LP, the white messages sent to it less those it received. *)
(* If the starter finds some still on their way, a second cut makes each   *)
(* LP receive its own; then the starter takes the least LVT, and the least *)
(* timestamp sent red, for GVT and tells the others.                       *)
(*                                                                         *)
(* The LPs are one CLP, rank 0, which is the starter, and ALPs with one    *)
(* agent each.  Of the simulation only this is kept: an agent sends a      *)
(* request one unit after its LVT and waits; the CLP responds and may send *)
(* a rollback, to a time not before the request's, to another ALP; a       *)
(* response takes the LVT past the request, a rollback takes it back.      *)
(* Anti-messages, which go through the same steps, are left out.           *)
(*                                                                         *)
(* Each LP has its send thread (Stamp, CountAndSend, SendControl) and main *)
(* thread (the rest).  The colour of a message is read twice by the send   *)
(* thread, with the main thread running in between.  A channel and the     *)
(* receive queue behind it are one FIFO queue per pair of LPs.             *)
(*                                                                         *)
(* A cut is one step here and is not one in the code: the send thread      *)
(* stamps and counts without the Lp lock, also while the main thread reads *)
(* the counters, turns the colour and sets the red time.  So the model has *)
(* fewer interleavings than the code.  OneRoundAtATime and ValuesInOrder   *)
(* say nothing of colours and counters, and WhiteAccounting compares what  *)
(* CountAndSend and CountReceived do to them, which a cut only reads.      *)
(***************************************************************************)
EXTENDS Integers, Sequences, SequencesExt, FiniteSetsExt

CONSTANTS
  N,            \* number of LPs
  Infinity,     \* ULONG_MAX and LONG_MAX
  MaxRequests,  \* bound: requests an agent makes
  MaxRounds     \* bound: GVT computations

ASSUME GvtRingAssumption ==
  /\ N \in Nat /\ N > 1
  /\ MaxRequests \in Nat /\ MaxRounds \in Nat
  /\ Infinity \in Nat /\ Infinity > 2 * MaxRequests

LPs     == 0 .. N - 1
Starter == 0
Alps    == LPs \ {Starter}
NextLp(i) == (i + 1) % N
Times   == 0 .. 2 * MaxRequests

VARIABLES
  lvt,          \* per LP, what GetLvt returns
  waiting,      \* per LP, its agent waits for a response
  made,         \* per LP, requests made
  colour,       \* per LP, fColour
  redTime,      \* per LP, fRedTime
  counter,      \* per LP, fWhiteTransientMessageCounter: a map that starts empty
  sendQueue,    \* per LP, fSendMessageQueue
  stamped,      \* per LP, the message its send thread has in hand, with its colour
  controlQueue, \* per LP, fSendControlMessageQueue
  channel,      \* per pair of LPs, messages on their way
  held,         \* per LP, the second-cut message its handler is working on
  accepting,    \* fIsAcceptingRequests of the starter
  round,        \* GVT computations begun
  gvt,          \* per LP, fGVT
  applied,      \* per LP, the last computation whose value it has set
  drift         \* history variable: per LP, messages to it counted other than stamped

lpVars  == <<lvt, waiting, made>>
gvtVars == <<colour, redTime, counter, held, accepting, round, gvt, applied>>
netVars == <<sendQueue, stamped, controlQueue, channel>>
vars    == <<lpVars, gvtVars, netVars, drift>>

-----------------------------------------------------------------------------
None == [type |-> "none"]

Sim(type, time, to) == [type |-> type, time |-> time, to |-> to]

Control(cut, minTime, redMin, count, to) ==
  [type |-> "control", cut |-> cut, minTime |-> minTime, redMin |-> redMin,
   count |-> count, to |-> to]

Value(v, n, to) == [type |-> "value", gvt |-> v, round |-> n, to |-> to]

IsSim(m) == m.type \in {"request", "response", "rollback"}

Init ==
  /\ lvt          = [i \in LPs |-> IF i = Starter THEN Infinity ELSE 0]
  /\ waiting      = [i \in LPs |-> FALSE]
  /\ made         = [i \in LPs |-> 0]
  /\ colour       = [i \in LPs |-> "white"]
  /\ redTime      = [i \in LPs |-> Infinity]
  /\ counter      = [i \in LPs |-> <<>>]
  /\ sendQueue    = [i \in LPs |-> <<>>]
  /\ stamped      = [i \in LPs |-> None]
  /\ controlQueue = [i \in LPs |-> <<>>]
  /\ channel      = [i \in LPs |-> [j \in LPs |-> <<>>]]
  /\ held         = [i \in LPs |-> None]
  /\ accepting    = TRUE
  /\ round        = 0
  /\ gvt          = [i \in LPs |-> 0]
  /\ applied      = [i \in LPs |-> 0]
  /\ drift        = [i \in LPs |-> 0]

-----------------------------------------------------------------------------
(* The counters.  A map has an entry from its first update on; where there *)
(* is none, GetWhiteTransientMessageCounter returns -1.                    *)

Entry(i, j) == IF j \in DOMAIN counter[i] THEN counter[i][j] ELSE 0

CountOf(i, j) == IF j \in DOMAIN counter[i] THEN counter[i][j] ELSE -1

AddTo(i, j, n) ==
  [counter EXCEPT ![i] = [k \in DOMAIN @ \union {j} |->
                            IF k = j THEN Entry(i, j) + n ELSE @[k]]]

-----------------------------------------------------------------------------
(* The channels when m has been sent from i to j, or the next message from j *)
(* to i received; the control queues when m is to be sent from i.            *)

Put(i, j, m)  == [channel EXCEPT ![i][j] = Append(@, m)]

Taken(j, i)   == [channel EXCEPT ![j][i] = Tail(@)]

Queueing(i, m) == [controlQueue EXCEPT ![i] = Append(@, m)]

-----------------------------------------------------------------------------
(* The agent of ALP i.                                                     *)

MakeRequest(i) ==
  /\ ~waiting[i]
  /\ made[i] < MaxRequests
  /\ made'      = [made EXCEPT ![i] = @ + 1]
  /\ waiting'   = [waiting EXCEPT ![i] = TRUE]
  /\ sendQueue' = [sendQueue EXCEPT ![i] =
                     Append(@, Sim("request", lvt[i] + 1, Starter))]
  /\ UNCHANGED <<lvt, gvtVars, stamped, controlQueue, channel, drift>>

-----------------------------------------------------------------------------
(* The send thread of LP i.  Control messages go first.                    *)

\* Variant of SendControl: last in, first out.
SendLastControl(i) ==
  /\ stamped[i] = None
  /\ controlQueue[i] # <<>>
  /\ LET m == Last(controlQueue[i])
     IN channel' = Put(i, m.to, m)
  /\ controlQueue' = [controlQueue EXCEPT ![i] = Front(@)]
  /\ UNCHANGED <<lpVars, gvtVars, sendQueue, stamped, drift>>

\* Clp::Send and Alp::Send, of a control message.
SendControl(i) ==
  /\ stamped[i] = None
  /\ controlQueue[i] # <<>>
  /\ LET m == Head(controlQueue[i])
     IN channel' = Put(i, m.to, m)
  /\ controlQueue' = [controlQueue EXCEPT ![i] = Tail(@)]
  /\ UNCHANGED <<lpVars, gvtVars, sendQueue, stamped, drift>>

\* Lp::PreProcessSendMessage up to SetMatternColour.
Stamp(i) ==
  /\ stamped[i] = None
  /\ controlQueue[i] = <<>>
  /\ sendQueue[i] # <<>>
  /\ stamped' = [stamped EXCEPT ![i] =
                   [type |-> "stamped", msg |-> Head(sendQueue[i]), colour |-> colour[i]]]
  /\ sendQueue' = [sendQueue EXCEPT ![i] = Tail(@)]
  /\ UNCHANGED <<lpVars, gvtVars, controlQueue, channel, drift>>

\* The rest of it, which looks at the LP's colour again, and the MPI send.
CountAndSend(i) ==
  /\ stamped[i] # None
  /\ LET m == stamped[i].msg
         c == stamped[i].colour
     IN /\ IF colour[i] = "white"
           THEN /\ counter' = AddTo(i, m.to, 1)
                /\ drift'   = [drift EXCEPT ![m.to] = IF c = "white" THEN @ ELSE @ + 1]
                /\ UNCHANGED redTime
           ELSE /\ redTime' = [redTime EXCEPT ![i] = Min({@, m.time})]
                /\ drift'   = [drift EXCEPT ![m.to] = IF c = "white" THEN @ - 1 ELSE @]
                /\ UNCHANGED counter
        /\ channel' = Put(i, m.to, [type |-> m.type, time |-> m.time, to |-> m.to,
                                     colour |-> c])
  /\ stamped' = [stamped EXCEPT ![i] = None]
  /\ UNCHANGED <<lpVars, colour, held, accepting, round, gvt, applied, sendQueue, controlQueue>>

-----------------------------------------------------------------------------
(* The main thread of LP i: Receive().  Inside the second cut it goes on   *)
(* receiving while the count in the message, plus its own, is above zero.  *)

StillOutstanding(i) == held[i].count[i] + CountOf(i, i) > 0

MayReceive(i) == held[i] # None => StillOutstanding(i)

IsNext(j, i, type) ==
  /\ MayReceive(i)
  /\ channel[j][i] # <<>>
  /\ Head(channel[j][i]).type = type

\* Variant of CountReceived that takes every message for a white one.
CountAnyReceived(i, m) == AddTo(i, i, -1)

\* Lp::PreProcessReceiveMessage.
CountReceived(i, m) == IF m.colour = "white" THEN AddTo(i, i, -1) ELSE counter

\* The CLP responds, and may send a rollback to another ALP.
ClpRequest(j) ==
  /\ IsNext(j, Starter, "request")
  /\ channel' = Taken(j, Starter)
  /\ LET m        == Head(channel[j][Starter])
         response == Sim("response", m.time, j)
     IN /\ counter' = CountReceived(Starter, m)
        /\ \/ sendQueue' = [sendQueue EXCEPT ![Starter] = Append(@, response)]
           \/ \E k \in Alps \ {j}, t \in m.time .. Max(Times) :
                sendQueue' = [sendQueue EXCEPT ![Starter] =
                                Append(Append(@, response), Sim("rollback", t, k))]
  /\ UNCHANGED <<lpVars, colour, redTime, held, accepting, round, gvt, applied,
                 stamped, controlQueue, drift>>

\* A response that is awaited lets the agent go on.
AlpResponse(i) ==
  /\ IsNext(Starter, i, "response")
  /\ channel' = Taken(Starter, i)
  /\ LET m == Head(channel[Starter][i])
         awaited == waiting[i] /\ m.time = lvt[i] + 1
     IN /\ counter' = CountReceived(i, m)
        /\ lvt'     = [lvt EXCEPT ![i] = IF awaited THEN m.time + 1 ELSE @]
        /\ waiting' = [waiting EXCEPT ![i] = @ /\ ~awaited]
  /\ UNCHANGED <<made, colour, redTime, held, accepting, round, gvt, applied,
                 sendQueue, stamped, controlQueue, drift>>

\* A rollback to the LVT or before takes the agent back to before the read it
\* names; one to a later time is ignored.
AlpRollback(i) ==
  /\ IsNext(Starter, i, "rollback")
  /\ channel' = Taken(Starter, i)
  /\ LET m == Head(channel[Starter][i])
     IN /\ counter' = CountReceived(i, m)
        /\ IF m.time <= lvt[i]
           THEN /\ lvt'     = [lvt EXCEPT ![i] = m.time - 1]
                /\ waiting' = [waiting EXCEPT ![i] = FALSE]
           ELSE UNCHANGED <<lvt, waiting>>
  /\ UNCHANGED <<made, colour, redTime, held, accepting, round, gvt, applied,
                 sendQueue, stamped, controlQueue, drift>>

-----------------------------------------------------------------------------
(* GvtCalculator.                                                          *)

\* Variant of StartRound, also while a round is going on.
StartWhenever ==
  /\ MayReceive(Starter)
  /\ round < MaxRounds
  /\ round'        = round + 1
  /\ accepting'    = FALSE
  /\ colour'       = [colour EXCEPT ![Starter] = "white"]
  /\ controlQueue' = Queueing(Starter, Control("first", Infinity, Infinity,
                                               [k \in LPs |-> 0], NextLp(Starter)))
  /\ UNCHANGED <<lpVars, redTime, counter, held, gvt, applied, sendQueue, stamped,
                 channel, drift>>

\* ProcessMessage(GvtRequestMessage), at the starter; any ALP may have asked.
StartRound ==
  /\ accepting
  /\ MayReceive(Starter)
  /\ round < MaxRounds
  /\ round'        = round + 1
  /\ accepting'    = FALSE
  /\ colour'       = [colour EXCEPT ![Starter] = "white"]
  /\ controlQueue' = Queueing(Starter, Control("first", Infinity, Infinity,
                                               [k \in LPs |-> 0], NextLp(Starter)))
  /\ UNCHANGED <<lpVars, redTime, counter, held, gvt, applied, sendQueue, stamped,
                 channel, drift>>

\* Variant of SendAndSetGvt that takes the red messages alone.
SendAndSetRedMin(m) ==
  /\ accepting'    = TRUE
  /\ controlQueue' = [controlQueue EXCEPT ![Starter] =
                        @ \o SetToSeq({Value(m.redMin, round, k) : k \in Alps})]
  /\ gvt'          = [gvt EXCEPT ![Starter] = m.redMin]
  /\ applied'      = [applied EXCEPT ![Starter] = round]

\* SendAndSetGvt, of the control message m.
SendAndSetGvt(m) ==
  LET v == IF m.minTime < m.redMin THEN m.minTime ELSE m.redMin
  IN /\ accepting'    = TRUE
     /\ controlQueue' = [controlQueue EXCEPT ![Starter] =
                           @ \o SetToSeq({Value(v, round, k) : k \in Alps})]
     /\ gvt'          = [gvt EXCEPT ![Starter] = v]
     /\ applied'      = [applied EXCEPT ![Starter] = round]

\* The message as the LP passes it on, or keeps it.
Pass(i, m) ==
  /\ controlQueue' = Queueing(i, [m EXCEPT !.to = NextLp(i)])
  /\ UNCHANGED <<accepting, gvt, applied>>

\* ProcessFirstCutGvtControl.  In the code the send thread may stamp and count between the
\* reading of the counters, the turn of the colour and the reset of the red time.
FirstCut(j, i) ==
  /\ IsNext(j, i, "control")
  /\ LET m   == Head(channel[j][i])
         sum == [m EXCEPT !.minTime = Min({@, lvt[i]}),
                          !.count   = [k \in LPs |-> @[k] + CountOf(i, k)]]
     IN /\ m.cut = "first"
        /\ redTime' = [redTime EXCEPT ![i] = Infinity]
        /\ \/ /\ i # Starter
              /\ Pass(i, sum)
              /\ colour' = [colour EXCEPT ![i] = "red"]
           \/ /\ i = Starter
              /\ \E k \in DOMAIN counter[i] : sum.count[k] > 0
              /\ Pass(i, [sum EXCEPT !.cut = "second"])
              /\ colour' = [colour EXCEPT ![i] = "red"]
           \/ /\ i = Starter
              /\ \A k \in DOMAIN counter[i] : sum.count[k] <= 0
              /\ SendAndSetGvt(sum)
              /\ colour' = [colour EXCEPT ![i] = "white"]
  /\ channel' = Taken(j, i)
  /\ UNCHANGED <<lpVars, counter, held, round, sendQueue, stamped, drift>>

\* ProcessSecondCutGvtControl: up to the loop...
SecondCut(j, i) ==
  /\ IsNext(j, i, "control")
  /\ Head(channel[j][i]).cut = "second"
  /\ held' = [held EXCEPT ![i] = Head(channel[j][i])]
  /\ channel' = Taken(j, i)
  /\ UNCHANGED <<lpVars, colour, redTime, counter, accepting, round, gvt, applied,
                 sendQueue, stamped, controlQueue, drift>>

\* ...and after it.  Here too the send thread may stamp and count between the reading of the
\* red time and the turn of the colour.
SecondCutDone(i) ==
  /\ held[i] # None
  /\ ~StillOutstanding(i)
  /\ LET done == [held[i] EXCEPT !.minTime  = Min({@, lvt[i]}),
                                 !.redMin   = Min({@, redTime[i]}),
                                 !.count[i] = 0]
     IN IF i = Starter THEN SendAndSetGvt(done) ELSE Pass(i, done)
  /\ colour' = [colour EXCEPT ![i] = "white"]
  /\ held'   = [held EXCEPT ![i] = None]
  /\ UNCHANGED <<lpVars, redTime, counter, round, sendQueue, stamped, channel, drift>>

\* ProcessMessage(GvtValueMessage), short of the end time.
SetValue(i) ==
  /\ IsNext(Starter, i, "value")
  /\ LET m == Head(channel[Starter][i])
     IN /\ gvt'     = [gvt EXCEPT ![i] = m.gvt]
        /\ applied' = [applied EXCEPT ![i] = m.round]
  /\ colour'  = [colour EXCEPT ![i] = "white"]
  /\ channel' = Taken(Starter, i)
  /\ UNCHANGED <<lpVars, redTime, counter, held, accepting, round, sendQueue, stamped,
                 controlQueue, drift>>

-----------------------------------------------------------------------------
Next ==
  \/ \E i \in Alps : MakeRequest(i) \/ AlpResponse(i) \/ AlpRollback(i) \/ SetValue(i)
  \/ \E j \in Alps : ClpRequest(j)
  \/ \E i \in LPs : SendControl(i) \/ Stamp(i) \/ CountAndSend(i) \/ SecondCutDone(i)
  \/ \E i, j \in LPs : FirstCut(j, i) \/ SecondCut(j, i)
  \/ StartRound

Spec == Init /\ [][Next]_vars

-----------------------------------------------------------------------------
(* Properties.                                                             *)

OnTheWay ==
  UNION {UNION {ToSet(channel[i][j]) : j \in LPs} : i \in LPs}

\* Every variable holds a value of its type.
TypeOK ==
  /\ \A i \in LPs :
       /\ lvt[i] \in Times \union {Infinity}
       /\ waiting[i] \in BOOLEAN /\ made[i] \in 0 .. MaxRequests
       /\ colour[i] \in {"white", "red"} /\ redTime[i] \in Nat
       /\ DOMAIN counter[i] \subseteq LPs
       /\ gvt[i] \in Times /\ applied[i] \in 0 .. round
  /\ accepting \in BOOLEAN /\ round \in 0 .. MaxRounds

\* The control messages in a queue, by position; those in LP i's queue, and those
\* on their way from i to j.
ControlsIn(s) == {k \in DOMAIN s : s[k].type = "control"}

Queued(i)    == ControlsIn(controlQueue[i])
Flying(i, j) == ControlsIn(channel[i][j])

\* All places where there is a control message: in a queue, on its way, in the
\* hands of an LP.
ControlPlaces ==
  LET At(where, i, j, indexes) ==
        [where : {where}, from : {i}, to : {j}, index : indexes]
  IN UNION ({At("queue", i, i, Queued(i)) : i \in LPs}
              \union {At("channel", i, j, Flying(i, j)) : i \in LPs, j \in LPs}
              \union {At("held", i, i, {0}) : i \in {i \in LPs : held[i] # None}})

\* There is one control message while the starter accepts no request, and none
\* while it does: rounds never overlap, whatever requests arrive, also inside
\* the second cut.
OneRoundAtATime ==
  /\ \A p, q \in ControlPlaces : p = q
  /\ accepting <=> ControlPlaces = {}

\* The sum of f over the LPs.
Total(f) ==
  LET upTo[n \in 0 .. N] == IF n = 0 THEN 0 ELSE upTo[n - 1] + f[n - 1]
  IN upTo[N]

\* The white messages in a channel, by position.
WhitesIn(s) == {k \in DOMAIN s : IsSim(s[k]) /\ s[k].colour = "white"}

Counted(j)       == Total([i \in LPs |-> Entry(i, j)])
WhiteOnTheWay(j) == Total([i \in LPs |-> Cardinality(WhitesIn(channel[i][j]))])

\* The counters of all LPs together know how many white messages are on their
\* way to each LP, but for the messages that a turn of colour caught between
\* being stamped and being counted: nothing else makes the count drift.
WhiteAccounting == \A j \in LPs : Counted(j) = WhiteOnTheWay(j) + drift[j]

\* Every LP sets every GVT value, in the order in which they were computed.
ValuesInOrder ==
  [][\A i \in LPs : applied'[i] \in {applied[i], applied[i] + 1}]_applied

\* "Its timestamp is considered in GVT calculation" (SimulationMessage.h), and a
\* rollback "does need to be considered in GVT calculations" (RollbackMessage.h):
\* no simulation message on its way is below the GVT that was computed.
NoMessageBelowGvt ==
  \A m \in OnTheWay : IsSim(m) => m.time >= gvt[Starter]
=============================================================================
