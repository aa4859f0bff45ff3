--------------------------- MODULE GvtRingProofs ---------------------------
(***************************************************************************)
(* The GVT computation, for any number of LPs, of requests and of rounds:  *)
(* the theorems are at the end.                                            *)
(*                                                                         *)
(* The invariant has four parts.  TokenInv says where the control message  *)
(* may be; it follows from itself, but only on queues and channels that    *)
(* are sequences and hold messages of known kinds, which is ShapeInv, and  *)
(* the two are IInv.  TypedInv bounds what the variables and the messages  *)
(* hold: a control message knows an LVT once it has been through an ALP.   *)
(* ValueInv says where the values are that an ALP has not applied yet.     *)
(* WhiteAccounting is inductive as it stands, given the other parts.       *)
(***************************************************************************)
EXTENDS GvtRing, ListTheorems

\* The shapes of messages, as far as the control messages' way depends on them.
IsSimMessage(m) == m.type \in {"request", "response", "rollback"} /\ m.to \in LPs

IsControlMessage(m) ==
  /\ DOMAIN m = {"type", "cut", "minTime", "redMin", "count", "to"}
  /\ m.type = "control" /\ m.to \in LPs

IsValueMessage(m) == m.type = "value" /\ m.to \in LPs

\* A list of messages to be sent, of control messages and values, and of messages
\* on their way.
SimList(s) == IsList(s) /\ \A k \in DOMAIN s : IsSimMessage(s[k])

ControlList(s) ==
  IsList(s) /\ \A k \in DOMAIN s : IsControlMessage(s[k]) \/ IsValueMessage(s[k])

ChannelList(s) ==
  IsList(s) /\ \A k \in ControlsIn(s) : IsControlMessage(s[k])

\* The queues and channels are lists of messages of their kind.
ShapeInv ==
  /\ DOMAIN sendQueue = LPs /\ DOMAIN controlQueue = LPs /\ DOMAIN channel = LPs
  /\ DOMAIN stamped = LPs /\ DOMAIN held = LPs
  /\ \A i \in LPs : DOMAIN channel[i] = LPs
  /\ \A i \in LPs : SimList(sendQueue[i]) /\ ControlList(controlQueue[i])
  /\ \A i, j \in LPs : ChannelList(channel[i][j])
  /\ \A i \in LPs : stamped[i] = None \/ IsSimMessage(stamped[i].msg)
  /\ \A i \in LPs : held[i] = None \/ IsControlMessage(held[i])

AtMostOne(S) == \A k, l \in S : k = l

\* The control message is in at most one place, and where the starter accepts
\* requests in none: OneRoundAtATime, place by place.
TokenInv ==
  /\ \A i, j \in LPs : AtMostOne(Queued(i)) /\ AtMostOne(Flying(i, j))
  /\ \A i, j \in LPs : Queued(i) # {} /\ Queued(j) # {} => i = j
  /\ \A a, b, c, d \in LPs : Flying(a, b) # {} /\ Flying(c, d) # {} => a = c /\ b = d
  /\ \A i, j \in LPs : held[i] # None /\ held[j] # None => i = j
  /\ \A i, a, b \in LPs : Queued(i) = {} \/ Flying(a, b) = {}
  /\ \A i, j \in LPs : Queued(i) = {} \/ held[j] = None
  /\ \A i, a, b \in LPs : held[i] = None \/ Flying(a, b) = {}
  /\ accepting <=> \A i, j \in LPs : Queued(i) = {} /\ Flying(i, j) = {} /\ held[i] = None

IInv == ShapeInv /\ TokenInv

-----------------------------------------------------------------------------
\* The LPs as a finite ring.
LEMMA StarterIsLp == Starter \in LPs /\ Alps \subseteq LPs /\ IsFiniteSet(Alps)
<1>1. Starter \in LPs /\ Alps \subseteq LPs
  BY GvtRingAssumption DEF Starter, LPs, Alps
<1>2. IsFiniteSet(LPs)
  BY GvtRingAssumption, FS_Interval DEF LPs
<1> QED
  BY <1>1, <1>2, FS_Subset

\* The ring closes: the LP after an LP is an LP (GvtCalculator's constructor).
LEMMA NextLpIsLp == \A i \in LPs : NextLp(i) \in LPs
BY GvtRingAssumption DEF LPs, NextLp

\* The queues and channels start as lists without elements.
LEMMA EmptyList == IsList(<<>>) /\ DOMAIN <<>> = {}
<1>1. <<>> \in Seq({}) /\ Len(<<>>) = 0
  BY EmptySeq
<1> QED
  BY <1>1, SeqOfRange, LenProperties DEF IsList

\* The invariant holds when the LPs are constructed.
LEMMA InitInv == Init => IInv
<1> SUFFICES ASSUME Init PROVE IInv
  OBVIOUS
<1> USE DEF Init
<1>1. \A i \in LPs : /\ sendQueue[i] = <<>> /\ controlQueue[i] = <<>>
                     /\ stamped[i] = None /\ held[i] = None
                     /\ DOMAIN channel[i] = LPs /\ \A j \in LPs : channel[i][j] = <<>>
  OBVIOUS
<1>a. ShapeInv
  BY <1>1, EmptyList DEF ShapeInv, SimList, ControlList, ChannelList, ControlsIn
<1>2. \A i, j \in LPs : Queued(i) = {} /\ Flying(i, j) = {} /\ held[i] = None
  BY <1>1, EmptyList, Zenon DEF Queued, Flying, ControlsIn
<1>3. TokenInv
  BY <1>2 DEF TokenInv, AtMostOne
<1> QED
  BY <1>a, <1>3 DEF IInv

\* The control message's places, one by one, are the places of OneRoundAtATime.
LEMMA TokenIsOneRound == TokenInv => OneRoundAtATime
<1> SUFFICES ASSUME TokenInv PROVE OneRoundAtATime
  OBVIOUS
<1> DEFINE InQueues == {[where : {"queue"}, from : {i}, to : {i}, index : Queued(i)] : i \in LPs}
           Between(i, j) == [where : {"channel"}, from : {i}, to : {j}, index : Flying(i, j)]
           InChannels == {Between(i, j) : i \in LPs, j \in LPs}
           InHands == {[where : {"held"}, from : {i}, to : {i}, index : {0}] :
                         i \in {i \in LPs : held[i] # None}}
<1>0. ControlPlaces = UNION (InQueues \union InChannels \union InHands)
  BY DEF ControlPlaces
<1>1. ASSUME NEW p \in ControlPlaces
      PROVE  /\ p = [where |-> p.where, from |-> p.from, to |-> p.to, index |-> p.index]
             /\ \/ /\ p.where = "queue" /\ p.from \in LPs /\ p.to = p.from
                   /\ p.index \in Queued(p.from)
                \/ /\ p.where = "channel" /\ p.from \in LPs /\ p.to \in LPs
                   /\ p.index \in Flying(p.from, p.to)
                \/ /\ p.where = "held" /\ p.from \in LPs /\ held[p.from] # None
                   /\ p.to = p.from /\ p.index = 0
  <2> HIDE DEF InQueues, InChannels, InHands
  <2>1. PICK S \in InQueues \union InChannels \union InHands : p \in S
    BY <1>0, <1>1
  <2>2. CASE S \in InQueues
    <3>1. PICK i \in LPs : S = [where : {"queue"}, from : {i}, to : {i}, index : Queued(i)]
      BY <2>2 DEF InQueues
    <3> QED
      BY <2>1, <3>1
  <2>3. CASE S \in InChannels
    <3>1. PICK i \in LPs, j \in LPs :
             S = [where : {"channel"}, from : {i}, to : {j}, index : Flying(i, j)]
      BY <2>3 DEF InChannels
    <3> QED
      BY <2>1, <3>1
  <2>4. CASE S \in InHands
    <3>1. PICK i \in {i \in LPs : held[i] # None} :
             S = [where : {"held"}, from : {i}, to : {i}, index : {0}]
      BY <2>4 DEF InHands
    <3> QED
      BY <2>1, <3>1
  <2> QED
    BY <2>1, <2>2, <2>3, <2>4
<1>3. \A p, q \in ControlPlaces : p = q
  <2> SUFFICES ASSUME NEW p \in ControlPlaces, NEW q \in ControlPlaces PROVE p = q
    OBVIOUS
  <2>1. p.where = q.where /\ p.from = q.from /\ p.to = q.to /\ p.index = q.index
    BY <1>1, StarterIsLp DEF TokenInv, AtMostOne
  <2> QED
    BY <1>1, <2>1 DEF TokenInv, AtMostOne
<1>4. accepting => ControlPlaces = {}
  BY <1>1, StarterIsLp DEF TokenInv, AtMostOne
<1>5. ControlPlaces = {} => accepting
  <2> SUFFICES ASSUME ControlPlaces = {}, NEW i \in LPs, NEW j \in LPs
               PROVE  Queued(i) = {} /\ Flying(i, j) = {} /\ held[i] = None
    BY DEF TokenInv
  <2>1. Queued(i) = {}
    <3> SUFFICES ASSUME NEW k \in Queued(i) PROVE FALSE
      OBVIOUS
    <3> DEFINE r == [where |-> "queue", from |-> i, to |-> i, index |-> k]
               S == [where : {"queue"}, from : {i}, to : {i}, index : Queued(i)]
    <3>1. r \in S
      OBVIOUS
    <3>2. S \in InQueues
      OBVIOUS
    <3> HIDE DEF r, S, InQueues, InChannels, InHands
    <3> QED
      BY <3>1, <3>2, <1>0, Zenon
  <2>2. Flying(i, j) = {}
    <3> SUFFICES ASSUME NEW k \in Flying(i, j) PROVE FALSE
      OBVIOUS
    <3> DEFINE r == [where |-> "channel", from |-> i, to |-> j, index |-> k]
               S == Between(i, j)
    <3>1. r \in S
      OBVIOUS
    <3>2. S \in InChannels
      <4> HIDE DEF Between
      <4> QED
        OBVIOUS
    <3> HIDE DEF r, S, InQueues, InChannels, InHands
    <3> QED
      BY <3>1, <3>2, <1>0, Zenon
  <2>3. held[i] = None
    <3> SUFFICES ASSUME held[i] # None PROVE FALSE
      OBVIOUS
    <3> DEFINE r == [where |-> "held", from |-> i, to |-> i, index |-> 0]
               S == [where : {"held"}, from : {i}, to : {i}, index : {0}]
    <3>1. r \in S
      OBVIOUS
    <3>2. S \in InHands
      OBVIOUS
    <3> HIDE DEF r, S, InQueues, InChannels, InHands
    <3> QED
      BY <3>1, <3>2, <1>0, Zenon
  <2> QED
    BY <2>1, <2>2, <2>3
<1> QED
  BY <1>3, <1>4, <1>5 DEF OneRoundAtATime
-----------------------------------------------------------------------------
(* How appending to a list and taking its head change its control messages. *)

\* What is put on a queue adds its own place and moves no other (MessageQueue.cpp).
LEMMA AppendControl ==
  ASSUME NEW s, IsList(s), NEW m
  PROVE  /\ m.type # "control" => ControlsIn(Append(s, m)) = ControlsIn(s)
         /\ m.type = "control" => ControlsIn(Append(s, m)) = ControlsIn(s) \union {Len(s) + 1}
<1>1. /\ DOMAIN Append(s, m) = DOMAIN s \union {Len(s) + 1}
      /\ \A k \in DOMAIN s : Append(s, m)[k] = s[k]
      /\ Append(s, m)[Len(s) + 1] = m
      /\ Len(s) + 1 \notin DOMAIN s
  BY AppendList
<1> HIDE DEF IsList
<1> QED
  BY <1>1, Zenon DEF ControlsIn

\* What is taken from a queue with one control message leaves it or takes it along.
LEMMA TailControl ==
  ASSUME NEW s, IsList(s), s # <<>>, AtMostOne(ControlsIn(s))
  PROVE  /\ AtMostOne(ControlsIn(Tail(s)))
         /\ Head(s).type # "control" => (ControlsIn(Tail(s)) = {} <=> ControlsIn(s) = {})
         /\ Head(s).type = "control" => ControlsIn(Tail(s)) = {} /\ ControlsIn(s) # {}
<1>1. /\ 1 \in DOMAIN s /\ Head(s) = s[1] /\ DOMAIN Tail(s) \subseteq Nat
      /\ \A k \in DOMAIN Tail(s) : k + 1 \in DOMAIN s /\ Tail(s)[k] = s[k + 1]
      /\ \A k \in DOMAIN s : k # 1 => k - 1 \in DOMAIN Tail(s) /\ s[k] = Tail(s)[k - 1]
  BY TailList
<1>2. ASSUME NEW k \in ControlsIn(Tail(s)) PROVE k \in Nat /\ k + 1 \in ControlsIn(s)
  BY <1>1, <1>2 DEF ControlsIn
<1>3. AtMostOne(ControlsIn(Tail(s)))
  <2> SUFFICES ASSUME NEW k \in ControlsIn(Tail(s)), NEW l \in ControlsIn(Tail(s)) PROVE k = l
    BY DEF AtMostOne
  <2>1. k + 1 = l + 1 /\ k \in Nat /\ l \in Nat
    BY <1>2 DEF AtMostOne
  <2> QED
    BY <2>1
<1>4. ASSUME Head(s).type # "control", NEW k \in ControlsIn(s) PROVE ControlsIn(Tail(s)) # {}
  BY <1>1, <1>4 DEF ControlsIn
<1>5. ASSUME Head(s).type = "control" PROVE 1 \in ControlsIn(s) /\ ControlsIn(Tail(s)) = {}
  <2>1. 1 \in ControlsIn(s)
    BY <1>1, <1>5 DEF ControlsIn
  <2>2. ASSUME NEW k \in ControlsIn(Tail(s)) PROVE FALSE
    <3>1. k + 1 = 1 /\ k \in Nat /\ k \in DOMAIN Tail(s) /\ Tail(s)[k] = s[k + 1]
      BY <1>1, <1>2, <2>1 DEF AtMostOne, ControlsIn
    <3>2. \A n \in DOMAIN s : n \in Nat /\ n > 0
      BY LenProperties DEF IsList
    <3>3. \A n \in DOMAIN Tail(s) : n > 0
      BY TailList, LenProperties DEF IsList
    <3> QED
      BY <3>1, <3>3
  <2> QED
    BY <2>1, <2>2
<1> QED
  BY <1>2, <1>3, <1>4, <1>5, Zenon

\* Queues keep the kinds of messages they are for when one is put on or taken off.
LEMMA ListSteps ==
  ASSUME NEW s, NEW m
  PROVE  /\ SimList(s) /\ IsSimMessage(m) => SimList(Append(s, m))
         /\ SimList(s) /\ s # <<>> => SimList(Tail(s)) /\ IsSimMessage(Head(s))
         /\ ControlList(s) /\ (IsControlMessage(m) \/ IsValueMessage(m)) =>
               ControlList(Append(s, m))
         /\ ControlList(s) /\ s # <<>> =>
               ControlList(Tail(s)) /\ (IsControlMessage(Head(s)) \/ IsValueMessage(Head(s)))
         /\ ChannelList(s) /\ (m.type = "control" => IsControlMessage(m)) =>
               ChannelList(Append(s, m))
         /\ ChannelList(s) /\ s # <<>> =>
               ChannelList(Tail(s)) /\ (Head(s).type = "control" => IsControlMessage(Head(s)))
<1>1. CASE IsList(s)
  <2>1. /\ IsList(Append(s, m))
        /\ DOMAIN Append(s, m) = DOMAIN s \union {Len(s) + 1}
        /\ \A k \in DOMAIN s : Append(s, m)[k] = s[k]
        /\ Append(s, m)[Len(s) + 1] = m
    BY <1>1, AppendList
  <2>2. s # <<>> => /\ IsList(Tail(s)) /\ 1 \in DOMAIN s /\ Head(s) = s[1]
                    /\ \A k \in DOMAIN Tail(s) : k + 1 \in DOMAIN s /\ Tail(s)[k] = s[k + 1]
    BY <1>1, TailList
  <2> HIDE DEF IsList
  <2>3. SimList(s) /\ IsSimMessage(m) => SimList(Append(s, m))
    BY <2>1, Zenon DEF SimList
  <2>4. ControlList(s) /\ (IsControlMessage(m) \/ IsValueMessage(m)) => ControlList(Append(s, m))
    BY <2>1, Zenon DEF ControlList
  <2>5. ChannelList(s) /\ (m.type = "control" => IsControlMessage(m)) =>
          ChannelList(Append(s, m))
    BY <2>1, Zenon DEF ChannelList, ControlsIn
  <2>6. SimList(s) /\ s # <<>> => SimList(Tail(s)) /\ IsSimMessage(Head(s))
    BY <2>2, Zenon DEF SimList
  <2>7. ControlList(s) /\ s # <<>> =>
           ControlList(Tail(s)) /\ (IsControlMessage(Head(s)) \/ IsValueMessage(Head(s)))
    BY <2>2, Zenon DEF ControlList
  <2>8. ChannelList(s) /\ s # <<>> =>
           ChannelList(Tail(s)) /\ (Head(s).type = "control" => IsControlMessage(Head(s)))
    BY <2>2, Zenon DEF ChannelList, ControlsIn
  <2> QED
    BY <2>3, <2>4, <2>5, <2>6, <2>7, <2>8
<1>2. CASE ~IsList(s)
  BY <1>2 DEF SimList, ControlList, ChannelList
<1> QED
  BY <1>1, <1>2
-----------------------------------------------------------------------------
(* What the actions do to the channels and queues. *)

\* An LP takes the next message of a channel.
LEMMA TakenInv ==
  ASSUME IInv, NEW j \in LPs, NEW i \in LPs, channel[j][i] # <<>>, channel' = Taken(j, i)
  PROVE  /\ DOMAIN channel' = LPs /\ \A a \in LPs : DOMAIN channel'[a] = LPs
         /\ \A a, b \in LPs : ChannelList(channel'[a][b]) /\ AtMostOne(Flying(a, b)')
         /\ Head(channel[j][i]).type # "control" =>
              \A a, b \in LPs : Flying(a, b)' = {} <=> Flying(a, b) = {}
         /\ Head(channel[j][i]).type = "control" =>
              /\ IsControlMessage(Head(channel[j][i]))
              /\ Flying(j, i) # {}
              /\ \A a, b \in LPs : Flying(a, b)' = {}
<1> DEFINE s == channel[j][i]
<1>1. /\ DOMAIN channel' = LPs
      /\ \A a, b \in LPs : /\ DOMAIN channel'[a] = LPs
                           /\ channel'[a][b] = IF a = j /\ b = i THEN Tail(s) ELSE channel[a][b]
  BY DEF IInv, ShapeInv, Taken
<1>2. ChannelList(s) /\ IsList(s) /\ AtMostOne(ControlsIn(s))
  BY DEF IInv, ShapeInv, TokenInv, ChannelList, Flying
<1>3. ChannelList(Tail(s)) /\ (Head(s).type = "control" => IsControlMessage(Head(s)))
  BY <1>2, ListSteps
<1>4. /\ AtMostOne(ControlsIn(Tail(s)))
      /\ Head(s).type # "control" => (ControlsIn(Tail(s)) = {} <=> ControlsIn(s) = {})
      /\ Head(s).type = "control" => ControlsIn(Tail(s)) = {} /\ ControlsIn(s) # {}
  BY <1>2, TailControl
<1>5. \A a, b \in LPs : Flying(a, b)' = IF a = j /\ b = i THEN ControlsIn(Tail(s)) ELSE Flying(a, b)
  BY <1>1 DEF Flying
<1>6. \A a, b \in LPs : ChannelList(channel'[a][b]) /\ AtMostOne(Flying(a, b)')
  BY <1>1, <1>3, <1>4, <1>5 DEF IInv, ShapeInv, TokenInv
<1>7. Flying(j, i) = ControlsIn(s)
  BY DEF Flying
<1>8. Head(s).type # "control" => \A a, b \in LPs : Flying(a, b)' = {} <=> Flying(a, b) = {}
  BY <1>4, <1>5, <1>7
<1>9. Head(s).type = "control" => Flying(j, i) # {} /\ \A a, b \in LPs : Flying(a, b)' = {}
  BY <1>4, <1>5, <1>7 DEF IInv, TokenInv
<1> QED
  BY <1>1, <1>3, <1>6, <1>8, <1>9

\* A send thread puts a message on a channel.
LEMMA PutInv ==
  ASSUME IInv, NEW i \in LPs, NEW j \in LPs, NEW m, m.type = "control" => IsControlMessage(m),
         channel' = Put(i, j, m)
  PROVE  /\ DOMAIN channel' = LPs /\ \A a \in LPs : DOMAIN channel'[a] = LPs
         /\ \A a, b \in LPs : ChannelList(channel'[a][b])
         /\ m.type # "control" => \A a, b \in LPs : Flying(a, b)' = Flying(a, b)
         /\ m.type = "control" /\ (\A a, b \in LPs : Flying(a, b) = {}) =>
              \A a, b \in LPs : /\ AtMostOne(Flying(a, b)')
                                /\ Flying(a, b)' # {} <=> a = i /\ b = j
<1> DEFINE s == channel[i][j]
<1>1. /\ DOMAIN channel' = LPs
      /\ \A a, b \in LPs : /\ DOMAIN channel'[a] = LPs
                           /\ channel'[a][b] = IF a = i /\ b = j THEN Append(s, m) ELSE channel[a][b]
  BY DEF IInv, ShapeInv, Put
<1>2. ChannelList(s) /\ IsList(s)
  BY DEF IInv, ShapeInv, ChannelList
<1>3. ChannelList(Append(s, m))
  BY <1>2, ListSteps
<1>4. /\ m.type # "control" => ControlsIn(Append(s, m)) = ControlsIn(s)
      /\ m.type = "control" => ControlsIn(Append(s, m)) = ControlsIn(s) \union {Len(s) + 1}
  BY <1>2, AppendControl
<1>5. \A a, b \in LPs : Flying(a, b)' = IF a = i /\ b = j THEN ControlsIn(Append(s, m)) ELSE Flying(a, b)
  BY <1>1 DEF Flying
<1>6. Flying(i, j) = ControlsIn(s)
  BY DEF Flying
<1>7. \A a, b \in LPs : ChannelList(channel'[a][b])
  BY <1>1, <1>3 DEF IInv, ShapeInv
<1>8. m.type # "control" => \A a, b \in LPs : Flying(a, b)' = Flying(a, b)
  BY <1>4, <1>5, <1>6
<1>9. ASSUME m.type = "control", \A a, b \in LPs : Flying(a, b) = {}, NEW a \in LPs, NEW b \in LPs
      PROVE  AtMostOne(Flying(a, b)') /\ (Flying(a, b)' # {} <=> a = i /\ b = j)
  <2>1. Flying(a, b)' = IF a = i /\ b = j THEN {Len(s) + 1} ELSE {}
    BY <1>4, <1>5, <1>6, <1>9
  <2> QED
    BY <2>1 DEF AtMostOne
<1> QED
  BY <1>1, <1>7, <1>8, <1>9

\* GvtCalculator puts a control message on a control queue.
LEMMA QueueInv ==
  ASSUME IInv, NEW i \in LPs, NEW m, IsControlMessage(m),
         controlQueue' = Queueing(i, m)
  PROVE  /\ DOMAIN controlQueue' = LPs
         /\ \A a \in LPs : ControlList(controlQueue'[a])
         /\ (\A a \in LPs : Queued(a) = {}) =>
              \A a \in LPs : AtMostOne(Queued(a)') /\ (Queued(a)' # {} <=> a = i)
<1> DEFINE s == controlQueue[i]
<1>1. /\ DOMAIN controlQueue' = LPs
      /\ \A a \in LPs : controlQueue'[a] = IF a = i THEN Append(s, m) ELSE controlQueue[a]
  BY DEF IInv, ShapeInv, Queueing
<1>2. ControlList(s) /\ IsList(s)
  BY DEF IInv, ShapeInv, ControlList
<1>3. ControlList(Append(s, m))
  BY <1>2, ListSteps
<1>4. ControlsIn(Append(s, m)) = ControlsIn(s) \union {Len(s) + 1}
  BY <1>2, AppendControl DEF IsControlMessage
<1>5. ASSUME \A a \in LPs : Queued(a) = {}, NEW a \in LPs
      PROVE  AtMostOne(Queued(a)') /\ (Queued(a)' # {} <=> a = i)
  <2>1. Queued(a)' = IF a = i THEN {Len(s) + 1} ELSE {}
    BY <1>1, <1>4, <1>5 DEF Queued
  <2> QED
    BY <2>1 DEF AtMostOne
<1> QED
  BY <1>1, <1>3, <1>5 DEF IInv, ShapeInv

\* The starter puts the values for the others on its queue.
LEMMA ValuesInv ==
  ASSUME IInv, NEW m, SendAndSetGvt(m)
  PROVE  /\ DOMAIN controlQueue' = LPs
         /\ \A a \in LPs : ControlList(controlQueue'[a])
         /\ \A a \in LPs : Queued(a)' = Queued(a)
         /\ accepting' = TRUE
<1>1. PICK v : controlQueue' = [controlQueue EXCEPT ![Starter] =
                                  @ \o SetToSeq({Value(v, round, k) : k \in Alps})]
  BY DEF SendAndSetGvt
<1> DEFINE values == {Value(v, round, k) : k \in Alps}
           s      == controlQueue[Starter]
           t      == SetToSeq(values)
<1>2. \A x \in values : IsValueMessage(x) /\ x.type # "control"
  BY StarterIsLp DEF Value, IsValueMessage
<1>3. IsFiniteSet(values)
  <2> DEFINE f == [k \in Alps |-> Value(v, round, k)]
  <2>1. f \in Surjection(Alps, values)
    BY DEF Surjection
  <2> HIDE DEF f, values
  <2> QED
    BY <2>1, StarterIsLp, FS_Surjection
<1>4. IsList(t) /\ \A k \in DOMAIN t : t[k] \in values
  BY <1>3, SetToSeqList
<1>5. ControlList(s) /\ IsList(s)
  BY StarterIsLp DEF IInv, ShapeInv, ControlList
<1> HIDE DEF values, t, s
<1>6. /\ IsList(s \o t)
      /\ DOMAIN s = 1 .. Len(s) /\ Len(s) \in Nat /\ Len(t) \in Nat
      /\ DOMAIN (s \o t) = 1 .. Len(s) + Len(t)
      /\ \A k \in DOMAIN s : (s \o t)[k] = s[k]
      /\ \A k \in DOMAIN (s \o t) : k > Len(s) => k - Len(s) \in DOMAIN t /\ (s \o t)[k] = t[k - Len(s)]
  BY <1>4, <1>5, ConcatList
<1>7. \A k \in DOMAIN (s \o t) : k \in DOMAIN s \/ (s \o t)[k] \in values
  BY <1>4, <1>6
<1>8. ControlList(s \o t)
  BY <1>2, <1>5, <1>6, <1>7 DEF ControlList
<1>9. ControlsIn(s \o t) = ControlsIn(s)
  <2>1. DOMAIN s \subseteq DOMAIN (s \o t)
    BY <1>6
  <2> QED
    BY <1>2, <1>6, <1>7, <2>1, Zenon DEF ControlsIn
<1>10. /\ DOMAIN controlQueue' = LPs
       /\ \A a \in LPs : controlQueue'[a] = IF a = Starter THEN s \o t ELSE controlQueue[a]
  BY <1>1, StarterIsLp DEF IInv, ShapeInv, s, t, values
<1> QED
  BY <1>8, <1>9, <1>10 DEF IInv, ShapeInv, Queued, s, SendAndSetGvt
-----------------------------------------------------------------------------
(* The steps.  Most actions touch no control message... *)

\* Stamping and counting a message in the send thread (Lp::PreProcessSendMessage).
LEMMA SendStep ==
  ASSUME IInv, NEW i \in LPs, Stamp(i) \/ CountAndSend(i) PROVE IInv'
<1>1. CASE Stamp(i)
  <2> DEFINE s == sendQueue[i]
  <2>1. SimList(Tail(s)) /\ IsSimMessage(Head(s))
    BY <1>1, ListSteps DEF Stamp, IInv, ShapeInv
  <2>2. /\ DOMAIN sendQueue' = LPs /\ DOMAIN stamped' = LPs
        /\ \A a \in LPs : sendQueue'[a] = IF a = i THEN Tail(s) ELSE sendQueue[a]
        /\ \A a \in LPs : stamped'[a] = stamped[a] \/ stamped'[a].msg = Head(s)
    BY <1>1 DEF Stamp, IInv, ShapeInv
  <2>3. UNCHANGED <<controlQueue, channel, held, accepting>>
    BY <1>1 DEF Stamp, gvtVars
  <2>4. ShapeInv'
    BY <2>1, <2>2, <2>3 DEF IInv, ShapeInv
  <2>a. \A a, b \in LPs : Queued(a)' = Queued(a) /\ Flying(a, b)' = Flying(a, b)
    BY <2>3 DEF Queued, Flying
  <2>5. TokenInv'
    BY <2>3, <2>a DEF IInv, TokenInv
  <2> QED
    BY <2>4, <2>5 DEF IInv
<1>2. CASE CountAndSend(i)
  <2>1. PICK j \in LPs : \E m : m.type # "control" /\ channel' = Put(i, j, m)
    <3> DEFINE x == stamped[i].msg
               y == [type |-> x.type, time |-> x.time, to |-> x.to,
                     colour |-> stamped[i].colour]
    <3>1. x.to \in LPs /\ y.type # "control"
      BY <1>2 DEF CountAndSend, IInv, ShapeInv, IsSimMessage
    <3>2. channel' = Put(i, x.to, y)
      BY <1>2 DEF CountAndSend
    <3> HIDE DEF x, y
    <3> QED
      BY <3>1, <3>2
  <2>2. PICK m : m.type # "control" /\ channel' = Put(i, j, m)
    BY <2>1
  <2>3. /\ DOMAIN stamped' = LPs
        /\ \A a \in LPs : stamped'[a] = stamped[a] \/ stamped'[a] = None
    BY <1>2 DEF CountAndSend, IInv, ShapeInv
  <2>4. UNCHANGED <<sendQueue, controlQueue, held, accepting>>
    BY <1>2 DEF CountAndSend
  <2>5. /\ DOMAIN channel' = LPs /\ \A a \in LPs : DOMAIN channel'[a] = LPs
        /\ \A a, b \in LPs : ChannelList(channel'[a][b]) /\ Flying(a, b)' = Flying(a, b)
    BY <2>2, PutInv
  <2>6. ShapeInv'
    BY <2>3, <2>4, <2>5 DEF IInv, ShapeInv
  <2>a. \A a \in LPs : Queued(a)' = Queued(a)
    BY <2>4 DEF Queued
  <2>7. TokenInv'
    BY <2>4, <2>5, <2>a DEF IInv, TokenInv
  <2> QED
    BY <2>6, <2>7 DEF IInv
<1> QED
  BY <1>1, <1>2

\* A request, response, rollback or value is received; responses and rollbacks may
\* be put on the send queue.
LEMMA ReceiveStep ==
  ASSUME IInv, NEW j \in LPs, NEW i \in LPs,
         channel[j][i] # <<>>, Head(channel[j][i]).type # "control", channel' = Taken(j, i),
         UNCHANGED <<stamped, controlQueue, held, accepting>>,
         DOMAIN sendQueue' = LPs, \A a \in LPs : SimList(sendQueue'[a])
  PROVE  IInv'
<1>1. /\ DOMAIN channel' = LPs /\ \A a \in LPs : DOMAIN channel'[a] = LPs
      /\ \A a, b \in LPs : ChannelList(channel'[a][b]) /\ AtMostOne(Flying(a, b)')
      /\ \A a, b \in LPs : Flying(a, b)' = {} <=> Flying(a, b) = {}
  BY TakenInv
<1>2. ShapeInv'
  BY <1>1 DEF IInv, ShapeInv
<1>3. \A a \in LPs : Queued(a)' = Queued(a) /\ held'[a] = held[a]
  BY DEF Queued
<1>4. TokenInv'
  BY SMTT(30), <1>1, <1>3 DEF IInv, TokenInv
<1> QED
  BY <1>2, <1>4 DEF IInv

\* What the handlers of simulation messages and values, and an agent, do.
LEMMA MessageStep ==
  ASSUME IInv, NEW i \in Alps,
         MakeRequest(i) \/ ClpRequest(i) \/ AlpResponse(i) \/ AlpRollback(i) \/ SetValue(i)
  PROVE  IInv'
<1> USE StarterIsLp
<1>1. CASE MakeRequest(i)
  <2> DEFINE m == Sim("request", lvt[i] + 1, Starter)
  <2>1. IsSimMessage(m)
    BY DEF IsSimMessage, Sim
  <2>2. sendQueue' = [sendQueue EXCEPT ![i] = Append(@, m)]
    BY <1>1 DEF MakeRequest
  <2>3. UNCHANGED <<stamped, controlQueue, channel, held, accepting>>
    BY <1>1 DEF MakeRequest, gvtVars
  <2> HIDE DEF m
  <2>4. SimList(Append(sendQueue[i], m))
    BY <2>1, ListSteps DEF IInv, ShapeInv
  <2>5. ShapeInv'
    BY <2>2, <2>3, <2>4 DEF IInv, ShapeInv
  <2>6. TokenInv'
    BY ZenonT(60), <2>3 DEF IInv, TokenInv, Queued, Flying
  <2> QED
    BY <2>5, <2>6 DEF IInv
<1>2. CASE ClpRequest(i)
  <2> DEFINE s == sendQueue[Starter]
             response == Sim("response", Head(channel[i][Starter]).time, i)
  <2>1. IsSimMessage(response) /\ \A t, k : k \in Alps => IsSimMessage(Sim("rollback", t, k))
    BY DEF IsSimMessage, Sim
  <2>2. \/ sendQueue' = [sendQueue EXCEPT ![Starter] = Append(@, response)]
        \/ \E k \in Alps : \E t :
             sendQueue' = [sendQueue EXCEPT ![Starter] =
                             Append(Append(@, response), Sim("rollback", t, k))]
    BY <1>2 DEF ClpRequest
  <2>3. UNCHANGED <<stamped, controlQueue, held, accepting>>
    BY <1>2 DEF ClpRequest
  <2> HIDE DEF response
  <2>4. SimList(Append(s, response))
    BY <2>1, ListSteps DEF IInv, ShapeInv
  <2>5. \A t, k : k \in Alps => SimList(Append(Append(s, response), Sim("rollback", t, k)))
    BY <2>1, <2>4, ListSteps
  <2>6. DOMAIN sendQueue' = LPs /\ \A a \in LPs : SimList(sendQueue'[a])
    <3>1. PICK q : SimList(q) /\ sendQueue' = [sendQueue EXCEPT ![Starter] = q]
      BY <2>2, <2>4, <2>5, Zenon
    <3> QED
      BY <3>1 DEF IInv, ShapeInv
  <2> QED
    BY <1>2, <2>3, <2>6, ReceiveStep DEF ClpRequest, IsNext
<1>3. CASE AlpResponse(i)
  <2>1. UNCHANGED <<sendQueue, stamped, controlQueue, held, accepting>>
    BY <1>3 DEF AlpResponse
  <2> QED
    BY <1>3, <2>1, ReceiveStep DEF AlpResponse, IsNext, IInv, ShapeInv
<1>4. CASE AlpRollback(i)
  <2>1. UNCHANGED <<sendQueue, stamped, controlQueue, held, accepting>>
    BY <1>4 DEF AlpRollback
  <2> QED
    BY <1>4, <2>1, ReceiveStep DEF AlpRollback, IsNext, IInv, ShapeInv
<1>5. CASE SetValue(i)
  <2>1. UNCHANGED <<sendQueue, stamped, controlQueue, held, accepting>>
    BY <1>5 DEF SetValue
  <2> QED
    BY <1>5, <2>1, ReceiveStep DEF SetValue, IsNext, IInv, ShapeInv
<1> QED
  BY <1>1, <1>2, <1>3, <1>4, <1>5
-----------------------------------------------------------------------------
(* ...and the others move it: to a channel, *)

\* The send thread takes a message from the control queue to a channel (Clp::Send).
LEMMA ControlSent ==
  ASSUME IInv, NEW i \in LPs, SendControl(i) PROVE IInv'
<1> DEFINE s == controlQueue[i]
<1>1. PICK m : m = Head(s)
  OBVIOUS
<1>2. /\ s # <<>> /\ channel' = Put(i, m.to, m)
      /\ DOMAIN controlQueue' = LPs
      /\ \A a \in LPs : controlQueue'[a] = IF a = i THEN Tail(s) ELSE controlQueue[a]
      /\ UNCHANGED <<sendQueue, stamped, held, accepting>>
  BY <1>1 DEF SendControl, gvtVars, IInv, ShapeInv
<1>3. ControlList(s) /\ IsList(s) /\ AtMostOne(ControlsIn(s))
  BY StarterIsLp DEF IInv, ShapeInv, TokenInv, ControlList, Queued
<1>4. ControlList(Tail(s)) /\ (IsControlMessage(m) \/ IsValueMessage(m))
  BY <1>1, <1>2, <1>3, ListSteps
<1>5. m.to \in LPs /\ (m.type = "control" => IsControlMessage(m))
  BY <1>4 DEF IsControlMessage, IsValueMessage
<1>6. /\ AtMostOne(ControlsIn(Tail(s)))
      /\ m.type # "control" => (ControlsIn(Tail(s)) = {} <=> ControlsIn(s) = {})
      /\ m.type = "control" => ControlsIn(Tail(s)) = {} /\ ControlsIn(s) # {}
  BY <1>1, <1>2, <1>3, TailControl
<1>7. /\ DOMAIN channel' = LPs /\ \A a \in LPs : DOMAIN channel'[a] = LPs
      /\ \A a, b \in LPs : ChannelList(channel'[a][b])
      /\ m.type # "control" => \A a, b \in LPs : Flying(a, b)' = Flying(a, b)
      /\ m.type = "control" /\ (\A a, b \in LPs : Flying(a, b) = {}) =>
           \A a, b \in LPs : /\ AtMostOne(Flying(a, b)')
                             /\ Flying(a, b)' # {} <=> a = i /\ b = m.to
  BY <1>2, <1>5, PutInv
<1>8. ShapeInv'
  BY <1>2, <1>4, <1>7 DEF IInv, ShapeInv
<1>9. Queued(i) = ControlsIn(s)
      /\ \A a \in LPs : Queued(a)' = IF a = i THEN ControlsIn(Tail(s)) ELSE Queued(a)
  BY <1>2 DEF Queued
<1>10. CASE m.type # "control"
  <2>1. \A a, b \in LPs : /\ Flying(a, b)' = Flying(a, b)
                          /\ Queued(a)' = {} <=> Queued(a) = {}
                          /\ AtMostOne(Queued(a)')
    BY <1>6, <1>7, <1>9, <1>10 DEF IInv, TokenInv
  <2>2. TokenInv'
    BY <1>2, <2>1 DEF IInv, TokenInv
  <2> QED
    BY <1>8, <2>2 DEF IInv
<1>11. CASE m.type = "control"
  <2>1. Queued(i) # {}
    BY <1>6, <1>9, <1>11
  <2>2. /\ \A a, b \in LPs : Flying(a, b) = {} /\ held[a] = None
        /\ \A a \in LPs : a # i => Queued(a) = {}
        /\ ~accepting
    BY <2>1 DEF IInv, TokenInv
  <2>3. \A a, b \in LPs : /\ Queued(a)' = {}
                          /\ AtMostOne(Flying(a, b)')
                          /\ Flying(a, b)' # {} <=> a = i /\ b = m.to
                          /\ held'[a] = None
    BY <1>2, <1>6, <1>7, <1>9, <1>11, <2>2
  <2>4. accepting' = accepting
    BY <1>2
  <2>5. TokenInv'
    BY <1>5, <2>2, <2>3, <2>4 DEF TokenInv, AtMostOne
  <2> QED
    BY <1>8, <2>5 DEF IInv
<1> QED
  BY <1>10, <1>11

(* to the control queue, or out of the world, *)

\* With the control message in the hands of LP i alone, which has a message m to
\* pass on or a GVT value to send.
LEMMA HandledStep ==
  ASSUME IInv, NEW i \in LPs, NEW m, IsControlMessage(m),
         \A a, b \in LPs : Queued(a) = {} /\ Flying(a, b)' = {} /\ held'[a] = None,
         ~accepting,
         Pass(i, m) \/ SendAndSetGvt(m),
         DOMAIN channel' = LPs, \A a \in LPs : DOMAIN channel'[a] = LPs,
         \A a, b \in LPs : ChannelList(channel'[a][b]),
         DOMAIN held' = LPs, UNCHANGED <<sendQueue, stamped>>
  PROVE  IInv'
<1>1. CASE Pass(i, m)
  <2>1. PICK x : IsControlMessage(x) /\ controlQueue' = Queueing(i, x)
    <3>1. IsControlMessage([m EXCEPT !.to = NextLp(i)])
      BY NextLpIsLp DEF IsControlMessage
    <3> QED
      BY <1>1, <3>1 DEF Pass
  <2>2. /\ DOMAIN controlQueue' = LPs
        /\ \A a \in LPs : ControlList(controlQueue'[a])
        /\ \A a \in LPs : AtMostOne(Queued(a)') /\ (Queued(a)' # {} <=> a = i)
    BY <2>1, QueueInv
  <2>3. ~accepting'
    BY <1>1 DEF Pass
  <2>4. ShapeInv'
    BY <2>2 DEF IInv, ShapeInv
  <2>5. TokenInv'
    BY <2>2, <2>3 DEF TokenInv, AtMostOne
  <2> QED
    BY <2>4, <2>5 DEF IInv
<1>2. CASE SendAndSetGvt(m)
  <2>1. /\ DOMAIN controlQueue' = LPs
        /\ \A a \in LPs : ControlList(controlQueue'[a])
        /\ \A a \in LPs : Queued(a)' = Queued(a)
        /\ accepting' = TRUE
    BY <1>2, ValuesInv
  <2>2. ShapeInv'
    BY <2>1 DEF IInv, ShapeInv
  <2>3. TokenInv'
    BY <2>1, StarterIsLp DEF TokenInv, AtMostOne
  <2> QED
    BY <2>2, <2>3 DEF IInv
<1> QED
  BY <1>1, <1>2

\* The first cut takes the control message and passes it on at once, in one step.
LEMMA FirstCutStep ==
  ASSUME IInv, NEW j \in LPs, NEW i \in LPs, FirstCut(j, i) PROVE IInv'
<1> DEFINE m == Head(channel[j][i])
<1>1. /\ channel[j][i] # <<>> /\ m.type = "control" /\ channel' = Taken(j, i)
      /\ UNCHANGED <<held, sendQueue, stamped>>
  BY DEF FirstCut, IsNext
<1>2. /\ DOMAIN channel' = LPs /\ \A a \in LPs : DOMAIN channel'[a] = LPs
      /\ \A a, b \in LPs : ChannelList(channel'[a][b])
      /\ IsControlMessage(m) /\ Flying(j, i) # {} /\ \A a, b \in LPs : Flying(a, b)' = {}
  BY <1>1, TakenInv
<1>3. (\A a \in LPs : Queued(a) = {} /\ held[a] = None) /\ ~accepting
  BY <1>2 DEF IInv, TokenInv
<1>4. PICK x : IsControlMessage(x) /\ (Pass(i, x) \/ SendAndSetGvt(x))
  <2> DEFINE sum == [m EXCEPT !.minTime = Min({@, lvt[i]}),
                              !.count   = [k \in LPs |-> @[k] + CountOf(i, k)]]
             second == [sum EXCEPT !.cut = "second"]
  <2>1. IsControlMessage(sum) /\ IsControlMessage(second)
    BY <1>2 DEF IsControlMessage
  <2>2. Pass(i, sum) \/ Pass(i, second) \/ SendAndSetGvt(sum)
    BY DEF FirstCut
  <2> HIDE DEF sum, second
  <2> QED
    BY <2>1, <2>2
<1>5. held' = held /\ DOMAIN held' = LPs
  BY <1>1 DEF IInv, ShapeInv
<1> QED
  BY <1>1, <1>2, <1>3, <1>4, <1>5, HandledStep

\* The end of the second cut passes the control message on, or ends the round.
LEMMA SecondCutDoneStep ==
  ASSUME IInv, NEW i \in LPs, SecondCutDone(i) PROVE IInv'
<1>1. /\ held[i] # None /\ held' = [held EXCEPT ![i] = None]
      /\ UNCHANGED <<channel, sendQueue, stamped>>
  BY DEF SecondCutDone
<1>2. /\ IsControlMessage(held[i]) /\ ~accepting
      /\ \A a, b \in LPs : Queued(a) = {} /\ Flying(a, b) = {} /\ (a # i => held[a] = None)
  BY <1>1 DEF IInv, ShapeInv, TokenInv
<1>3. PICK x : IsControlMessage(x) /\ (Pass(i, x) \/ SendAndSetGvt(x))
  <2> DEFINE done == [held[i] EXCEPT !.minTime  = Min({@, lvt[i]}),
                                     !.redMin   = Min({@, redTime[i]}),
                                     !.count[i] = 0]
  <2>1. IsControlMessage(done)
    BY <1>2 DEF IsControlMessage
  <2>2. Pass(i, done) \/ SendAndSetGvt(done)
    BY DEF SecondCutDone
  <2> HIDE DEF done
  <2> QED
    BY <2>1, <2>2
<1>4. /\ DOMAIN held' = LPs /\ DOMAIN channel' = LPs
      /\ \A a, b \in LPs : /\ DOMAIN channel'[a] = LPs /\ ChannelList(channel'[a][b])
                           /\ held'[a] = None
  BY <1>1, <1>2 DEF IInv, ShapeInv
<1>5. \A a, b \in LPs : Flying(a, b)' = {}
  BY <1>1, <1>2 DEF Flying
<1> QED
  BY <1>1, <1>2, <1>3, <1>4, <1>5, HandledStep

(* to the hands of an LP, and into the world. *)

\* The second cut takes the control message and holds it while it receives.
LEMMA SecondCutStep ==
  ASSUME IInv, NEW j \in LPs, NEW i \in LPs, SecondCut(j, i) PROVE IInv'
<1> DEFINE m == Head(channel[j][i])
<1>1. /\ channel[j][i] # <<>> /\ m.type = "control" /\ channel' = Taken(j, i)
      /\ held' = [held EXCEPT ![i] = m]
      /\ UNCHANGED <<accepting, sendQueue, stamped, controlQueue>>
  BY DEF SecondCut, IsNext
<1>2. /\ DOMAIN channel' = LPs /\ \A a \in LPs : DOMAIN channel'[a] = LPs
      /\ \A a, b \in LPs : ChannelList(channel'[a][b])
      /\ IsControlMessage(m) /\ Flying(j, i) # {} /\ \A a, b \in LPs : Flying(a, b)' = {}
  BY <1>1, TakenInv
<1>3. /\ \A a \in LPs : Queued(a) = {} /\ held[a] = None
      /\ ~accepting
  BY <1>2 DEF IInv, TokenInv
<1>4. ShapeInv'
  BY <1>1, <1>2 DEF IInv, ShapeInv
<1>5. m # None
  BY <1>1 DEF None
<1>6. \A a \in LPs : (held'[a] # None <=> a = i) /\ Queued(a)' = {}
  BY <1>1, <1>3, <1>5 DEF Queued, IInv, ShapeInv
<1>7. ~accepting'
  BY <1>1, <1>3
<1>8. TokenInv'
  BY <1>2, <1>6, <1>7 DEF TokenInv, AtMostOne
<1> QED
  BY <1>4, <1>8 DEF IInv

\* The starter makes the control message of a round, while there is none.
LEMMA StartRoundStep ==
  ASSUME IInv, StartRound PROVE IInv'
<1>1. PICK m : IsControlMessage(m) /\ controlQueue' = Queueing(Starter, m)
  <2>1. IsControlMessage(Control("first", Infinity, Infinity, [k \in LPs |-> 0], NextLp(Starter)))
    BY StarterIsLp, NextLpIsLp DEF IsControlMessage, Control
  <2> QED
    BY <2>1 DEF StartRound
<1>2. /\ accepting /\ ~accepting'
      /\ UNCHANGED <<channel, held, sendQueue, stamped>>
  BY DEF StartRound
<1>3. \A a, b \in LPs : Queued(a) = {} /\ Flying(a, b) = {} /\ held[a] = None
  BY <1>2 DEF IInv, TokenInv
<1>4. /\ DOMAIN controlQueue' = LPs
      /\ \A a \in LPs : ControlList(controlQueue'[a])
      /\ \A a \in LPs : AtMostOne(Queued(a)') /\ (Queued(a)' # {} <=> a = Starter)
  BY <1>1, <1>3, StarterIsLp, QueueInv
<1>5. \A a, b \in LPs : Flying(a, b)' = {} /\ held'[a] = None
  BY <1>2, <1>3 DEF Flying
<1>6. ShapeInv'
  BY <1>2, <1>4 DEF IInv, ShapeInv
<1>7. TokenInv'
  BY <1>2, <1>4, <1>5, StarterIsLp DEF TokenInv, AtMostOne
<1> QED
  BY <1>6, <1>7 DEF IInv

-----------------------------------------------------------------------------
\* Every step keeps the invariant: one case per action of Next.
LEMMA StepInv == IInv /\ [Next]_vars => IInv'
<1> SUFFICES ASSUME IInv, [Next]_vars PROVE IInv'
  OBVIOUS
<1>1. CASE UNCHANGED vars
  <2>1. UNCHANGED <<sendQueue, stamped, controlQueue, channel, held, accepting>>
    BY <1>1 DEF vars, gvtVars, netVars
  <2>2. \A a, b \in LPs : Queued(a)' = Queued(a) /\ Flying(a, b)' = Flying(a, b)
    BY <2>1 DEF Queued, Flying
  <2>3. ShapeInv' /\ TokenInv'
    BY <2>1, <2>2 DEF IInv, ShapeInv, TokenInv
  <2> QED
    BY <2>3 DEF IInv
<1>2. CASE StartRound
  BY <1>2, StartRoundStep
<1>3. CASE \E i \in Alps : \/ MakeRequest(i) \/ ClpRequest(i) \/ AlpResponse(i)
                           \/ AlpRollback(i) \/ SetValue(i)
  BY <1>3, MessageStep
<1>4. CASE \E i \in LPs : SendControl(i) \/ Stamp(i) \/ CountAndSend(i) \/ SecondCutDone(i)
  BY <1>4, ControlSent, SendStep, SecondCutDoneStep
<1>5. CASE \E i, j \in LPs : FirstCut(j, i) \/ SecondCut(j, i)
  BY <1>5, FirstCutStep, SecondCutStep
<1> QED
  BY <1>1, <1>2, <1>3, <1>4, <1>5 DEF Next

-----------------------------------------------------------------------------
(* What the variables hold.                                                *)

Colours  == {"white", "red"}
SimKinds == {"request", "response", "rollback"}

\* Messages of the simulation, in a send queue and on their way; values.
SimSent  == [type : SimKinds, time : Nat \ {0}, to : LPs]
Coloured == [type : SimKinds, time : Nat \ {0}, to : LPs, colour : Colours]
Stamps   == [type : {"stamped"}, msg : SimSent, colour : Colours]
Values   == [type : {"value"}, gvt : Times, round : Nat, to : LPs]

\* Control messages; those that LP i sends, which know an LVT once they have left the
\* starter's neighbour; those an LP holds.
Controls == [type : {"control"}, cut : {"first", "second"}, minTime : Nat, redMin : Nat,
             count : [LPs -> Int], to : LPs]

ControlsFrom(i) ==
  {m \in Controls : /\ m.to = NextLp(i)
                    /\ (i # Starter \/ m.cut = "second") => m.minTime \in Times}

SecondCuts == {m \in Controls : m.cut = "second" /\ m.minTime \in Times}

\* What may stand in LP i's control queue, and in the channel from i to j.
Passing(i)       == ControlsFrom(i) \union Values
Travelling(i, j) == {m \in Coloured \union ControlsFrom(i) \union Values : m.to = j}

LpsTyped ==
  /\ lvt \in [LPs -> Nat] /\ waiting \in [LPs -> BOOLEAN]
  /\ made \in [LPs -> 0 .. MaxRequests]
  /\ lvt[Starter] = Infinity
  /\ \A i \in Alps : lvt[i] + (IF waiting[i] THEN 2 ELSE 0) <= 2 * made[i]

CountersTyped ==
  /\ DOMAIN counter = LPs
  /\ \A i \in LPs : counter[i] \in [DOMAIN counter[i] -> Int] /\ DOMAIN counter[i] \subseteq LPs
  /\ drift \in [LPs -> Int]

GvtTyped ==
  /\ colour \in [LPs -> Colours] /\ redTime \in [LPs -> Nat]
  /\ accepting \in BOOLEAN /\ round \in 0 .. MaxRounds
  /\ gvt \in [LPs -> Times] /\ applied \in [LPs -> Nat]

NetTyped ==
  /\ \A i \in LPs : sendQueue[i] \in Seq(SimSent)
  /\ \A i \in LPs : stamped[i] = None \/ stamped[i] \in Stamps
  /\ \A i \in LPs : controlQueue[i] \in Seq(Passing(i))
  /\ \A i, j \in LPs : channel[i][j] \in Seq(Travelling(i, j))
  /\ \A i \in LPs : held[i] = None \/ held[i] \in SecondCuts

TypedInv == LpsTyped /\ CountersTyped /\ GvtTyped /\ NetTyped

-----------------------------------------------------------------------------
\* The constants and the times.
LEMMA NumbersFacts ==
  /\ Starter \in LPs /\ Alps \subseteq LPs /\ LPs \subseteq Nat
  /\ 0 \in Times /\ Times \subseteq Nat /\ Infinity \in Nat
  /\ Max(Times) = 2 * MaxRequests /\ MaxRequests \in Nat /\ MaxRounds \in Nat
  /\ \A t \in Times : t < Infinity
  /\ \A i \in LPs : NextLp(i) \in LPs /\ (NextLp(i) = Starter => i # Starter)
<1>1. /\ MaxRequests \in Nat /\ Infinity \in Nat /\ Infinity > 2 * MaxRequests
      /\ N \in Nat /\ N > 1 /\ MaxRounds \in Nat
  BY GvtRingAssumption
<1>2. Times = 0 .. 2 * MaxRequests /\ 2 * MaxRequests \in Times /\ 0 \in Times
  BY <1>1 DEF Times
<1>3. Max(Times) \in Times /\ \A y \in Times : y <= Max(Times)
  <2>1. Times \in SUBSET (0 .. 2 * MaxRequests) /\ Times # {} /\ 2 * MaxRequests \in Nat
    BY <1>1, <1>2
  <2> QED
    BY <2>1, MaxOfSet
<1>4. Max(Times) = 2 * MaxRequests
  BY <1>1, <1>2, <1>3
<1>5. NextLp(Starter) # Starter
  BY <1>1 DEF NextLp, Starter
<1> QED
  BY <1>1, <1>2, <1>4, <1>5, StarterIsLp, NextLpIsLp DEF LPs

\* The lesser of two numbers.
LEMMA MinOfTwo ==
  ASSUME NEW a \in Nat, NEW b \in Nat
  PROVE  Min({a, b}) \in Nat /\ Min({a, b}) \in {a, b} /\ Min({a, b}) <= a /\ Min({a, b}) <= b
BY MinOfSet

\* A message has one kind.
LEMMA Kinds ==
  /\ \A m \in Coloured : m.type # "control" /\ m.type # "value" /\ IsSim(m)
  /\ \A m \in Controls : m.type = "control" /\ ~IsSim(m)
  /\ \A m \in Values : m.type = "value" /\ ~IsSim(m)
  /\ \A i, j : /\ Travelling(i, j) \subseteq Coloured \union Controls \union Values
               /\ Passing(i) \subseteq Controls \union Values
BY DEF Coloured, Controls, Values, SimKinds, IsSim, Travelling, Passing, ControlsFrom

\* The counters after CountReceived and the other updates.
LEMMA AddToTyped ==
  ASSUME CountersTyped, NEW i \in LPs, NEW j \in LPs, NEW n \in Int
  PROVE  /\ DOMAIN AddTo(i, j, n) = LPs
         /\ \A a \in LPs : AddTo(i, j, n)[a] =
              IF a = i THEN [k \in DOMAIN counter[i] \union {j} |->
                               IF k = j THEN Entry(i, j) + n ELSE counter[i][k]]
              ELSE counter[a]
         /\ \A a \in LPs : /\ AddTo(i, j, n)[a] \in [DOMAIN AddTo(i, j, n)[a] -> Int]
                           /\ DOMAIN AddTo(i, j, n)[a] \subseteq LPs
<1>1. Entry(i, j) \in Int
  BY DEF Entry, CountersTyped
<1> DEFINE f == [k \in DOMAIN counter[i] \union {j} |->
                   IF k = j THEN Entry(i, j) + n ELSE counter[i][k]]
<1>2. /\ DOMAIN AddTo(i, j, n) = LPs
      /\ \A a \in LPs : AddTo(i, j, n)[a] = IF a = i THEN f ELSE counter[a]
  BY DEF AddTo, CountersTyped
<1>3. f \in [DOMAIN f -> Int] /\ DOMAIN f \subseteq LPs
  BY <1>1 DEF CountersTyped
<1> HIDE DEF f
<1>4. \A a \in LPs : /\ AddTo(i, j, n)[a] \in [DOMAIN AddTo(i, j, n)[a] -> Int]
                     /\ DOMAIN AddTo(i, j, n)[a] \subseteq LPs
  BY <1>2, <1>3 DEF CountersTyped
<1> QED
  BY <1>2, <1>4 DEF f

\* Lp::PreProcessReceiveMessage leaves the counters typed.
LEMMA ReceivedTyped ==
  ASSUME CountersTyped, NEW i \in LPs, NEW m, counter' = CountReceived(i, m), drift' = drift
  PROVE  CountersTyped'
<1>1. CASE m.colour = "white"
  <2>1. counter' = AddTo(i, i, -1)
    BY <1>1 DEF CountReceived
  <2>2. PICK n \in Int : n = -1
    OBVIOUS
  <2>3. PICK c : c = AddTo(i, i, n)
    OBVIOUS
  <2>4. /\ DOMAIN c = LPs
        /\ \A a \in LPs : c[a] \in [DOMAIN c[a] -> Int] /\ DOMAIN c[a] \subseteq LPs
    BY <2>3, AddToTyped
  <2>5. counter' = c
    BY <2>1, <2>2, <2>3
  <2> QED
    BY <2>4, <2>5 DEF CountersTyped
<1>2. CASE m.colour # "white"
  BY <1>2 DEF CountReceived, CountersTyped
<1> QED
  BY <1>1, <1>2

-----------------------------------------------------------------------------
\* A channel from which a message is taken.
LEMMA TakenTyped ==
  ASSUME IInv, NetTyped, NEW j \in LPs, NEW i \in LPs, channel[j][i] # <<>>, channel' = Taken(j, i)
  PROVE  /\ Head(channel[j][i]) \in Travelling(j, i)
         /\ \A a, b \in LPs : /\ channel'[a][b] = IF a = j /\ b = i THEN Tail(channel[j][i])
                                                  ELSE channel[a][b]
                              /\ channel'[a][b] \in Seq(Travelling(a, b))
<1>1. channel[j][i] \in Seq(Travelling(j, i))
  BY DEF NetTyped
<1>2. Head(channel[j][i]) \in Travelling(j, i) /\ Tail(channel[j][i]) \in Seq(Travelling(j, i))
  BY <1>1, TailFacts
<1>3. \A a, b \in LPs : channel'[a][b] = IF a = j /\ b = i THEN Tail(channel[j][i])
                                         ELSE channel[a][b]
  BY DEF Taken, IInv, ShapeInv
<1> QED
  BY <1>2, <1>3 DEF NetTyped

\* A channel on which a message is put.
LEMMA PutTyped ==
  ASSUME IInv, NetTyped, NEW i \in LPs, NEW j \in LPs, NEW m \in Travelling(i, j),
         channel' = Put(i, j, m)
  PROVE  \A a, b \in LPs : /\ channel'[a][b] = IF a = i /\ b = j THEN Append(channel[i][j], m)
                                               ELSE channel[a][b]
                           /\ channel'[a][b] \in Seq(Travelling(a, b))
<1>1. channel[i][j] \in Seq(Travelling(i, j))
  BY DEF NetTyped
<1>2. Append(channel[i][j], m) \in Seq(Travelling(i, j))
  BY <1>1, AppendFacts
<1>3. \A a, b \in LPs : channel'[a][b] = IF a = i /\ b = j THEN Append(channel[i][j], m)
                                         ELSE channel[a][b]
  BY DEF Put, IInv, ShapeInv
<1> QED
  BY <1>2, <1>3 DEF NetTyped

\* A queue of LP i that is changed, the others being what they were.
LEMMA QueuesTyped ==
  ASSUME IInv, NetTyped, NEW i \in LPs
  PROVE  /\ \A m \in Passing(i) : controlQueue' = Queueing(i, m) =>
              \A a \in LPs : /\ controlQueue'[a] = IF a = i THEN Append(controlQueue[i], m)
                                                   ELSE controlQueue[a]
                             /\ controlQueue'[a] \in Seq(Passing(a))
         /\ \A q \in Seq(SimSent) : sendQueue' = [sendQueue EXCEPT ![i] = q] =>
              \A a \in LPs : sendQueue'[a] \in Seq(SimSent)
<1>1. ASSUME NEW m \in Passing(i), controlQueue' = Queueing(i, m)
      PROVE  \A a \in LPs : /\ controlQueue'[a] = IF a = i THEN Append(controlQueue[i], m)
                                                  ELSE controlQueue[a]
                            /\ controlQueue'[a] \in Seq(Passing(a))
  <2>1. controlQueue[i] \in Seq(Passing(i))
    BY DEF NetTyped
  <2>2. Append(controlQueue[i], m) \in Seq(Passing(i))
    BY <2>1, AppendFacts
  <2>3. \A a \in LPs : controlQueue'[a] = IF a = i THEN Append(controlQueue[i], m)
                                          ELSE controlQueue[a]
    BY <1>1 DEF Queueing, IInv, ShapeInv
  <2> QED
    BY <2>2, <2>3 DEF NetTyped
<1>2. ASSUME NEW q \in Seq(SimSent), sendQueue' = [sendQueue EXCEPT ![i] = q], NEW a \in LPs
      PROVE  sendQueue'[a] \in Seq(SimSent)
  BY <1>2 DEF NetTyped, IInv, ShapeInv
<1> QED
  BY <1>1, <1>2

-----------------------------------------------------------------------------
(* Every step keeps the types: the agents, *)

\* MakeRequest: a request is one unit after an LVT that two units per request bound.
LEMMA MakeRequestTyped ==
  ASSUME IInv, TypedInv, NEW i \in Alps, MakeRequest(i) PROVE TypedInv'
<1> USE NumbersFacts
<1>1. /\ waiting[i] = FALSE /\ made[i] < MaxRequests
      /\ made' = [made EXCEPT ![i] = @ + 1] /\ waiting' = [waiting EXCEPT ![i] = TRUE]
      /\ UNCHANGED <<lvt, stamped, controlQueue, channel, drift>>
      /\ UNCHANGED <<colour, redTime, counter, held, accepting, round, gvt, applied>>
  <2>1. waiting[i] \in BOOLEAN
    BY DEF TypedInv, LpsTyped
  <2> QED
    BY <2>1 DEF MakeRequest, gvtVars
<1>2. LpsTyped'
  <2>1. /\ made' \in [LPs -> 0 .. MaxRequests] /\ made'[i] = made[i] + 1
        /\ \A a \in LPs : a # i => made'[a] = made[a]
    BY <1>1 DEF TypedInv, LpsTyped
  <2>2. /\ waiting' \in [LPs -> BOOLEAN] /\ waiting'[i] = TRUE
        /\ \A a \in LPs : a # i => waiting'[a] = waiting[a]
    BY <1>1 DEF TypedInv, LpsTyped
  <2>3. /\ lvt \in [LPs -> Nat] /\ lvt' = lvt /\ lvt[Starter] = Infinity
        /\ made \in [LPs -> 0 .. MaxRequests]
        /\ \A a \in Alps : lvt[a] + (IF waiting[a] THEN 2 ELSE 0) <= 2 * made[a]
    BY <1>1 DEF TypedInv, LpsTyped
  <2>4. lvt[i] + 2 <= 2 * made'[i]
    BY <1>1, <2>1, <2>3
  <2>5. \A a \in Alps : lvt'[a] + (IF waiting'[a] THEN 2 ELSE 0) <= 2 * made'[a]
    BY <2>1, <2>2, <2>3, <2>4
  <2> QED
    BY <2>1, <2>2, <2>3, <2>5 DEF LpsTyped
<1>3. PICK m \in SimSent : sendQueue' = [sendQueue EXCEPT ![i] = Append(@, m)]
  <2>1. Sim("request", lvt[i] + 1, Starter) \in SimSent
    BY DEF Sim, SimSent, SimKinds, TypedInv, LpsTyped
  <2> QED
    BY <2>1 DEF MakeRequest
<1>4. \A a \in LPs : sendQueue'[a] \in Seq(SimSent)
  <2>1. Append(sendQueue[i], m) \in Seq(SimSent)
    BY DEF TypedInv, NetTyped
  <2> QED
    BY <1>3, <2>1, QueuesTyped DEF TypedInv
<1>5. CountersTyped' /\ GvtTyped' /\ NetTyped'
  BY <1>1, <1>4 DEF TypedInv, CountersTyped, GvtTyped, NetTyped
<1> QED
  BY <1>2, <1>5 DEF TypedInv

\* Handlers of simulation messages at LP i: what they leave to be shown.
LEMMA HandlerTyped ==
  ASSUME IInv, TypedInv, NEW j \in LPs, NEW i \in LPs, channel[j][i] # <<>>,
         channel' = Taken(j, i), counter' = CountReceived(i, Head(channel[j][i])),
         UNCHANGED <<colour, redTime, held, accepting, round, gvt, applied>>,
         UNCHANGED <<stamped, controlQueue, drift>>,
         \A a \in LPs : sendQueue'[a] \in Seq(SimSent), LpsTyped'
  PROVE  TypedInv'
<1>1. \A a, b \in LPs : channel'[a][b] \in Seq(Travelling(a, b))
  BY TakenTyped DEF TypedInv
<1>2. CountersTyped'
  BY ReceivedTyped DEF TypedInv
<1>3. GvtTyped' /\ NetTyped'
  BY <1>1 DEF TypedInv, GvtTyped, NetTyped
<1> QED
  BY <1>2, <1>3 DEF TypedInv

\* ClpRequest: responses and rollbacks have the times of requests, or later ones.
LEMMA ClpRequestTyped ==
  ASSUME IInv, TypedInv, NEW j \in Alps, ClpRequest(j) PROVE TypedInv'
<1> USE NumbersFacts
<1> DEFINE m        == Head(channel[j][Starter])
           response == Sim("response", m.time, j)
           q        == sendQueue[Starter]
<1>1. /\ channel[j][Starter] # <<>> /\ m.type = "request" /\ channel' = Taken(j, Starter)
      /\ counter' = CountReceived(Starter, m)
      /\ UNCHANGED <<lvt, waiting, made, colour, redTime, held, accepting, round, gvt, applied>>
      /\ UNCHANGED <<stamped, controlQueue, drift>>
  BY DEF ClpRequest, IsNext, lpVars
<1>2. m \in Coloured
  <2>1. m \in Travelling(j, Starter)
    BY <1>1, TakenTyped DEF TypedInv
  <2> HIDE DEF m
  <2> QED
    BY <1>1, <2>1, Kinds
<1>3. response \in SimSent /\ \A k \in Alps : \A t \in m.time .. Max(Times) :
                                 Sim("rollback", t, k) \in SimSent
  <2>1. m.time \in Nat \ {0} /\ Max(Times) \in Nat
    BY <1>2 DEF Coloured
  <2>2. \A t \in m.time .. Max(Times) : t \in Nat \ {0}
    BY <2>1
  <2> HIDE DEF m
  <2> QED
    BY <2>1, <2>2 DEF Sim, SimSent, SimKinds
<1>4. \/ sendQueue' = [sendQueue EXCEPT ![Starter] = Append(q, response)]
      \/ \E k \in Alps : \E t \in m.time .. Max(Times) :
           sendQueue' = [sendQueue EXCEPT ![Starter] =
                           Append(Append(q, response), Sim("rollback", t, k))]
  BY DEF ClpRequest
<1> HIDE DEF m, response, q
<1>5. q \in Seq(SimSent)
  BY DEF q, TypedInv, NetTyped
<1>6. PICK p \in Seq(SimSent) : sendQueue' = [sendQueue EXCEPT ![Starter] = p]
  <2>1. Append(q, response) \in Seq(SimSent)
    BY <1>3, <1>5
  <2>2. \A k \in Alps : \A t \in m.time .. Max(Times) :
          Append(Append(q, response), Sim("rollback", t, k)) \in Seq(SimSent)
    BY <1>3, <2>1
  <2> QED
    BY <1>4, <2>1, <2>2
<1>7. \A a \in LPs : sendQueue'[a] \in Seq(SimSent)
  BY <1>6, QueuesTyped DEF TypedInv
<1>8. LpsTyped'
  BY <1>1 DEF TypedInv, LpsTyped
<1> QED
  BY <1>1, <1>7, <1>8, HandlerTyped DEF m

\* AlpResponse and AlpRollback: an awaited response adds the two units the request
\* was counted for; a rollback goes back before a time that is not zero.
LEMMA AlpTypedStep ==
  ASSUME IInv, TypedInv, NEW i \in Alps, AlpResponse(i) \/ AlpRollback(i) PROVE TypedInv'
<1> USE NumbersFacts
<1> DEFINE m == Head(channel[Starter][i])
<1>1. /\ channel[Starter][i] # <<>> /\ channel' = Taken(Starter, i)
      /\ m.type \in {"response", "rollback"}
      /\ counter' = CountReceived(i, m)
      /\ UNCHANGED <<made, colour, redTime, held, accepting, round, gvt, applied>>
      /\ UNCHANGED <<sendQueue, stamped, controlQueue, drift>>
  BY DEF AlpResponse, AlpRollback, IsNext
<1>2. m \in Coloured
  BY <1>1, TakenTyped, Kinds DEF TypedInv
<1>3. m.time \in Nat \ {0}
  BY <1>2 DEF Coloured
<1>4. /\ lvt \in [LPs -> Nat] /\ waiting \in [LPs -> BOOLEAN] /\ made \in [LPs -> 0 .. MaxRequests]
      /\ lvt[Starter] = Infinity
      /\ \A a \in Alps : lvt[a] + (IF waiting[a] THEN 2 ELSE 0) <= 2 * made[a]
  BY DEF TypedInv, LpsTyped
<1>5. PICK v \in Nat, w \in BOOLEAN :
        /\ lvt' = [lvt EXCEPT ![i] = v] /\ waiting' = [waiting EXCEPT ![i] = w]
        /\ v + (IF w THEN 2 ELSE 0) <= 2 * made[i]
  <2>1. CASE AlpResponse(i) /\ waiting[i] /\ m.time = lvt[i] + 1
    <3>1. lvt' = [lvt EXCEPT ![i] = m.time + 1] /\ waiting' = [waiting EXCEPT ![i] = FALSE]
      BY <1>4, <2>1 DEF AlpResponse
    <3>2. m.time + 1 \in Nat /\ m.time + 1 + 0 <= 2 * made[i]
      BY <1>3, <1>4, <2>1
    <3> HIDE DEF m
    <3> QED
      BY <3>1, <3>2
  <2>2. CASE UNCHANGED <<lvt, waiting>>
    <3>1. lvt' = [lvt EXCEPT ![i] = lvt[i]] /\ waiting' = [waiting EXCEPT ![i] = waiting[i]]
      BY <1>4, <2>2
    <3> QED
      BY <1>4, <3>1
  <2>3. CASE AlpRollback(i) /\ m.time <= lvt[i]
    <3>1. lvt' = [lvt EXCEPT ![i] = m.time - 1] /\ waiting' = [waiting EXCEPT ![i] = FALSE]
      BY <2>3 DEF AlpRollback
    <3>2. m.time - 1 \in Nat /\ m.time - 1 + 0 <= 2 * made[i]
      <4>1. lvt[i] \in Nat /\ made[i] \in Nat /\ lvt[i] <= 2 * made[i]
        BY <1>4
      <4> QED
        BY <1>3, <2>3, <4>1
    <3> HIDE DEF m
    <3> QED
      BY <3>1, <3>2
  <2>4. CASE AlpResponse(i) /\ ~(waiting[i] /\ m.time = lvt[i] + 1)
    <3>1. lvt' = [lvt EXCEPT ![i] = @] /\ waiting' = [waiting EXCEPT ![i] = @ /\ TRUE]
      BY <2>4 DEF AlpResponse
    <3>2. lvt' = lvt /\ waiting' = waiting
      BY <1>4, <3>1
    <3> QED
      BY <2>2, <3>2
  <2>5. CASE AlpRollback(i) /\ ~(m.time <= lvt[i])
    BY <2>2, <2>5 DEF AlpRollback
  <2> QED
    BY <2>1, <2>2, <2>3, <2>4, <2>5
<1>6. LpsTyped'
  <2>1. /\ lvt' \in [LPs -> Nat] /\ waiting' \in [LPs -> BOOLEAN]
        /\ lvt'[i] = v /\ waiting'[i] = w /\ i # Starter
        /\ \A a \in LPs : a # i => lvt'[a] = lvt[a] /\ waiting'[a] = waiting[a]
    BY <1>4, <1>5 DEF Alps
  <2>2. made' = made /\ lvt'[Starter] = Infinity
    BY <1>1, <1>4, <2>1
  <2>3. \A a \in Alps : lvt'[a] + (IF waiting'[a] THEN 2 ELSE 0) <= 2 * made[a]
    BY <1>4, <1>5, <2>1
  <2> QED
    BY <1>4, <2>1, <2>2, <2>3 DEF LpsTyped
<1>7. \A a \in LPs : sendQueue'[a] \in Seq(SimSent)
  BY <1>1 DEF TypedInv, NetTyped
<1> QED
  BY <1>1, <1>6, <1>7, HandlerTyped

-----------------------------------------------------------------------------
(* the send threads, *)

\* SendControl moves the head of a queue to the channel it is for.
LEMMA SendControlTyped ==
  ASSUME IInv, TypedInv, NEW i \in LPs, SendControl(i) PROVE TypedInv'
<1> USE NumbersFacts
<1> DEFINE q == controlQueue[i]
           m == Head(q)
<1>1. /\ q # <<>> /\ channel' = Put(i, m.to, m)
      /\ controlQueue' = [controlQueue EXCEPT ![i] = Tail(q)]
      /\ UNCHANGED <<lvt, waiting, made, sendQueue, stamped, drift>>
      /\ UNCHANGED <<colour, redTime, counter, held, accepting, round, gvt, applied>>
  BY DEF SendControl, lpVars, gvtVars
<1>2. q \in Seq(Passing(i))
  BY DEF TypedInv, NetTyped
<1> HIDE DEF q
<1>3. m \in Passing(i) /\ Tail(q) \in Seq(Passing(i))
  BY <1>1, <1>2, TailFacts
<1> HIDE DEF m
<1>4. m.to \in LPs /\ m \in Travelling(i, m.to)
  BY <1>3 DEF Passing, Travelling, ControlsFrom, Controls, Values
<1>5. \A a, b \in LPs : channel'[a][b] \in Seq(Travelling(a, b))
  BY <1>1, <1>4, PutTyped DEF TypedInv
<1>6. \A a \in LPs : controlQueue'[a] \in Seq(Passing(a))
  BY <1>1, <1>3 DEF TypedInv, NetTyped, IInv, ShapeInv
<1> QED
  BY <1>1, <1>5, <1>6 DEF TypedInv, LpsTyped, CountersTyped, GvtTyped, NetTyped

\* Stamp.
LEMMA StampTyped ==
  ASSUME IInv, TypedInv, NEW i \in LPs, Stamp(i) PROVE TypedInv'
<1> DEFINE q == sendQueue[i]
<1>1. /\ q # <<>> /\ sendQueue' = [sendQueue EXCEPT ![i] = Tail(q)]
      /\ stamped' = [stamped EXCEPT ![i] =
                       [type |-> "stamped", msg |-> Head(q), colour |-> colour[i]]]
      /\ UNCHANGED <<lvt, waiting, made, controlQueue, channel, drift>>
      /\ UNCHANGED <<colour, redTime, counter, held, accepting, round, gvt, applied>>
  BY DEF Stamp, lpVars, gvtVars
<1>2. q \in Seq(SimSent) /\ colour[i] \in Colours
  BY DEF TypedInv, NetTyped, GvtTyped
<1> HIDE DEF q
<1>3. Head(q) \in SimSent /\ Tail(q) \in Seq(SimSent)
  BY <1>1, <1>2, TailFacts
<1>4. \A a \in LPs : sendQueue'[a] \in Seq(SimSent)
  BY <1>1, <1>3, QueuesTyped DEF TypedInv, q
<1>5. [type |-> "stamped", msg |-> Head(q), colour |-> colour[i]] \in Stamps
  BY <1>2, <1>3 DEF Stamps
<1>6. \A a \in LPs : stamped'[a] = None \/ stamped'[a] \in Stamps
  BY <1>1, <1>5 DEF TypedInv, NetTyped, IInv, ShapeInv
<1> QED
  BY <1>1, <1>4, <1>6 DEF TypedInv, LpsTyped, CountersTyped, GvtTyped, NetTyped

\* What CountAndSend does, with x the message in hand.
LEMMA CountAndSendIs ==
  ASSUME IInv, TypedInv, NEW i \in LPs, CountAndSend(i)
  PROVE  \E x \in SimSent, c \in Colours :
           /\ stamped[i] = [type |-> "stamped", msg |-> x, colour |-> c]
           /\ channel' = Put(i, x.to, [type |-> x.type, time |-> x.time, to |-> x.to, colour |-> c])
           /\ [type |-> x.type, time |-> x.time, to |-> x.to, colour |-> c] \in Travelling(i, x.to)
           /\ x.to \in LPs
           /\ \/ /\ colour[i] = "white" /\ counter' = AddTo(i, x.to, 1) /\ redTime' = redTime
                 /\ drift' = [drift EXCEPT ![x.to] = IF c = "white" THEN @ ELSE @ + 1]
              \/ /\ colour[i] # "white" /\ counter' = counter
                 /\ redTime' = [redTime EXCEPT ![i] = Min({@, x.time})]
                 /\ drift' = [drift EXCEPT ![x.to] = IF c = "white" THEN @ - 1 ELSE @]
<1> DEFINE x == stamped[i].msg
           c == stamped[i].colour
           m == [type |-> x.type, time |-> x.time, to |-> x.to, colour |-> c]
<1>1. stamped[i] \in Stamps
  BY DEF CountAndSend, TypedInv, NetTyped
<1>2. x \in SimSent /\ c \in Colours /\ stamped[i] = [type |-> "stamped", msg |-> x, colour |-> c]
  BY <1>1 DEF Stamps
<1>3. /\ channel' = Put(i, x.to, m)
      /\ \/ /\ colour[i] = "white" /\ counter' = AddTo(i, x.to, 1) /\ redTime' = redTime
            /\ drift' = [drift EXCEPT ![x.to] = IF c = "white" THEN @ ELSE @ + 1]
         \/ /\ colour[i] # "white" /\ counter' = counter
            /\ redTime' = [redTime EXCEPT ![i] = Min({@, x.time})]
            /\ drift' = [drift EXCEPT ![x.to] = IF c = "white" THEN @ - 1 ELSE @]
  BY DEF CountAndSend
<1> HIDE DEF x, c
<1>4. m \in Coloured /\ x.to \in LPs
  BY <1>2 DEF SimSent, Coloured
<1>5. m \in Travelling(i, x.to)
  BY <1>4 DEF Travelling
<1> QED
  BY <1>2, <1>3, <1>4, <1>5

\* CountAndSend.
LEMMA CountAndSendTyped ==
  ASSUME IInv, TypedInv, NEW i \in LPs, CountAndSend(i) PROVE TypedInv'
<1> USE NumbersFacts
<1>1. PICK x \in SimSent, c \in Colours :
           /\ stamped[i] = [type |-> "stamped", msg |-> x, colour |-> c]
           /\ channel' = Put(i, x.to, [type |-> x.type, time |-> x.time, to |-> x.to, colour |-> c])
           /\ [type |-> x.type, time |-> x.time, to |-> x.to, colour |-> c] \in Travelling(i, x.to)
           /\ x.to \in LPs
           /\ \/ /\ colour[i] = "white" /\ counter' = AddTo(i, x.to, 1) /\ redTime' = redTime
                 /\ drift' = [drift EXCEPT ![x.to] = IF c = "white" THEN @ ELSE @ + 1]
              \/ /\ colour[i] # "white" /\ counter' = counter
                 /\ redTime' = [redTime EXCEPT ![i] = Min({@, x.time})]
                 /\ drift' = [drift EXCEPT ![x.to] = IF c = "white" THEN @ - 1 ELSE @]
  BY CountAndSendIs
<1>2. /\ stamped' = [stamped EXCEPT ![i] = None]
      /\ UNCHANGED <<lvt, waiting, made, colour, held, accepting, round, gvt, applied,
                     sendQueue, controlQueue>>
  BY DEF CountAndSend, lpVars
<1>3. \A a, b \in LPs : channel'[a][b] \in Seq(Travelling(a, b))
  BY <1>1, PutTyped DEF TypedInv
<1>4. \A a \in LPs : stamped'[a] = None \/ stamped'[a] \in Stamps
  BY <1>2 DEF TypedInv, NetTyped, IInv, ShapeInv
<1>5. NetTyped' /\ LpsTyped'
  BY <1>2, <1>3, <1>4 DEF TypedInv, NetTyped, LpsTyped
<1>6. redTime' \in [LPs -> Nat]
  <2>1. redTime \in [LPs -> Nat] /\ x.time \in Nat
    BY DEF TypedInv, GvtTyped, SimSent
  <2>2. Min({redTime[i], x.time}) \in Nat
    BY <2>1, MinOfTwo
  <2> QED
    BY <1>1, <2>1, <2>2
<1>7. GvtTyped'
  BY <1>2, <1>6 DEF TypedInv, GvtTyped
<1>8. drift' \in [LPs -> Int]
  BY <1>1 DEF TypedInv, CountersTyped
<1>9. PICK n \in Int : n = 1
  OBVIOUS
<1>10. counter' = AddTo(i, x.to, n) \/ counter' = counter
  BY <1>1, <1>9
<1>11. CountersTyped'
  <2>1. CASE counter' = counter
    BY <1>8, <2>1 DEF TypedInv, CountersTyped
  <2>2. CASE counter' = AddTo(i, x.to, n)
    <3>1. PICK j \in LPs : j = x.to
      BY <1>1
    <3>2. PICK c2 : c2 = AddTo(i, j, n)
      OBVIOUS
    <3>3. CountersTyped
      BY DEF TypedInv
    <3>4. /\ DOMAIN c2 = LPs
          /\ \A a \in LPs : c2[a] \in [DOMAIN c2[a] -> Int] /\ DOMAIN c2[a] \subseteq LPs
      BY <3>2, <3>3, AddToTyped
    <3> QED
      BY <1>8, <2>2, <3>1, <3>2, <3>4 DEF CountersTyped
  <2> QED
    BY <1>10, <2>1, <2>2
<1> QED
  BY <1>5, <1>7, <1>11 DEF TypedInv

-----------------------------------------------------------------------------
(* and the GVT computation. *)

\* Values are messages that the starter may send, however many there are.
LEMMA ValuesList ==
  ASSUME NEW v \in Times, round \in Nat
  PROVE  LET t == SetToSeq({Value(v, round, k) : k \in Alps})
         IN /\ t \in Seq(Values)
            /\ \A k, l \in 1 .. Len(t) : t[k].to = t[l].to => k = l
            /\ \A k \in 1 .. Len(t) : t[k].type = "value" /\ t[k].round = round /\ t[k].to \in Alps
            /\ \A i \in Alps : \E k \in 1 .. Len(t) : t[k].to = i
<1> DEFINE S == {Value(v, round, k) : k \in Alps}
           t == SetToSeq(S)
<1>1. IsFiniteSet(S)
  <2> DEFINE f == [k \in Alps |-> Value(v, round, k)]
  <2>1. f \in Surjection(Alps, S)
    BY DEF Surjection
  <2> HIDE DEF f, S
  <2> QED
    BY <2>1, StarterIsLp, FS_Surjection
<1>2. /\ S \subseteq Values
      /\ \A x \in S : x.type = "value" /\ x.round = round /\ x.to \in Alps
      /\ \A x, y \in S : x.to = y.to => x = y
      /\ \A i \in Alps : \E x \in S : x.to = i
  <2>1. \A k \in Alps : /\ Value(v, round, k) \in Values
                        /\ Value(v, round, k).type = "value" /\ Value(v, round, k).round = round
                        /\ Value(v, round, k).to = k
    BY StarterIsLp DEF Value, Values
  <2>2. \A x \in S : \E k \in Alps : x = Value(v, round, k)
    OBVIOUS
  <2>3. \A k \in Alps : Value(v, round, k) \in S
    OBVIOUS
  <2> HIDE DEF S
  <2> QED
    BY <2>1, <2>2, <2>3
<1> HIDE DEF S
<1>3. /\ t \in Seq(S)
      /\ \A k, l \in 1 .. Len(t) : t[k] = t[l] => k = l
      /\ \A x \in S : \E k \in 1 .. Len(t) : t[k] = x
  BY <1>1, SetToSeqFacts
<1> HIDE DEF t
<1>4. \A k \in 1 .. Len(t) : t[k] \in S
  BY <1>3, ElementOfSeq
<1>5. t \in Seq(Values)
  BY <1>2, <1>3, SeqMonotonic
<1>6. \A k, l \in 1 .. Len(t) : t[k].to = t[l].to => k = l
  BY <1>2, <1>3, <1>4
<1>7. \A i \in Alps : \E k \in 1 .. Len(t) : t[k].to = i
  BY <1>2, <1>3
<1>8. \A k \in 1 .. Len(t) : t[k].type = "value" /\ t[k].round = round /\ t[k].to \in Alps
  BY <1>2, <1>4
<1> QED
  BY <1>5, <1>6, <1>7, <1>8 DEF t, S

\* A control message that knows an LVT leaves LP i, or ends the round.
LEMMA HandledTyped ==
  ASSUME IInv, TypedInv, NEW i \in LPs, NEW m \in Controls, m.minTime \in Times,
         Pass(i, m) \/ SendAndSetGvt(m)
  PROVE  /\ \A a \in LPs : controlQueue'[a] \in Seq(Passing(a))
         /\ accepting' \in BOOLEAN /\ gvt' \in [LPs -> Times] /\ applied' \in [LPs -> Nat]
<1> USE NumbersFacts
<1>1. CASE Pass(i, m)
  <2>1. [m EXCEPT !.to = NextLp(i)] \in Passing(i)
    BY DEF Passing, ControlsFrom, Controls
  <2>2. controlQueue' = Queueing(i, [m EXCEPT !.to = NextLp(i)])
        /\ UNCHANGED <<accepting, gvt, applied>>
    BY <1>1 DEF Pass
  <2>3. \A a \in LPs : controlQueue'[a] \in Seq(Passing(a))
    BY <2>1, <2>2, QueuesTyped DEF TypedInv
  <2> QED
    BY <2>2, <2>3 DEF TypedInv, GvtTyped
<1>2. CASE SendAndSetGvt(m)
  <2> DEFINE v == IF m.minTime < m.redMin THEN m.minTime ELSE m.redMin
             q == controlQueue[Starter]
             t == SetToSeq({Value(v, round, k) : k \in Alps})
  <2>1. v \in Times
    BY DEF Controls, Times
  <2>2. /\ accepting' = TRUE
        /\ controlQueue' = [controlQueue EXCEPT ![Starter] = q \o t]
        /\ gvt' = [gvt EXCEPT ![Starter] = v] /\ applied' = [applied EXCEPT ![Starter] = round]
    BY <1>2 DEF SendAndSetGvt
  <2> HIDE DEF v
  <2>3. round \in Nat /\ gvt \in [LPs -> Times] /\ applied \in [LPs -> Nat]
    BY DEF TypedInv, GvtTyped
  <2>4. q \in Seq(Passing(Starter)) /\ t \in Seq(Passing(Starter))
    <3>1. t \in Seq(Values) /\ Values \subseteq Passing(Starter)
      BY <2>1, <2>3, ValuesList DEF Passing
    <3> HIDE DEF t
    <3>2. t \in Seq(Passing(Starter))
      BY <3>1, SeqMonotonic
    <3> QED
      BY <3>2 DEF TypedInv, NetTyped
  <2> HIDE DEF q, t
  <2>5. q \o t \in Seq(Passing(Starter))
    BY <2>4, ConcatFacts
  <2>6. \A a \in LPs : controlQueue'[a] \in Seq(Passing(a))
    BY <2>2, <2>5 DEF TypedInv, NetTyped, IInv, ShapeInv
  <2> QED
    BY <2>1, <2>2, <2>3, <2>6
<1> QED
  BY <1>1, <1>2

\* What the first cut passes on has seen an ALP's LVT.
LEMMA FirstCutIs ==
  ASSUME IInv, TypedInv, NEW j \in LPs, NEW i \in LPs, FirstCut(j, i)
  PROVE  \E m \in Controls : m.minTime \in Times /\ (Pass(i, m) \/ SendAndSetGvt(m))
<1> USE NumbersFacts
<1> DEFINE m   == Head(channel[j][i])
           sum == [m EXCEPT !.minTime = Min({@, lvt[i]}),
                            !.count   = [k \in LPs |-> @[k] + CountOf(i, k)]]
           second == [sum EXCEPT !.cut = "second"]
<1>1. channel[j][i] # <<>> /\ m.type = "control" /\ m.cut = "first" /\ channel' = Taken(j, i)
  BY DEF FirstCut, IsNext
<1>2. Pass(i, sum) \/ Pass(i, second) \/ SendAndSetGvt(sum)
  BY DEF FirstCut
<1>3. m \in Travelling(j, i)
  BY <1>1, TakenTyped DEF TypedInv
<1> HIDE DEF m
<1>4. m \in ControlsFrom(j) /\ m.to = i
  BY <1>1, <1>3, Kinds DEF Travelling
<1>5. m \in Controls /\ (i = Starter => m.minTime \in Times)
  BY <1>4 DEF ControlsFrom
<1>6. m.minTime \in Nat /\ m.count \in [LPs -> Int] /\ lvt[i] \in Nat
  BY <1>5 DEF Controls, TypedInv, LpsTyped
<1>7. PICK n : n = Min({m.minTime, lvt[i]})
  OBVIOUS
<1>8. n \in Times
  <2>0. n \in Nat /\ n \in {m.minTime, lvt[i]} /\ n <= m.minTime /\ n <= lvt[i]
    BY <1>6, <1>7, MinOfTwo
  <2>1. CASE i = Starter
    BY <1>5, <1>6, <2>0, <2>1 DEF Times
  <2>2. CASE i # Starter
    <3>1. i \in Alps /\ made[i] \in 0 .. MaxRequests /\ waiting[i] \in BOOLEAN
          /\ lvt[i] + (IF waiting[i] THEN 2 ELSE 0) <= 2 * made[i]
      BY <2>2 DEF Alps, TypedInv, LpsTyped
    <3>2. lvt[i] <= 2 * MaxRequests
      BY <1>6, <3>1
    <3> QED
      BY <1>6, <2>0, <3>2 DEF Times
  <2> QED
    BY <2>1, <2>2
<1>9. PICK c : c = [k \in LPs |-> m.count[k] + CountOf(i, k)]
  OBVIOUS
<1>10. c \in [LPs -> Int]
  <2>1. \A k \in LPs : CountOf(i, k) \in Int
    BY DEF CountOf, TypedInv, CountersTyped
  <2> QED
    BY <1>6, <1>9, <2>1
<1>11. sum = [m EXCEPT !.minTime = n, !.count = c]
  BY <1>7, <1>9
<1>12. sum \in Controls /\ sum.minTime = n
  BY <1>5, <1>8, <1>10, <1>11 DEF Controls
<1>13. second \in Controls /\ second.minTime = n
  <2> HIDE DEF sum
  <2> QED
    BY <1>12 DEF Controls
<1> HIDE DEF sum, second
<1> QED
  BY <1>2, <1>8, <1>12, <1>13

\* FirstCut.
LEMMA FirstCutTyped ==
  ASSUME IInv, TypedInv, NEW j \in LPs, NEW i \in LPs, FirstCut(j, i) PROVE TypedInv'
<1> USE NumbersFacts
<1>1. PICK m \in Controls : m.minTime \in Times /\ (Pass(i, m) \/ SendAndSetGvt(m))
  BY FirstCutIs
<1>2. /\ channel[j][i] # <<>> /\ channel' = Taken(j, i)
      /\ redTime' = [redTime EXCEPT ![i] = Infinity]
      /\ \E c \in Colours : colour' = [colour EXCEPT ![i] = c]
      /\ UNCHANGED <<lvt, waiting, made, counter, held, round, sendQueue, stamped, drift>>
  BY DEF FirstCut, IsNext, lpVars, Colours
<1>3. /\ \A a \in LPs : controlQueue'[a] \in Seq(Passing(a))
      /\ accepting' \in BOOLEAN /\ gvt' \in [LPs -> Times] /\ applied' \in [LPs -> Nat]
  BY <1>1, HandledTyped
<1>4. \A a, b \in LPs : channel'[a][b] \in Seq(Travelling(a, b))
  BY <1>2, TakenTyped DEF TypedInv
<1>5. GvtTyped'
  BY <1>2, <1>3 DEF TypedInv, GvtTyped
<1> QED
  BY <1>2, <1>3, <1>4, <1>5 DEF TypedInv, LpsTyped, CountersTyped, NetTyped

\* SecondCut.
LEMMA SecondCutTyped ==
  ASSUME IInv, TypedInv, NEW j \in LPs, NEW i \in LPs, SecondCut(j, i) PROVE TypedInv'
<1> USE NumbersFacts
<1>1. PICK m : m = Head(channel[j][i])
  OBVIOUS
<1>2. /\ channel[j][i] # <<>> /\ channel' = Taken(j, i) /\ m.type = "control"
      /\ m.cut = "second" /\ held' = [held EXCEPT ![i] = m]
      /\ UNCHANGED <<lvt, waiting, made, colour, redTime, counter, accepting, round, gvt, applied>>
      /\ UNCHANGED <<sendQueue, stamped, controlQueue, drift>>
  BY <1>1 DEF SecondCut, IsNext, lpVars
<1>3. m \in Travelling(j, i) /\ \A a, b \in LPs : channel'[a][b] \in Seq(Travelling(a, b))
  BY <1>1, <1>2, TakenTyped DEF TypedInv
<1>4. m \in SecondCuts
  <2>1. m \in ControlsFrom(j)
    BY <1>2, <1>3, Kinds DEF Travelling
  <2> QED
    BY <1>2, <2>1 DEF ControlsFrom, SecondCuts
<1>5. \A a \in LPs : held'[a] = None \/ held'[a] \in SecondCuts
  BY <1>2, <1>4 DEF TypedInv, NetTyped, IInv, ShapeInv
<1> QED
  BY <1>2, <1>3, <1>5 DEF TypedInv, LpsTyped, CountersTyped, GvtTyped, NetTyped

\* What the second cut passes on.
LEMMA SecondCutDoneIs ==
  ASSUME IInv, TypedInv, NEW i \in LPs, SecondCutDone(i)
  PROVE  \E m \in Controls : m.minTime \in Times /\ (Pass(i, m) \/ SendAndSetGvt(m))
<1> USE NumbersFacts
<1> DEFINE done == [held[i] EXCEPT !.minTime  = Min({@, lvt[i]}),
                                   !.redMin   = Min({@, redTime[i]}),
                                   !.count[i] = 0]
<1>1. /\ held[i] # None /\ held' = [held EXCEPT ![i] = None]
      /\ (Pass(i, done) \/ SendAndSetGvt(done))
      /\ colour' = [colour EXCEPT ![i] = "white"]
      /\ UNCHANGED <<lvt, waiting, made, redTime, counter, round, sendQueue, stamped, channel, drift>>
  BY DEF SecondCutDone, lpVars
<1>2. held[i] \in Controls /\ held[i].minTime \in Times
  BY <1>1 DEF TypedInv, NetTyped, SecondCuts
<1>3. /\ held[i].minTime \in Nat /\ held[i].redMin \in Nat /\ held[i].count \in [LPs -> Int]
      /\ lvt[i] \in Nat /\ redTime[i] \in Nat
  BY <1>2 DEF Controls, TypedInv, LpsTyped, GvtTyped
<1>4. PICK n \in Times : n = Min({held[i].minTime, lvt[i]})
  <2>1. Min({held[i].minTime, lvt[i]}) \in Nat /\ Min({held[i].minTime, lvt[i]}) <= held[i].minTime
    BY <1>3, MinOfTwo
  <2> QED
    BY <1>2, <2>1 DEF Times
<1>5. PICK r \in Nat : r = Min({held[i].redMin, redTime[i]})
  BY <1>3, MinOfTwo
<1>6. PICK c \in [LPs -> Int] : c = [held[i].count EXCEPT ![i] = 0]
  <2>1. PICK f \in [LPs -> Int] : f = held[i].count
    BY <1>3
  <2>2. [f EXCEPT ![i] = 0] \in [LPs -> Int]
    OBVIOUS
  <2> QED
    BY <2>1, <2>2
<1>7. done = [held[i] EXCEPT !.minTime = n, !.redMin = r, !.count = c]
  BY <1>2, <1>4, <1>5, <1>6 DEF Controls
<1>8. done \in Controls /\ done.minTime = n
  BY ZenonT(60), <1>2, <1>7 DEF Controls
<1> HIDE DEF done
<1> QED
  BY <1>1, <1>8

\* SecondCutDone.
LEMMA SecondCutDoneTyped ==
  ASSUME IInv, TypedInv, NEW i \in LPs, SecondCutDone(i) PROVE TypedInv'
<1> USE NumbersFacts
<1>1. /\ held[i] # None /\ held' = [held EXCEPT ![i] = None]
      /\ colour' = [colour EXCEPT ![i] = "white"]
      /\ UNCHANGED <<lvt, waiting, made, redTime, counter, round, sendQueue, stamped, channel, drift>>
  BY DEF SecondCutDone, lpVars
<1>2. PICK m \in Controls : m.minTime \in Times /\ (Pass(i, m) \/ SendAndSetGvt(m))
  BY SecondCutDoneIs
<1>9. /\ \A a \in LPs : controlQueue'[a] \in Seq(Passing(a))
      /\ accepting' \in BOOLEAN /\ gvt' \in [LPs -> Times] /\ applied' \in [LPs -> Nat]
  BY <1>2, HandledTyped
<1>10. \A a \in LPs : held'[a] = None \/ held'[a] \in SecondCuts
  BY <1>1 DEF TypedInv, NetTyped, IInv, ShapeInv
<1>11. GvtTyped'
  BY <1>1, <1>9 DEF TypedInv, GvtTyped, Colours
<1> QED
  BY <1>1, <1>9, <1>10, <1>11 DEF TypedInv, LpsTyped, CountersTyped, NetTyped

\* StartRound: the first control message has seen no LVT yet.
LEMMA StartRoundTyped ==
  ASSUME IInv, TypedInv, StartRound PROVE TypedInv'
<1> USE NumbersFacts
<1>1. PICK m : m = Control("first", Infinity, Infinity, [k \in LPs |-> 0], NextLp(Starter))
  OBVIOUS
<1>2. m \in Passing(Starter)
  BY <1>1 DEF Passing, ControlsFrom, Controls, Control
<1>3. /\ controlQueue' = Queueing(Starter, m) /\ round' = round + 1 /\ round < MaxRounds
      /\ accepting' = FALSE /\ colour' = [colour EXCEPT ![Starter] = "white"]
      /\ UNCHANGED <<lvt, waiting, made, redTime, counter, held, gvt, applied, sendQueue, stamped,
                     channel, drift>>
  BY <1>1 DEF StartRound, lpVars
<1>4. \A a \in LPs : controlQueue'[a] \in Seq(Passing(a))
  BY <1>2, <1>3, QueuesTyped DEF TypedInv
<1>5. round' \in 0 .. MaxRounds
  BY <1>3 DEF TypedInv, GvtTyped
<1>6. colour' \in [LPs -> Colours]
  BY <1>3 DEF TypedInv, GvtTyped, Colours
<1>7. GvtTyped'
  BY <1>3, <1>5, <1>6 DEF TypedInv, GvtTyped
<1> QED
  BY <1>3, <1>4, <1>7 DEF TypedInv, LpsTyped, CountersTyped, NetTyped

\* SetValue: a value is a time, and never Infinity.
LEMMA SetValueTyped ==
  ASSUME IInv, TypedInv, NEW i \in Alps, SetValue(i) PROVE TypedInv'
<1> USE NumbersFacts
<1>1. PICK m : m = Head(channel[Starter][i])
  OBVIOUS
<1>2. /\ channel[Starter][i] # <<>> /\ channel' = Taken(Starter, i) /\ m.type = "value"
      /\ gvt' = [gvt EXCEPT ![i] = m.gvt] /\ applied' = [applied EXCEPT ![i] = m.round]
      /\ colour' = [colour EXCEPT ![i] = "white"]
      /\ UNCHANGED <<lvt, waiting, made, redTime, counter, held, accepting, round, sendQueue, stamped,
                     controlQueue, drift>>
  BY <1>1 DEF SetValue, IsNext, lpVars
<1>3. m \in Travelling(Starter, i) /\ \A a, b \in LPs : channel'[a][b] \in Seq(Travelling(a, b))
  BY <1>1, <1>2, TakenTyped DEF TypedInv
<1>4. m.gvt \in Times /\ m.round \in Nat
  <2>1. m \in Values
    BY <1>2, <1>3, Kinds
  <2> QED
    BY <2>1 DEF Values
<1>5. GvtTyped'
  BY <1>2, <1>4 DEF TypedInv, GvtTyped, Colours
<1> QED
  BY <1>2, <1>3, <1>5 DEF TypedInv, LpsTyped, CountersTyped, NetTyped

-----------------------------------------------------------------------------
\* The types hold at the start.
LEMMA InitTyped == Init => TypedInv
<1> SUFFICES ASSUME Init PROVE TypedInv
  OBVIOUS
<1> USE NumbersFacts DEF Init
<1>1. LpsTyped
  BY DEF LpsTyped, Alps
<1>2. CountersTyped
  <2>1. DOMAIN counter = LPs /\ \A i \in LPs : counter[i] = <<>>
    OBVIOUS
  <2>2. DOMAIN <<>> = {} /\ <<>> \in [DOMAIN <<>> -> Int]
    OBVIOUS
  <2> QED
    BY <2>1, <2>2 DEF CountersTyped
<1>3. GvtTyped
  BY DEF GvtTyped, Colours
<1>4. NetTyped
  BY DEF NetTyped
<1> QED
  BY <1>1, <1>2, <1>3, <1>4 DEF TypedInv

\* Every step keeps the types.
LEMMA TypedStep == IInv /\ TypedInv /\ [Next]_vars => TypedInv'
<1> SUFFICES ASSUME IInv, TypedInv, [Next]_vars PROVE TypedInv'
  OBVIOUS
<1>1. CASE UNCHANGED vars
  BY <1>1 DEF vars, lpVars, gvtVars, netVars, TypedInv, LpsTyped, CountersTyped, GvtTyped, NetTyped
<1>2. CASE StartRound
  BY <1>2, StartRoundTyped
<1>3. CASE \E i \in Alps : \/ MakeRequest(i) \/ ClpRequest(i) \/ AlpResponse(i)
                           \/ AlpRollback(i) \/ SetValue(i)
  BY <1>3, MakeRequestTyped, ClpRequestTyped, AlpTypedStep, SetValueTyped
<1>4. CASE \E i \in LPs : SendControl(i) \/ Stamp(i) \/ CountAndSend(i) \/ SecondCutDone(i)
  BY <1>4, SendControlTyped, StampTyped, CountAndSendTyped, SecondCutDoneTyped
<1>5. CASE \E i, j \in LPs : FirstCut(j, i) \/ SecondCut(j, i)
  BY <1>5, FirstCutTyped, SecondCutTyped
<1> QED
  BY <1>1, <1>2, <1>3, <1>4, <1>5 DEF Next

-----------------------------------------------------------------------------
(* The values on their way to an LP.                                       *)

\* The last computation that has ended.
Done == IF accepting THEN round ELSE round - 1

IsValueTo(m, i) == m.type = "value" /\ m.to = i

\* The computations whose values for LP i stand in a list, and that they stand there
\* in the order of the computations.
RoundsIn(s, i) == {s[k].round : k \in {k \in 1 .. Len(s) : IsValueTo(s[k], i)}}

Increasing(s, i) ==
  \A k, l \in 1 .. Len(s) :
     k < l /\ IsValueTo(s[k], i) /\ IsValueTo(s[l], i) => s[k].round < s[l].round

\* Between what an ALP has applied and what the starter has computed, each value is on
\* its way, first in the starter's queue and then in the channel, in order.
ValuesOnTheWay(i) ==
  LET c == channel[Starter][i]
      q == controlQueue[Starter]
  IN /\ applied[i] <= Done
     /\ Increasing(c, i) /\ Increasing(q, i)
     /\ \A x \in RoundsIn(c, i), y \in RoundsIn(q, i) : x < y
     /\ RoundsIn(c, i) \union RoundsIn(q, i) = applied[i] + 1 .. Done

ValueInv ==
  /\ Done \in Nat /\ applied[Starter] = Done
  /\ \A i \in Alps : ValuesOnTheWay(i)

\* The values in a list to which a message is appended.
LEMMA AppendRounds ==
  ASSUME NEW T, NEW s \in Seq(T), NEW m \in T, NEW i
  PROVE  /\ RoundsIn(Append(s, m), i) =
              RoundsIn(s, i) \union (IF IsValueTo(m, i) THEN {m.round} ELSE {})
         /\ Increasing(s, i) /\ (IsValueTo(m, i) => \A x \in RoundsIn(s, i) : x < m.round) =>
              Increasing(Append(s, m), i)
<1> DEFINE a == Append(s, m)
<1>1. /\ Len(s) \in Nat /\ Len(a) = Len(s) + 1
      /\ \A k \in 1 .. Len(s) : a[k] = s[k]
      /\ a[Len(s) + 1] = m
  BY AppendProperties, LenProperties
<1> HIDE DEF a
<1>2. \A k \in 1 .. Len(a) : (k \in 1 .. Len(s) /\ a[k] = s[k]) \/ (k = Len(s) + 1 /\ a[k] = m)
  BY <1>1
<1>3. \A k \in 1 .. Len(s) : k \in 1 .. Len(a) /\ a[k] = s[k]
  BY <1>1
<1>4. Len(s) + 1 \in 1 .. Len(a)
  BY <1>1
<1>5. ASSUME NEW r PROVE r \in RoundsIn(a, i) <=> r \in RoundsIn(s, i) \/ (IsValueTo(m, i) /\ r = m.round)
  BY <1>1, <1>2, <1>3, <1>4 DEF RoundsIn
<1>6. RoundsIn(a, i) = RoundsIn(s, i) \union (IF IsValueTo(m, i) THEN {m.round} ELSE {})
  BY <1>5
<1>7. ASSUME Increasing(s, i), IsValueTo(m, i) => \A x \in RoundsIn(s, i) : x < m.round
      PROVE  Increasing(a, i)
  <2> SUFFICES ASSUME NEW k \in 1 .. Len(a), NEW l \in 1 .. Len(a), k < l,
                      IsValueTo(a[k], i), IsValueTo(a[l], i)
               PROVE  a[k].round < a[l].round
    BY DEF Increasing
  <2>1. k \in 1 .. Len(s) /\ a[k] = s[k]
    BY <1>1, <1>2
  <2>2. s[k].round \in RoundsIn(s, i)
    BY <2>1 DEF RoundsIn
  <2> QED
    BY <1>2, <1>7, <2>1, <2>2 DEF Increasing
<1> QED
  BY <1>6, <1>7 DEF a

\* A message that is no value for LP i, appended.
LEMMA AppendOther ==
  ASSUME NEW T, NEW s \in Seq(T), NEW m \in T, NEW i, ~IsValueTo(m, i), Increasing(s, i)
  PROVE  RoundsIn(Append(s, m), i) = RoundsIn(s, i) /\ Increasing(Append(s, m), i)
<1> DEFINE a == Append(s, m)
<1>1. /\ RoundsIn(a, i) = RoundsIn(s, i) \union (IF IsValueTo(m, i) THEN {m.round} ELSE {})
      /\ Increasing(s, i) /\ (IsValueTo(m, i) => \A x \in RoundsIn(s, i) : x < m.round) =>
           Increasing(a, i)
  BY AppendRounds
<1> HIDE DEF a
<1>2. RoundsIn(a, i) = RoundsIn(s, i) /\ Increasing(a, i)
  BY <1>1
<1> QED
  BY <1>2 DEF a

\* The values in a list from which the head is taken.
LEMMA TailRounds ==
  ASSUME NEW T, NEW s \in Seq(T), s # <<>>, NEW i, Increasing(s, i)
  PROVE  /\ RoundsIn(s, i) =
              RoundsIn(Tail(s), i) \union (IF IsValueTo(Head(s), i) THEN {Head(s).round} ELSE {})
         /\ Increasing(Tail(s), i)
         /\ IsValueTo(Head(s), i) => \A x \in RoundsIn(Tail(s), i) : Head(s).round < x
<1> DEFINE t == Tail(s)
<1>1. /\ Head(s) = s[1] /\ Len(t) = Len(s) - 1 /\ Len(s) \in Nat \ {0}
      /\ \A k \in 1 .. Len(t) : t[k] = s[k + 1]
  <2>1. Head(s) = s[1] /\ Len(t) = Len(s) - 1 /\ \A k \in 1 .. Len(t) : t[k] = s[k + 1]
    BY HeadTailProperties
  <2>2. Len(s) \in Nat \ {0}
    BY LenProperties, EmptySeq
  <2> QED
    BY <2>1, <2>2
<1> HIDE DEF t
<1>2. \A k \in 1 .. Len(t) : k + 1 \in 1 .. Len(s) /\ t[k] = s[k + 1] /\ 1 < k + 1 /\ k \in Nat
  BY <1>1
<1>3. \A k \in 1 .. Len(s) : k = 1 \/ (k - 1 \in 1 .. Len(t) /\ s[k] = t[k - 1])
  BY <1>1
<1>4. 1 \in 1 .. Len(s)
  BY <1>1
<1>5. ASSUME NEW r
      PROVE  r \in RoundsIn(s, i) <=> r \in RoundsIn(t, i) \/ (IsValueTo(Head(s), i) /\ r = Head(s).round)
  BY <1>1, <1>2, <1>3, <1>4 DEF RoundsIn
<1>6. RoundsIn(s, i) = RoundsIn(t, i) \union (IF IsValueTo(Head(s), i) THEN {Head(s).round} ELSE {})
  BY <1>5
<1>7. Increasing(t, i)
  <2> SUFFICES ASSUME NEW k \in 1 .. Len(t), NEW l \in 1 .. Len(t), k < l,
                      IsValueTo(t[k], i), IsValueTo(t[l], i)
               PROVE  t[k].round < t[l].round
    BY DEF Increasing
  <2>1. k + 1 \in 1 .. Len(s) /\ l + 1 \in 1 .. Len(s) /\ k + 1 < l + 1
        /\ t[k] = s[k + 1] /\ t[l] = s[l + 1]
    BY <1>2
  <2> QED
    BY <2>1 DEF Increasing
<1>8. ASSUME IsValueTo(Head(s), i), NEW x \in RoundsIn(t, i) PROVE Head(s).round < x
  <2>1. PICK k \in 1 .. Len(t) : IsValueTo(t[k], i) /\ x = t[k].round
    BY DEF RoundsIn
  <2> QED
    BY <1>1, <1>2, <1>4, <1>8, <2>1 DEF Increasing
<1> QED
  BY <1>6, <1>7, <1>8 DEF t

\* A head that is no value for LP i, taken.
LEMMA TailOther ==
  ASSUME NEW T, NEW s \in Seq(T), s # <<>>, NEW i, ~IsValueTo(Head(s), i), Increasing(s, i)
  PROVE  RoundsIn(Tail(s), i) = RoundsIn(s, i) /\ Increasing(Tail(s), i)
<1> DEFINE t == Tail(s)
<1>1. /\ RoundsIn(s, i) = RoundsIn(t, i) \union (IF IsValueTo(Head(s), i) THEN {Head(s).round} ELSE {})
      /\ Increasing(t, i)
  BY TailRounds
<1> HIDE DEF t
<1>2. RoundsIn(t, i) = RoundsIn(s, i) /\ Increasing(t, i)
  BY <1>1
<1> QED
  BY <1>2 DEF t

\* A list of one computation's values, one per ALP, appended to a list of earlier ones.
LEMMA ConcatRounds ==
  ASSUME NEW T, NEW s \in Seq(T), NEW t \in Seq(T), NEW i, NEW r \in Int,
         \A k, l \in 1 .. Len(t) : t[k].to = t[l].to => k = l,
         \A k \in 1 .. Len(t) : t[k].type = "value" /\ t[k].round = r,
         \E k \in 1 .. Len(t) : t[k].to = i,
         Increasing(s, i), \A x \in RoundsIn(s, i) : x < r
  PROVE  RoundsIn(s \o t, i) = RoundsIn(s, i) \union {r} /\ Increasing(s \o t, i)
<1> DEFINE c == s \o t
<1>1. /\ Len(s) \in Nat /\ Len(t) \in Nat /\ Len(c) = Len(s) + Len(t)
      /\ \A k \in 1 .. Len(s) + Len(t) : c[k] = IF k <= Len(s) THEN s[k] ELSE t[k - Len(s)]
  BY ConcatProperties, LenProperties
<1> HIDE DEF c
<1>2. \A k \in 1 .. Len(c) :
        (k \in 1 .. Len(s) /\ c[k] = s[k]) \/ (k - Len(s) \in 1 .. Len(t) /\ c[k] = t[k - Len(s)])
  BY <1>1
<1>3. \A k \in 1 .. Len(s) : k \in 1 .. Len(c) /\ c[k] = s[k]
  BY <1>1
<1>4. ASSUME NEW k \in 1 .. Len(t) PROVE k + Len(s) \in 1 .. Len(c) /\ c[k + Len(s)] = t[k]
  <2>1. k + Len(s) \in 1 .. Len(s) + Len(t) /\ ~(k + Len(s) <= Len(s)) /\ (k + Len(s)) - Len(s) = k
    BY <1>1
  <2> QED
    BY <1>1, <2>1
<1>5. PICK d \in 1 .. Len(t) : t[d].to = i
  OBVIOUS
<1>6. ASSUME NEW x PROVE x \in RoundsIn(c, i) <=> x \in RoundsIn(s, i) \/ x = r
  <2>1. ASSUME x \in RoundsIn(c, i) PROVE x \in RoundsIn(s, i) \/ x = r
    <3>1. PICK k \in 1 .. Len(c) : IsValueTo(c[k], i) /\ x = c[k].round
      BY <2>1 DEF RoundsIn
    <3> QED
      BY <1>2, <3>1 DEF RoundsIn
  <2>2. ASSUME x \in RoundsIn(s, i) PROVE x \in RoundsIn(c, i)
    <3>1. PICK k \in 1 .. Len(s) : IsValueTo(s[k], i) /\ x = s[k].round
      BY <2>2 DEF RoundsIn
    <3> QED
      BY <1>3, <3>1 DEF RoundsIn
  <2>3. r \in RoundsIn(c, i)
    <3>1. d + Len(s) \in 1 .. Len(c) /\ c[d + Len(s)] = t[d]
      BY <1>4, <1>5
    <3>2. IsValueTo(t[d], i) /\ t[d].round = r
      BY <1>5 DEF IsValueTo
    <3> QED
      BY <3>1, <3>2 DEF RoundsIn
  <2> QED
    BY <2>1, <2>2, <2>3
<1>7. Increasing(c, i)
  <2> SUFFICES ASSUME NEW k \in 1 .. Len(c), NEW l \in 1 .. Len(c), k < l,
                      IsValueTo(c[k], i), IsValueTo(c[l], i)
               PROVE  c[k].round < c[l].round
    BY DEF Increasing
  <2>1. CASE k \in 1 .. Len(s) /\ l \in 1 .. Len(s)
    BY <1>3, <2>1 DEF Increasing
  <2>2. CASE k \in 1 .. Len(s) /\ l \notin 1 .. Len(s)
    <3>1. c[k] = s[k] /\ s[k].round \in RoundsIn(s, i)
      BY <1>3, <2>2 DEF RoundsIn
    <3>2. c[l].round = r
      BY <1>2, <2>2
    <3> QED
      BY <3>1, <3>2
  <2>3. CASE k \notin 1 .. Len(s)
    <3>1. l \notin 1 .. Len(s)
      BY <1>1, <2>3
    <3>2. /\ k - Len(s) \in 1 .. Len(t) /\ l - Len(s) \in 1 .. Len(t)
          /\ c[k] = t[k - Len(s)] /\ c[l] = t[l - Len(s)]
      BY <1>2, <2>3, <3>1
    <3>3. k - Len(s) = l - Len(s)
      BY <3>2 DEF IsValueTo
    <3> QED
      BY <1>1, <3>3
  <2> QED
    BY <2>1, <2>2, <2>3
<1> QED
  BY <1>6, <1>7 DEF c

-----------------------------------------------------------------------------
(* How the values on their way change.                                     *)

\* A step that leaves the values in the channels and in the starter's queue as they are.
LEMMA SameValues ==
  ASSUME ValueInv, Done' = Done, applied' = applied,
         \A i \in Alps :
            /\ RoundsIn(channel'[Starter][i], i) = RoundsIn(channel[Starter][i], i)
            /\ RoundsIn(controlQueue'[Starter], i) = RoundsIn(controlQueue[Starter], i)
            /\ Increasing(channel'[Starter][i], i) /\ Increasing(controlQueue'[Starter], i)
  PROVE  ValueInv'
<1>1. \A i \in Alps : ValuesOnTheWay(i)'
  BY Zenon DEF ValueInv, ValuesOnTheWay
<1> QED
  BY <1>1 DEF ValueInv

\* A message that is no value is put on a channel, or taken from one.
LEMMA OtherOnChannel ==
  ASSUME IInv, TypedInv, ValueInv, NEW j \in LPs, NEW i \in LPs,
         \/ /\ channel[j][i] # <<>> /\ channel' = Taken(j, i)
            /\ Head(channel[j][i]).type # "value"
         \/ \E m \in Travelling(j, i) : channel' = Put(j, i, m) /\ m.type # "value"
         \/ channel' = channel
  PROVE  \A a \in Alps : /\ RoundsIn(channel'[Starter][a], a) = RoundsIn(channel[Starter][a], a)
                         /\ Increasing(channel'[Starter][a], a)
<1> USE NumbersFacts
<1> SUFFICES ASSUME NEW a \in Alps
             PROVE  /\ RoundsIn(channel'[Starter][a], a) = RoundsIn(channel[Starter][a], a)
                    /\ Increasing(channel'[Starter][a], a)
  OBVIOUS
<1>1. channel[Starter][a] \in Seq(Travelling(Starter, a)) /\ Increasing(channel[Starter][a], a)
  BY DEF TypedInv, NetTyped, ValueInv, ValuesOnTheWay
<1>2. CASE channel'[Starter][a] = channel[Starter][a]
  BY <1>1, <1>2
<1>3. CASE /\ channel[j][i] # <<>> /\ channel' = Taken(j, i)
           /\ Head(channel[j][i]).type # "value"
  <2>1. channel'[Starter][a] = IF Starter = j /\ a = i THEN Tail(channel[j][i]) ELSE channel[Starter][a]
    BY <1>3, TakenTyped DEF TypedInv
  <2>2. CASE Starter = j /\ a = i
    <3>1. ~IsValueTo(Head(channel[j][i]), a)
      BY <1>3 DEF IsValueTo
    <3>2. PICK s \in Seq(Travelling(Starter, a)) : s = channel[Starter][a]
      BY <1>1
    <3>3. s # <<>> /\ ~IsValueTo(Head(s), a) /\ Increasing(s, a)
      BY <1>1, <1>3, <2>2, <3>1, <3>2
    <3>4. RoundsIn(Tail(s), a) = RoundsIn(s, a) /\ Increasing(Tail(s), a)
      BY <3>3, TailOther
    <3> QED
      BY <2>1, <2>2, <3>2, <3>4
  <2> QED
    BY <1>2, <2>1, <2>2
<1>4. ASSUME NEW m \in Travelling(j, i), channel' = Put(j, i, m), m.type # "value"
      PROVE  /\ RoundsIn(channel'[Starter][a], a) = RoundsIn(channel[Starter][a], a)
             /\ Increasing(channel'[Starter][a], a)
  <2>0. NetTyped
    BY DEF TypedInv
  <2>1. channel'[Starter][a] = IF Starter = j /\ a = i THEN Append(channel[j][i], m)
                               ELSE channel[Starter][a]
    <3>0. channel' = Put(j, i, m)
      BY <1>4
    <3>1. \A b, c \in LPs : /\ channel'[b][c] = IF b = j /\ c = i THEN Append(channel[j][i], m)
                                                ELSE channel[b][c]
                            /\ channel'[b][c] \in Seq(Travelling(b, c))
      BY <2>0, <3>0, PutTyped
    <3> QED
      BY <3>1
  <2>2. CASE Starter = j /\ a = i
    <3>1. ~IsValueTo(m, a)
      BY <1>4 DEF IsValueTo
    <3>2. PICK s \in Seq(Travelling(Starter, a)) : s = channel[Starter][a]
      BY <1>1
    <3>3. m \in Travelling(Starter, a) /\ Increasing(s, a)
      BY <1>1, <2>2, <3>2
    <3>4. RoundsIn(Append(s, m), a) = RoundsIn(s, a) /\ Increasing(Append(s, m), a)
      BY <3>1, <3>3, AppendOther
    <3> QED
      BY <2>1, <2>2, <3>2, <3>4
  <2> QED
    BY <1>2, <2>1, <2>2
<1>5. CASE channel' = channel
  BY <1>2, <1>5
<1> QED
  BY <1>3, <1>4, <1>5

\* The same of the starter's queue, on which an LP puts a control message.
LEMMA OtherOnQueue ==
  ASSUME IInv, TypedInv, ValueInv, NEW i \in LPs, NEW m \in Passing(i), m.type = "control",
         controlQueue' = Queueing(i, m)
  PROVE  \A a \in Alps :
           /\ RoundsIn(controlQueue'[Starter], a) = RoundsIn(controlQueue[Starter], a)
           /\ Increasing(controlQueue'[Starter], a)
<1> USE NumbersFacts
<1> SUFFICES ASSUME NEW a \in Alps
             PROVE  /\ RoundsIn(controlQueue'[Starter], a) = RoundsIn(controlQueue[Starter], a)
                    /\ Increasing(controlQueue'[Starter], a)
  OBVIOUS
<1>1. controlQueue[Starter] \in Seq(Passing(Starter)) /\ Increasing(controlQueue[Starter], a)
  BY DEF TypedInv, NetTyped, ValueInv, ValuesOnTheWay
<1>2. controlQueue'[Starter] = IF Starter = i THEN Append(controlQueue[i], m)
                               ELSE controlQueue[Starter]
  BY QueuesTyped DEF TypedInv
<1>3. ~IsValueTo(m, a)
  BY DEF IsValueTo
<1>4. CASE Starter = i
  <2>1. PICK s \in Seq(Passing(Starter)) : s = controlQueue[Starter]
    BY <1>1
  <2>2. m \in Passing(Starter) /\ Increasing(s, a)
    BY <1>1, <1>4, <2>1
  <2>3. RoundsIn(Append(s, m), a) = RoundsIn(s, a) /\ Increasing(Append(s, m), a)
    BY <1>3, <2>2, AppendOther
  <2> QED
    BY <1>2, <1>4, <2>1, <2>3
<1> QED
  BY <1>1, <1>2, <1>4

\* SendControl moves a value from the starter's queue to the channel, behind the others.
LEMMA SendControlValues ==
  ASSUME IInv, TypedInv, ValueInv, NEW i \in LPs, SendControl(i) PROVE ValueInv'
<1> USE NumbersFacts
<1> DEFINE q == controlQueue[i]
           m == Head(q)
<1>1. /\ q # <<>> /\ channel' = Put(i, m.to, m)
      /\ controlQueue' = [controlQueue EXCEPT ![i] = Tail(q)]
      /\ UNCHANGED <<accepting, round, applied>>
  BY DEF SendControl, gvtVars
<1>2. q \in Seq(Passing(i))
  BY DEF TypedInv, NetTyped
<1>3. \A a \in LPs : controlQueue'[a] = IF a = i THEN Tail(q) ELSE controlQueue[a]
  BY <1>1 DEF IInv, ShapeInv
<1> HIDE DEF q
<1>4. m \in Passing(i) /\ Tail(q) \in Seq(Passing(i))
  BY <1>1, <1>2, TailFacts
<1> HIDE DEF m
<1>5. m.to \in LPs /\ m \in Travelling(i, m.to)
  BY <1>4 DEF Passing, Travelling, ControlsFrom, Controls, Values
<1>6. \A a, b \in LPs : channel'[a][b] = IF a = i /\ b = m.to THEN Append(channel[i][m.to], m)
                                         ELSE channel[a][b]
  <2>1. PICK j \in LPs : j = m.to
    BY <1>5
  <2>2. NetTyped /\ m \in Travelling(i, j) /\ channel' = Put(i, j, m)
    BY <1>1, <1>5, <2>1 DEF TypedInv
  <2>3. \A a, b \in LPs : channel'[a][b] = IF a = i /\ b = j THEN Append(channel[i][j], m)
                                           ELSE channel[a][b]
    BY <2>2, PutTyped
  <2> QED
    BY <2>1, <2>3
<1>7. Done' = Done
  BY <1>1 DEF Done
<1>8. CASE i # Starter
  <2>1. \A a \in Alps : channel'[Starter][a] = channel[Starter][a]
    BY <1>6, <1>8
  <2>2. controlQueue'[Starter] = controlQueue[Starter]
    BY <1>3, <1>8
  <2>3. \A a \in Alps : Increasing(channel[Starter][a], a) /\ Increasing(controlQueue[Starter], a)
    BY DEF ValueInv, ValuesOnTheWay
  <2> QED
    BY <1>1, <1>7, <2>1, <2>2, <2>3, SameValues
<1>9. CASE i = Starter
  <2>1. ASSUME NEW a \in Alps PROVE ValuesOnTheWay(a)'
    <3> DEFINE c  == channel[Starter][a]
               c2 == channel'[Starter][a]
               t  == Tail(q)
    <3>1. /\ applied[a] <= Done /\ Increasing(c, a) /\ Increasing(q, a)
          /\ \A x \in RoundsIn(c, a), y \in RoundsIn(q, a) : x < y
          /\ RoundsIn(c, a) \union RoundsIn(q, a) = applied[a] + 1 .. Done
      BY <1>9 DEF ValueInv, ValuesOnTheWay, q
    <3>2. /\ RoundsIn(q, a) = RoundsIn(t, a) \union (IF IsValueTo(m, a) THEN {m.round} ELSE {})
          /\ Increasing(t, a)
          /\ IsValueTo(m, a) => \A x \in RoundsIn(t, a) : m.round < x
      BY <1>1, <1>2, <3>1, TailRounds DEF m
    <3>3. c2 = IF a = m.to THEN Append(c, m) ELSE c
      BY <1>6, <1>9
    <3>4. controlQueue'[Starter] = t
      BY <1>3, <1>9
    <3>5. /\ RoundsIn(c2, a) = RoundsIn(c, a) \union (IF IsValueTo(m, a) THEN {m.round} ELSE {})
          /\ Increasing(c2, a)
      <4>1. CASE a = m.to
        <5>1. c \in Seq(Travelling(Starter, a)) /\ m \in Travelling(Starter, a)
          BY <1>5, <1>9, <4>1 DEF TypedInv, NetTyped
        <5>2. IsValueTo(m, a) => \A x \in RoundsIn(c, a) : x < m.round
          BY <3>1, <3>2
        <5> HIDE DEF c, c2
        <5>3. /\ RoundsIn(Append(c, m), a) =
                   RoundsIn(c, a) \union (IF IsValueTo(m, a) THEN {m.round} ELSE {})
              /\ Increasing(Append(c, m), a)
          BY <3>1, <5>1, <5>2, AppendRounds
        <5> QED
          BY <3>3, <4>1, <5>3
      <4>2. CASE a # m.to
        <5>1. ~IsValueTo(m, a) /\ c2 = c
          BY <3>3, <4>2 DEF IsValueTo
        <5> QED
          BY <3>1, <5>1
      <4> QED
        BY <4>1, <4>2
    <3> HIDE DEF c, c2, t
    <3>6. RoundsIn(c2, a) \union RoundsIn(t, a) = applied[a] + 1 .. Done
      BY <3>1, <3>2, <3>5
    <3>7. \A x \in RoundsIn(c2, a), y \in RoundsIn(t, a) : x < y
      BY <3>1, <3>2, <3>5
    <3> QED
      BY <1>1, <1>7, <3>1, <3>2, <3>4, <3>5, <3>6, <3>7 DEF ValuesOnTheWay, c2
  <2> QED
    BY <1>1, <1>7, <2>1 DEF ValueInv
<1> QED
  BY <1>8, <1>9

\* SetValue takes the next value, which is that of the next computation.
LEMMA SetValueValues ==
  ASSUME IInv, TypedInv, ValueInv, NEW i \in Alps, SetValue(i)
  PROVE  /\ ValueInv'
         /\ applied' = [applied EXCEPT ![i] = applied[i] + 1]
<1> USE NumbersFacts
<1> DEFINE c == channel[Starter][i]
           m == Head(c)
           q == controlQueue[Starter]
           t == Tail(c)
<1>1. /\ c # <<>> /\ channel' = Taken(Starter, i) /\ m.type = "value"
      /\ applied' = [applied EXCEPT ![i] = m.round]
      /\ UNCHANGED <<accepting, round, controlQueue>>
  BY DEF SetValue, IsNext
<1>2. c \in Seq(Travelling(Starter, i)) /\ m \in Travelling(Starter, i)
      /\ \A a \in Alps : channel'[Starter][a] = IF a = i THEN t ELSE channel[Starter][a]
  BY <1>1, TakenTyped DEF TypedInv, NetTyped
<1>3. /\ applied[i] <= Done /\ Increasing(c, i) /\ Increasing(q, i)
      /\ \A x \in RoundsIn(c, i), y \in RoundsIn(q, i) : x < y
      /\ RoundsIn(c, i) \union RoundsIn(q, i) = applied[i] + 1 .. Done
      /\ Done \in Nat /\ applied[Starter] = Done
      /\ applied \in [LPs -> Nat]
  BY DEF ValueInv, ValuesOnTheWay, TypedInv, GvtTyped
<1> HIDE DEF c, q
<1>4. IsValueTo(m, i)
  BY <1>1, <1>2 DEF IsValueTo, Travelling
<1>5. /\ RoundsIn(c, i) = RoundsIn(t, i) \union {m.round}
      /\ Increasing(t, i) /\ \A x \in RoundsIn(t, i) : m.round < x
  BY <1>1, <1>2, <1>3, <1>4, TailRounds
<1> HIDE DEF m, t
<1>6. m.round = applied[i] + 1
  <2>1. m.round \in applied[i] + 1 .. Done /\ applied[i] \in Nat
    BY <1>3, <1>5
  <2>2. applied[i] + 1 \in applied[i] + 1 .. Done
    BY <1>3, <2>1
  <2>3. applied[i] + 1 \in RoundsIn(t, i) \/ applied[i] + 1 = m.round \/ applied[i] + 1 \in RoundsIn(q, i)
    BY <1>3, <1>5, <2>2
  <2> QED
    BY <1>3, <1>5, <2>1, <2>3
<1>7. Done' = Done
  BY <1>1 DEF Done
<1>8. applied' = [applied EXCEPT ![i] = applied[i] + 1]
  BY <1>1, <1>6
<1>9. ValuesOnTheWay(i)'
  <2>1. channel'[Starter][i] = t /\ controlQueue'[Starter] = q /\ applied'[i] = applied[i] + 1
    BY <1>1, <1>2, <1>3, <1>8 DEF q
  <2>2. applied[i] + 1 <= Done /\ applied[i] \in Nat
    BY <1>3, <1>5, <1>6
  <2>3. \A x : x \in RoundsIn(t, i) \union RoundsIn(q, i) <=> x \in applied[i] + 2 .. Done
    <3>1. \A x \in RoundsIn(t, i) \union RoundsIn(q, i) : x > m.round
      BY <1>3, <1>5
    <3>2. \A x : x \in applied[i] + 2 .. Done <=> x \in applied[i] + 1 .. Done /\ x # applied[i] + 1
      BY <1>3, <2>2
    <3>3. \A x : x \in RoundsIn(t, i) \union RoundsIn(q, i) => x # m.round
      BY <1>6, <2>2, <3>1, <1>3, <1>5
    <3> QED
      BY <1>3, <1>5, <1>6, <3>2, <3>3
  <2>4. (applied[i] + 1) + 1 = applied[i] + 2
    BY <2>2
  <2>5. RoundsIn(t, i) \union RoundsIn(q, i) = (applied[i] + 1) + 1 .. Done
    BY <2>3, <2>4
  <2>6. \A x \in RoundsIn(t, i), y \in RoundsIn(q, i) : x < y
    BY <1>3, <1>5
  <2> QED
    BY <1>3, <1>5, <1>7, <2>1, <2>2, <2>5, <2>6 DEF ValuesOnTheWay
<1>10. ASSUME NEW a \in Alps, a # i PROVE ValuesOnTheWay(a)'
  <2>1. /\ channel'[Starter][a] = channel[Starter][a] /\ controlQueue' = controlQueue
        /\ applied'[a] = applied[a]
    BY <1>1, <1>2, <1>3, <1>10
  <2> QED
    BY <1>7, <2>1 DEF ValueInv, ValuesOnTheWay
<1>11. applied'[Starter] = Done'
  BY <1>3, <1>7, <1>8 DEF Alps
<1> QED
  BY <1>3, <1>7, <1>8, <1>9, <1>10, <1>11 DEF ValueInv

\* An LP passes the control message on, or the starter puts a value for each ALP
\* behind the ones before.
LEMMA HandledValues ==
  ASSUME IInv, TypedInv, ValueInv, NEW i \in LPs, NEW m \in Controls, m.minTime \in Times,
         Pass(i, m) \/ SendAndSetGvt(m), ~accepting, round' = round,
         \A a \in Alps : /\ RoundsIn(channel'[Starter][a], a) = RoundsIn(channel[Starter][a], a)
                         /\ Increasing(channel'[Starter][a], a)
  PROVE  /\ ValueInv'
         /\ applied' = applied \/ applied' = [applied EXCEPT ![Starter] = applied[Starter] + 1]
<1> USE NumbersFacts
<1>1. CASE Pass(i, m)
  <2>1. [m EXCEPT !.to = NextLp(i)] \in Passing(i) /\ [m EXCEPT !.to = NextLp(i)].type = "control"
    BY DEF Passing, ControlsFrom, Controls
  <2>2. controlQueue' = Queueing(i, [m EXCEPT !.to = NextLp(i)])
        /\ accepting' = accepting /\ applied' = applied
    BY <1>1 DEF Pass
  <2>3. PICK x \in Passing(i) : x.type = "control" /\ controlQueue' = Queueing(i, x)
    BY <2>1, <2>2
  <2>4. \A a \in Alps :
           /\ RoundsIn(controlQueue'[Starter], a) = RoundsIn(controlQueue[Starter], a)
           /\ Increasing(controlQueue'[Starter], a)
    BY <2>3, OtherOnQueue
  <2>5. Done' = Done
    BY <2>2 DEF Done
  <2> QED
    BY <2>2, <2>4, <2>5, SameValues
<1>2. CASE SendAndSetGvt(m)
  <2> DEFINE v == IF m.minTime < m.redMin THEN m.minTime ELSE m.redMin
             q == controlQueue[Starter]
             t == SetToSeq({Value(v, round, k) : k \in Alps})
  <2>1. v \in Times
    BY DEF Controls, Times
  <2>2. /\ accepting' = TRUE
        /\ controlQueue' = [controlQueue EXCEPT ![Starter] = q \o t]
        /\ applied' = [applied EXCEPT ![Starter] = round]
    BY <1>2 DEF SendAndSetGvt
  <2> HIDE DEF v
  <2>3. round \in Nat /\ applied \in [LPs -> Nat]
    BY DEF TypedInv, GvtTyped
  <2>4. /\ t \in Seq(Values)
        /\ \A k, l \in 1 .. Len(t) : t[k].to = t[l].to => k = l
        /\ \A k \in 1 .. Len(t) : t[k].type = "value" /\ t[k].round = round /\ t[k].to \in Alps
        /\ \A a \in Alps : \E k \in 1 .. Len(t) : t[k].to = a
    BY <2>1, <2>3, ValuesList
  <2> HIDE DEF t
  <2>5. q \in Seq(Passing(Starter)) /\ t \in Seq(Passing(Starter))
    <3>1. Values \subseteq Passing(Starter)
      BY DEF Passing
    <3>2. t \in Seq(Passing(Starter))
      BY <2>4, <3>1, SeqMonotonic
    <3> QED
      BY <3>2 DEF TypedInv, NetTyped
  <2>6. Done = round - 1 /\ Done' = round /\ Done \in Nat /\ applied[Starter] = Done
    BY <2>2, <2>3 DEF Done, ValueInv
  <2>7. controlQueue'[Starter] = q \o t
    BY <2>2 DEF IInv, ShapeInv
  <2> HIDE DEF q
  <2>8. ASSUME NEW a \in Alps PROVE ValuesOnTheWay(a)'
    <3> DEFINE c  == channel[Starter][a]
               c2 == channel'[Starter][a]
    <3>1. /\ applied[a] <= Done /\ Increasing(c, a) /\ Increasing(q, a)
          /\ \A x \in RoundsIn(c, a), y \in RoundsIn(q, a) : x < y
          /\ RoundsIn(c, a) \union RoundsIn(q, a) = applied[a] + 1 .. Done
      BY DEF ValueInv, ValuesOnTheWay, q
    <3>2. RoundsIn(c2, a) = RoundsIn(c, a) /\ Increasing(c2, a)
      OBVIOUS
    <3>3. applied[a] \in Nat /\ applied'[a] = applied[a]
      BY <2>2, <2>3 DEF Alps
    <3> HIDE DEF c, c2
    <3>4. \A x \in RoundsIn(q, a) \union RoundsIn(c, a) : x < round
      BY <2>3, <2>6, <3>1, <3>3
    <3>5. RoundsIn(q \o t, a) = RoundsIn(q, a) \union {round} /\ Increasing(q \o t, a)
      <4>1. PICK r \in Int : r = round
        BY <2>3
      <4>2. /\ \A k, l \in 1 .. Len(t) : t[k].to = t[l].to => k = l
            /\ \A k \in 1 .. Len(t) : t[k].type = "value" /\ t[k].round = r
            /\ \E k \in 1 .. Len(t) : t[k].to = a
            /\ Increasing(q, a)
            /\ \A x \in RoundsIn(q, a) : x < r
        BY <2>4, <3>1, <3>4, <4>1
      <4>3. RoundsIn(q \o t, a) = RoundsIn(q, a) \union {r} /\ Increasing(q \o t, a)
        BY <2>5, <4>2, ConcatRounds
      <4> QED
        BY <4>1, <4>3
    <3>6. \A x \in RoundsIn(c2, a), y \in RoundsIn(q \o t, a) : x < y
      BY <3>1, <3>2, <3>4, <3>5
    <3>7. RoundsIn(c2, a) \union RoundsIn(q \o t, a) = applied[a] + 1 .. round
      <4>1. \A x : x \in applied[a] + 1 .. round <=> x \in applied[a] + 1 .. Done \/ x = round
        BY <2>3, <2>6, <3>1, <3>3
      <4> QED
        BY <3>1, <3>2, <3>5, <4>1
    <3>8. applied[a] <= round
      BY <2>3, <2>6, <3>1, <3>3
    <3> QED
      BY <2>6, <2>7, <3>2, <3>3, <3>5, <3>6, <3>7, <3>8 DEF ValuesOnTheWay, c2
  <2>9. applied'[Starter] = Done' /\ Done' \in Nat
    BY <2>2, <2>3, <2>6
  <2>10. round = applied[Starter] + 1
    BY <2>3, <2>6
  <2> QED
    BY <2>2, <2>8, <2>9, <2>10 DEF ValueInv
<1> QED
  BY <1>1, <1>2

\* The steps that change no value, and those of the control message.
LEMMA OtherValues ==
  ASSUME IInv, TypedInv, ValueInv, NEW i \in LPs, NEW j \in LPs, NEW k \in Alps,
         \/ MakeRequest(k) \/ ClpRequest(k) \/ AlpResponse(k) \/ AlpRollback(k)
         \/ Stamp(i) \/ CountAndSend(i) \/ SecondCut(j, i) \/ StartRound \/ UNCHANGED vars
  PROVE  ValueInv' /\ applied' = applied
<1> USE NumbersFacts
<1>1. ASSUME NEW a \in LPs, NEW b \in LPs,
             \/ /\ channel[a][b] # <<>> /\ channel' = Taken(a, b)
                /\ Head(channel[a][b]).type # "value"
             \/ \E m \in Travelling(a, b) : channel' = Put(a, b, m) /\ m.type # "value"
             \/ channel' = channel,
             UNCHANGED <<accepting, round, applied, controlQueue>>
      PROVE  ValueInv' /\ applied' = applied
  <2>1. \A c \in Alps : /\ RoundsIn(channel'[Starter][c], c) = RoundsIn(channel[Starter][c], c)
                        /\ Increasing(channel'[Starter][c], c)
    BY <1>1, OtherOnChannel
  <2>2. \A c \in Alps : Increasing(controlQueue[Starter], c)
    BY DEF ValueInv, ValuesOnTheWay
  <2>3. Done' = Done
    BY <1>1 DEF Done
  <2> QED
    BY <1>1, <2>1, <2>2, <2>3, SameValues
<1>2. CASE MakeRequest(k) \/ Stamp(i) \/ UNCHANGED vars
  <2>1. UNCHANGED <<channel, accepting, round, applied, controlQueue>>
    BY <1>2 DEF MakeRequest, Stamp, vars, gvtVars, netVars
  <2> QED
    BY <1>1, <2>1
<1>3. CASE ClpRequest(k)
  <2>1. /\ channel[k][Starter] # <<>> /\ channel' = Taken(k, Starter)
        /\ Head(channel[k][Starter]).type # "value"
        /\ UNCHANGED <<accepting, round, applied, controlQueue>>
    BY <1>3 DEF ClpRequest, IsNext
  <2> QED
    BY <1>1, <2>1
<1>4. CASE AlpResponse(k) \/ AlpRollback(k)
  <2>1. /\ channel[Starter][k] # <<>> /\ channel' = Taken(Starter, k)
        /\ Head(channel[Starter][k]).type # "value"
        /\ UNCHANGED <<accepting, round, applied, controlQueue>>
    BY <1>4 DEF AlpResponse, AlpRollback, IsNext
  <2> QED
    BY <1>1, <2>1
<1>5. CASE CountAndSend(i)
  <2>1. UNCHANGED <<accepting, round, applied, controlQueue>>
    BY <1>5 DEF CountAndSend
  <2>2. PICK b \in LPs : \E m \in Travelling(i, b) : channel' = Put(i, b, m) /\ m.type # "value"
    <3>1. PICK x \in SimSent, c \in Colours :
           /\ channel' = Put(i, x.to, [type |-> x.type, time |-> x.time, to |-> x.to, colour |-> c])
           /\ [type |-> x.type, time |-> x.time, to |-> x.to, colour |-> c] \in Travelling(i, x.to)
           /\ x.to \in LPs
      BY <1>5, CountAndSendIs
    <3>2. PICK m : m = [type |-> x.type, time |-> x.time, to |-> x.to, colour |-> c]
      OBVIOUS
    <3>3. m.type # "value"
      BY <3>2 DEF SimSent, SimKinds
    <3> QED
      BY <3>1, <3>2, <3>3
  <2> QED
    BY <1>1, <2>1, <2>2
<1>6. CASE SecondCut(j, i)
  <2>1. /\ channel[j][i] # <<>> /\ channel' = Taken(j, i)
        /\ Head(channel[j][i]).type # "value"
        /\ UNCHANGED <<accepting, round, applied, controlQueue>>
    BY <1>6 DEF SecondCut, IsNext
  <2> QED
    BY <1>1, <2>1
<1>7. CASE StartRound
  <2>1. PICK m : m = Control("first", Infinity, Infinity, [a \in LPs |-> 0], NextLp(Starter))
    OBVIOUS
  <2>2. m \in Passing(Starter) /\ m.type = "control"
    BY <2>1 DEF Passing, ControlsFrom, Controls, Control
  <2>3. /\ controlQueue' = Queueing(Starter, m) /\ round' = round + 1
        /\ accepting = TRUE /\ accepting' = FALSE /\ channel' = channel /\ applied' = applied
    BY <1>7, <2>1 DEF StartRound, TypedInv, GvtTyped
  <2>4. \A a \in Alps :
           /\ RoundsIn(controlQueue'[Starter], a) = RoundsIn(controlQueue[Starter], a)
           /\ Increasing(controlQueue'[Starter], a)
    BY <2>2, <2>3, OtherOnQueue
  <2>5. Done' = Done
    BY <2>3 DEF Done, TypedInv, GvtTyped
  <2>6. \A a \in Alps : Increasing(channel[Starter][a], a)
    BY DEF ValueInv, ValuesOnTheWay
  <2> QED
    BY <2>3, <2>4, <2>5, <2>6, SameValues
<1> QED
  BY <1>2, <1>3, <1>4, <1>5, <1>6, <1>7

\* The end of a cut at LP i: the round goes on, or its value is computed.
LEMMA CutValues ==
  ASSUME IInv, TypedInv, ValueInv, NEW i \in LPs, NEW j \in LPs, FirstCut(j, i) \/ SecondCutDone(i)
  PROVE  /\ ValueInv'
         /\ applied' = applied \/ applied' = [applied EXCEPT ![Starter] = applied[Starter] + 1]
<1> USE NumbersFacts
<1>1. CASE FirstCut(j, i)
  <2>1. /\ channel[j][i] # <<>> /\ channel' = Taken(j, i)
        /\ Head(channel[j][i]).type = "control" /\ round' = round
    BY <1>1 DEF FirstCut, IsNext
  <2>2. ~accepting
    <3>1. Flying(j, i) # {}
      BY <2>1, TakenInv
    <3> QED
      BY <3>1 DEF IInv, TokenInv
  <2>3. PICK m \in Controls : m.minTime \in Times /\ (Pass(i, m) \/ SendAndSetGvt(m))
    BY <1>1, FirstCutIs
  <2>4. \A a \in Alps : /\ RoundsIn(channel'[Starter][a], a) = RoundsIn(channel[Starter][a], a)
                        /\ Increasing(channel'[Starter][a], a)
    BY <2>1, OtherOnChannel
  <2> QED
    BY <2>1, <2>2, <2>3, <2>4, HandledValues
<1>2. CASE SecondCutDone(i)
  <2>1. held[i] # None /\ channel' = channel /\ round' = round
    BY <1>2 DEF SecondCutDone
  <2>2. ~accepting
    BY <2>1 DEF IInv, TokenInv
  <2>3. PICK m \in Controls : m.minTime \in Times /\ (Pass(i, m) \/ SendAndSetGvt(m))
    BY <1>2, SecondCutDoneIs
  <2>4. \A a \in Alps : /\ RoundsIn(channel'[Starter][a], a) = RoundsIn(channel[Starter][a], a)
                        /\ Increasing(channel'[Starter][a], a)
    BY <2>1, OtherOnChannel
  <2> QED
    BY <2>1, <2>2, <2>3, <2>4, HandledValues
<1> QED
  BY <1>1, <1>2

-----------------------------------------------------------------------------
(* Sums over the LPs.                                                      *)

\* The recursive function that Total is defined by exists: were there an n up to
\* which it does not, there would be a least one.
LEMMA TotalIs ==
  ASSUME NEW f
  PROVE  \E upTo : /\ Total(f) = upTo[N]
                   /\ \A n \in 0 .. N : upTo[n] = IF n = 0 THEN 0 ELSE upTo[n - 1] + f[n - 1]
<1> DEFINE Step(u, n)   == IF n = 0 THEN 0 ELSE u[n - 1] + f[n - 1]
           IsPart(u, n) == u = [k \in 0 .. n |-> Step(u, k)]
           Bad          == {n \in 0 .. N : ~ \E u : IsPart(u, n)}
<1>0. N \in Nat
  BY GvtRingAssumption
<1>1. ASSUME NEW n \in 0 .. N PROVE n \notin Bad
  <2> SUFFICES ASSUME Bad # {} PROVE FALSE
    OBVIOUS
  <2>1. PICK k \in Bad : \A l \in Bad : k <= l
    <3>1. Bad \in SUBSET Nat
      OBVIOUS
    <3> HIDE DEF Bad
    <3> QED
      BY <3>1, MinOfSet
  <2>2. k \in 0 .. N /\ ~ \E u : IsPart(u, k)
    OBVIOUS
  <2>3. k # 0
    <3>1. IsPart([i \in 0 .. 0 |-> 0], 0)
      OBVIOUS
    <3> QED
      BY <2>2, <3>1
  <2>4. PICK u : IsPart(u, k - 1)
    <3>1. k - 1 \in 0 .. N /\ k - 1 \notin Bad
      <4> HIDE DEF Bad
      <4> QED
        BY <2>1, <2>2, <2>3, <1>0
    <3> HIDE DEF IsPart
    <3> QED
      BY <3>1
  <2> DEFINE g == [i \in 0 .. k |-> IF i = k THEN Step(u, k) ELSE u[i]]
  <2>5. \A i \in 0 .. k : g[i] = Step(g, i)
    <3> SUFFICES ASSUME NEW i \in 0 .. k PROVE g[i] = Step(g, i)
      OBVIOUS
    <3>1. i # 0 => i - 1 \in 0 .. k - 1 /\ g[i - 1] = u[i - 1]
      BY <2>2
    <3>2. i # k => i \in 0 .. k - 1 /\ u[i] = Step(u, i)
      <4>1. i # k => i \in 0 .. k - 1
        BY <2>2
      <4> HIDE DEF Step
      <4> QED
        BY <2>4, <4>1
    <3>3. g[i] = Step(u, i)
      <4> CASE i = k
        OBVIOUS
      <4> CASE i # k
        <5>1. g[i] = u[i]
          OBVIOUS
        <5> HIDE DEF g, Step
        <5> QED BY <3>2, <5>1
      <4> QED OBVIOUS
    <3> HIDE DEF g
    <3> QED
      BY <3>1, <3>3
  <2>6. IsPart(g, k)
    <3>1. g = [i \in 0 .. k |-> g[i]]
      OBVIOUS
    <3> HIDE DEF g, Step
    <3> QED
      BY <2>5, <3>1
  <2> HIDE DEF IsPart
  <2> QED
    BY <2>2, <2>6
<1> DEFINE F == CHOOSE u : u = [n \in 0 .. N |-> IF n = 0 THEN 0 ELSE u[n - 1] + f[n - 1]]
<1>2. IsPart(F, N)
  <2>1. \E u : IsPart(u, N)
    <3> HIDE DEF IsPart
    <3> QED BY <1>0, <1>1
  <2> QED BY <2>1, Zenon
<1>3. Total(f) = F[N]
  BY DEF Total
<1> HIDE DEF F
<1>4. \A n \in 0 .. N : F[n] = Step(F, n)
  BY <1>2
<1> QED
  BY <1>3, <1>4

\* A sum of numbers is a number, and follows each of them.
LEMMA TotalChange ==
  ASSUME NEW f \in [LPs -> Int], NEW g \in [LPs -> Int], NEW i \in LPs,
         \A k \in LPs : k # i => g[k] = f[k]
  PROVE  Total(f) \in Int /\ Total(g) \in Int /\ Total(g) = Total(f) + (g[i] - f[i])
<1>1. PICK u : /\ Total(f) = u[N]
               /\ \A n \in 0 .. N : u[n] = IF n = 0 THEN 0 ELSE u[n - 1] + f[n - 1]
  BY TotalIs
<1>2. PICK w : /\ Total(g) = w[N]
               /\ \A n \in 0 .. N : w[n] = IF n = 0 THEN 0 ELSE w[n - 1] + g[n - 1]
  BY TotalIs
<1>3. N \in Nat /\ LPs = 0 .. N - 1
  BY GvtRingAssumption DEF LPs
<1> DEFINE d       == g[i] - f[i]
           Fine(n) == u[n] \in Int /\ w[n] \in Int /\ w[n] = u[n] + (IF i < n THEN d ELSE 0)
           Bad     == {n \in 0 .. N : ~Fine(n)}
<1>4. Bad = {}
  <2> SUFFICES ASSUME Bad # {} PROVE FALSE
    OBVIOUS
  <2>1. PICK k \in Bad : \A l \in Bad : k <= l
    <3>1. Bad \in SUBSET Nat
      OBVIOUS
    <3> HIDE DEF Bad
    <3> QED
      BY <3>1, MinOfSet
  <2>2. k \in 0 .. N /\ ~Fine(k)
    OBVIOUS
  <2>3. CASE k = 0
    <3>1. u[k] = 0 /\ w[k] = 0
      BY <1>1, <1>2, <2>2, <2>3
    <3> QED
      BY <1>3, <2>2, <2>3, <3>1
  <2>4. CASE k # 0
    <3>1. k - 1 \in 0 .. N /\ k - 1 \in LPs /\ k \in Nat
      BY <1>3, <2>2, <2>4
    <3>2. Fine(k - 1)
      <4>1. k - 1 \notin Bad
        <5> HIDE DEF Bad
        <5> QED
          BY <2>1, <3>1
      <4> HIDE DEF Fine
      <4> QED
        BY <3>1, <4>1
    <3>3. u[k] = u[k - 1] + f[k - 1] /\ w[k] = w[k - 1] + g[k - 1]
      BY <1>1, <1>2, <2>2, <2>4
    <3>4. f[k - 1] \in Int /\ g[k - 1] \in Int /\ d \in Int
          /\ (k - 1 # i => g[k - 1] = f[k - 1]) /\ (k - 1 = i => g[k - 1] = f[k - 1] + d)
      BY <3>1
    <3>5. i \in Nat
      BY <1>3
    <3> HIDE DEF d
    <3>6. CASE k - 1 = i
      BY <2>2, <3>1, <3>2, <3>3, <3>4, <3>5, <3>6
    <3>7. CASE k - 1 # i
      BY <2>2, <3>1, <3>2, <3>3, <3>4, <3>5, <3>7
    <3> QED
      BY <3>6, <3>7
  <2> QED
    BY <2>3, <2>4
<1>5. Fine(N) /\ i < N
  <2>1. N \in 0 .. N
    BY <1>3
  <2> HIDE DEF Fine
  <2> QED
    BY <1>3, <1>4, <2>1
<1> QED
  BY <1>1, <1>2, <1>5

\* A sum of zeros is zero.
LEMMA TotalZero ==
  ASSUME NEW f, \A i \in LPs : f[i] = 0
  PROVE  Total(f) = 0
<1>1. PICK u : /\ Total(f) = u[N]
               /\ \A n \in 0 .. N : u[n] = IF n = 0 THEN 0 ELSE u[n - 1] + f[n - 1]
  BY TotalIs
<1>3. N \in Nat /\ LPs = 0 .. N - 1
  BY GvtRingAssumption DEF LPs
<1> DEFINE Bad == {n \in 0 .. N : u[n] # 0}
<1>4. Bad = {}
  <2> SUFFICES ASSUME Bad # {} PROVE FALSE
    OBVIOUS
  <2>1. PICK k \in Bad : \A l \in Bad : k <= l
    <3>1. Bad \in SUBSET Nat
      OBVIOUS
    <3> HIDE DEF Bad
    <3> QED
      BY <3>1, MinOfSet
  <2>2. k \in 0 .. N /\ u[k] # 0
    OBVIOUS
  <2>3. k # 0
    BY <1>1, <2>2
  <2>4. k - 1 \in 0 .. N /\ k - 1 \in LPs
    BY <1>3, <2>2, <2>3
  <2>5. u[k - 1] = 0
    <3>1. k - 1 \notin Bad
      <4> HIDE DEF Bad
      <4> QED
        BY <2>1, <2>2, <2>4
    <3> QED
      BY <2>4, <3>1
  <2> QED
    BY <1>1, <2>2, <2>3, <2>4, <2>5
<1> QED
  BY <1>1, <1>3, <1>4

-----------------------------------------------------------------------------
(* White messages in a channel.                                            *)

IsWhite(m) == IsSim(m) /\ m.colour = "white"

Whites(i, j) == Cardinality(WhitesIn(channel[i][j]))

\* How many there are when a message is appended.
LEMMA AppendWhites ==
  ASSUME NEW T, NEW s \in Seq(T), NEW m \in T
  PROVE  /\ IsFiniteSet(WhitesIn(s)) /\ Cardinality(WhitesIn(s)) \in Nat
         /\ Cardinality(WhitesIn(Append(s, m))) =
              Cardinality(WhitesIn(s)) + (IF IsWhite(m) THEN 1 ELSE 0)
<1> DEFINE a == Append(s, m)
<1>1. /\ Len(s) \in Nat /\ DOMAIN s = 1 .. Len(s) /\ DOMAIN a = 1 .. Len(s) + 1
      /\ \A k \in 1 .. Len(s) : a[k] = s[k]
      /\ a[Len(s) + 1] = m
  BY AppendProperties, LenProperties
<1> HIDE DEF a
<1>2. IsFiniteSet(WhitesIn(s)) /\ Cardinality(WhitesIn(s)) \in Nat
  <2>1. IsFiniteSet(1 .. Len(s)) /\ WhitesIn(s) \subseteq 1 .. Len(s)
    BY <1>1, FS_Interval DEF WhitesIn
  <2> QED
    BY <2>1, FS_Subset, FS_CardinalityType
<1>3. Len(s) + 1 \notin WhitesIn(s)
  BY <1>1 DEF WhitesIn
<1>4. ASSUME NEW k PROVE k \in WhitesIn(a) <=> k \in WhitesIn(s) \/ (k = Len(s) + 1 /\ IsWhite(m))
  <2>1. k \in 1 .. Len(s) + 1 <=> k \in 1 .. Len(s) \/ k = Len(s) + 1
    BY <1>1
  <2> QED
    BY <1>1, <2>1 DEF WhitesIn, IsWhite
<1>5. CASE IsWhite(m)
  <2>1. WhitesIn(a) = WhitesIn(s) \cup {Len(s) + 1}
    BY <1>4, <1>5
  <2>2. Cardinality(WhitesIn(s) \cup {Len(s) + 1}) = Cardinality(WhitesIn(s)) + 1
    BY <1>2, <1>3, FS_AddElement
  <2> QED
    BY <1>2, <1>5, <2>1, <2>2 DEF a
<1>6. CASE ~IsWhite(m)
  <2>1. WhitesIn(a) = WhitesIn(s)
    BY <1>4, <1>6
  <2> QED
    BY <1>2, <1>6, <2>1 DEF a
<1> QED
  BY <1>5, <1>6

\* How many there are when the head is taken.
LEMMA TailWhites ==
  ASSUME NEW T, NEW s \in Seq(T), s # <<>>
  PROVE  Cardinality(WhitesIn(Tail(s))) =
           Cardinality(WhitesIn(s)) - (IF IsWhite(Head(s)) THEN 1 ELSE 0)
<1> DEFINE t == Tail(s)
           W == WhitesIn(t)
           V == WhitesIn(s) \ {1}
<1>1. /\ Head(s) = s[1] /\ t \in Seq(T) /\ Len(t) = Len(s) - 1 /\ Len(s) \in Nat \ {0}
      /\ DOMAIN s = 1 .. Len(s)
      /\ \A k \in 1 .. Len(t) : t[k] = s[k + 1]
  <2>1. Head(s) = s[1] /\ t \in Seq(T) /\ Len(t) = Len(s) - 1 /\ \A k \in 1 .. Len(t) : t[k] = s[k + 1]
    BY HeadTailProperties
  <2>2. Len(s) \in Nat \ {0} /\ DOMAIN s = 1 .. Len(s)
    BY LenProperties, EmptySeq
  <2> QED
    BY <2>1, <2>2
<1> HIDE DEF t
<1>2. DOMAIN t = 1 .. Len(t)
  BY <1>1, LenProperties
<1>3. \A k \in W : k \in Nat /\ k + 1 \in V
  <2> SUFFICES ASSUME NEW k \in W PROVE k \in Nat /\ k + 1 \in V
    OBVIOUS
  <2>1. k \in 1 .. Len(t) /\ IsWhite(t[k])
    BY <1>2 DEF WhitesIn, IsWhite
  <2>2. k + 1 \in 1 .. Len(s) /\ k + 1 # 1 /\ t[k] = s[k + 1]
    BY <1>1, <2>1
  <2> QED
    BY <1>1, <2>1, <2>2 DEF WhitesIn, IsWhite
<1>4. \A k \in V : k \in Nat /\ k - 1 \in W
  <2> SUFFICES ASSUME NEW k \in V PROVE k \in Nat /\ k - 1 \in W
    OBVIOUS
  <2>1. k \in 1 .. Len(s) /\ k # 1 /\ IsWhite(s[k])
    BY <1>1 DEF WhitesIn, IsWhite
  <2>2. k - 1 \in 1 .. Len(t) /\ (k - 1) + 1 = k
    BY <1>1, <2>1
  <2>3. t[k - 1] = s[k]
    BY <1>1, <2>2
  <2> QED
    BY <1>2, <2>1, <2>2, <2>3 DEF WhitesIn, IsWhite
<1>5. IsFiniteSet(W) /\ IsFiniteSet(WhitesIn(s)) /\ Cardinality(WhitesIn(s)) \in Nat
  <2>1. s[1] \in T
    BY <1>1, ElementOfSeq
  <2> QED
    BY <1>1, <2>1, AppendWhites
<1> HIDE DEF W, V
<1>6. Cardinality(V) = Cardinality(W)
  <2> DEFINE f == [k \in W |-> k + 1]
  <2>1. f \in [W -> V]
    BY <1>3
  <2>2. \A x, y \in W : f[x] = f[y] => x = y
    BY <1>3
  <2>3. \A x \in V : \E y \in W : f[y] = x
    BY <1>3, <1>4
  <2> HIDE DEF f
  <2>4. f \in Bijection(W, V)
    BY <2>1, <2>2, <2>3 DEF Bijection, Injection, Surjection, IsInjective
  <2>5. ExistsBijection(W, V)
    BY <2>4 DEF ExistsBijection
  <2> QED
    BY <1>5, <2>5, FS_Bijection
<1>7. 1 \in WhitesIn(s) <=> IsWhite(Head(s))
  BY <1>1 DEF WhitesIn, IsWhite
<1>8. CASE IsWhite(Head(s))
  <2>1. Cardinality(V) = Cardinality(WhitesIn(s)) - 1
    BY <1>5, <1>7, <1>8, FS_RemoveElement DEF V
  <2> QED
    BY <1>6, <1>8, <2>1 DEF W, t
<1>9. CASE ~IsWhite(Head(s))
  <2>1. V = WhitesIn(s)
    BY <1>7, <1>9 DEF V
  <2> QED
    BY <1>5, <1>6, <1>9, <2>1 DEF W, t
<1> QED
  BY <1>8, <1>9

-----------------------------------------------------------------------------
(* The counters and the channels change together.                          *)

\* The numbers these sums are made of.
LEMMA NumbersTyped ==
  ASSUME TypedInv
  PROVE  \A i, j \in LPs : Entry(i, j) \in Int /\ Whites(i, j) \in Int
<1> SUFFICES ASSUME NEW i \in LPs, NEW j \in LPs PROVE Entry(i, j) \in Int /\ Whites(i, j) \in Int
  OBVIOUS
<1>1. Entry(i, j) \in Int
  BY DEF Entry, TypedInv, CountersTyped
<1>2. PICK s \in Seq(Travelling(i, j) \union {None}) : s = channel[i][j]
  BY SeqMonotonic DEF TypedInv, NetTyped
<1>3. Cardinality(WhitesIn(s)) \in Nat
  BY AppendWhites
<1> QED
  BY <1>1, <1>2, <1>3 DEF Whites

\* The white messages on their way when a channel loses its head.
LEMMA TakenWhites ==
  ASSUME IInv, TypedInv, NEW j \in LPs, NEW i \in LPs, channel[j][i] # <<>>, channel' = Taken(j, i)
  PROVE  \A a, b \in LPs : Whites(a, b)' = Whites(a, b) +
           (IF a = j /\ b = i /\ IsWhite(Head(channel[j][i])) THEN -1 ELSE 0)
<1>1. NetTyped
  BY DEF TypedInv
<1>2. \A a, b \in LPs : /\ channel'[a][b] = IF a = j /\ b = i THEN Tail(channel[j][i])
                                            ELSE channel[a][b]
                        /\ channel'[a][b] \in Seq(Travelling(a, b))
  BY <1>1, TakenTyped
<1>3. PICK s \in Seq(Travelling(j, i)) : s = channel[j][i]
  BY <1>1 DEF NetTyped
<1>4. Cardinality(WhitesIn(Tail(s))) = Cardinality(WhitesIn(s)) - (IF IsWhite(Head(s)) THEN 1 ELSE 0)
  BY <1>3, TailWhites
<1>5. \A a, b \in LPs : Whites(a, b) \in Int
  BY NumbersTyped
<1> SUFFICES ASSUME NEW a \in LPs, NEW b \in LPs
             PROVE  Whites(a, b)' = Whites(a, b) +
                      (IF a = j /\ b = i /\ IsWhite(Head(channel[j][i])) THEN -1 ELSE 0)
  OBVIOUS
<1>6. CASE a = j /\ b = i
  <2>1. Whites(a, b) = Cardinality(WhitesIn(s)) /\ Whites(a, b)' = Cardinality(WhitesIn(Tail(s)))
    BY <1>2, <1>3, <1>6 DEF Whites
  <2>2. Cardinality(WhitesIn(s)) \in Int
    BY <1>5, <2>1
  <2> QED
    BY <1>3, <1>4, <1>6, <2>1, <2>2
<1>7. CASE ~(a = j /\ b = i)
  <2>1. Whites(a, b)' = Whites(a, b)
    BY <1>2, <1>7 DEF Whites
  <2>2. Whites(a, b) \in Int
    BY <1>5
  <2> QED
    BY <1>7, <2>1, <2>2
<1> QED
  BY <1>6, <1>7

\* The white messages on their way when a channel gets one message more.
LEMMA PutWhites ==
  ASSUME IInv, TypedInv, NEW i \in LPs, NEW j \in LPs, NEW m \in Travelling(i, j),
         channel' = Put(i, j, m)
  PROVE  \A a, b \in LPs : Whites(a, b)' = Whites(a, b) +
           (IF a = i /\ b = j /\ IsWhite(m) THEN 1 ELSE 0)
<1>1. NetTyped
  BY DEF TypedInv
<1>2. \A a, b \in LPs : /\ channel'[a][b] = IF a = i /\ b = j THEN Append(channel[i][j], m)
                                            ELSE channel[a][b]
                        /\ channel'[a][b] \in Seq(Travelling(a, b))
  BY <1>1, PutTyped
<1>3. PICK s \in Seq(Travelling(i, j)) : s = channel[i][j]
  BY <1>1 DEF NetTyped
<1>4. Cardinality(WhitesIn(Append(s, m))) = Cardinality(WhitesIn(s)) + (IF IsWhite(m) THEN 1 ELSE 0)
  BY <1>3, AppendWhites
<1>5. \A a, b \in LPs : Whites(a, b) \in Int
  BY NumbersTyped
<1> SUFFICES ASSUME NEW a \in LPs, NEW b \in LPs
             PROVE  Whites(a, b)' = Whites(a, b) + (IF a = i /\ b = j /\ IsWhite(m) THEN 1 ELSE 0)
  OBVIOUS
<1>6. CASE a = i /\ b = j
  <2>1. Whites(a, b) = Cardinality(WhitesIn(s)) /\ Whites(a, b)' = Cardinality(WhitesIn(Append(s, m)))
    BY <1>2, <1>3, <1>6 DEF Whites
  <2>2. Cardinality(WhitesIn(s)) \in Int
    BY <1>5, <2>1
  <2> QED
    BY <1>4, <1>6, <2>1, <2>2
<1>7. CASE ~(a = i /\ b = j)
  <2>1. Whites(a, b)' = Whites(a, b)
    BY <1>2, <1>7 DEF Whites
  <2>2. Whites(a, b) \in Int
    BY <1>5
  <2> QED
    BY <1>7, <2>1, <2>2
<1> QED
  BY <1>6, <1>7

\* An entry of a counter changes alone.
LEMMA AddToEntry ==
  ASSUME TypedInv, NEW i \in LPs, NEW j \in LPs, NEW n \in Int, counter' = AddTo(i, j, n)
  PROVE  \A a, b \in LPs : Entry(a, b)' = Entry(a, b) + (IF a = i /\ b = j THEN n ELSE 0)
<1> SUFFICES ASSUME NEW a \in LPs, NEW b \in LPs
             PROVE  Entry(a, b)' = Entry(a, b) + (IF a = i /\ b = j THEN n ELSE 0)
  OBVIOUS
<1>1. Entry(a, b) \in Int
  BY NumbersTyped
<1>2. PICK f : f = [k \in DOMAIN counter[i] \union {j} |->
                      IF k = j THEN Entry(i, j) + n ELSE counter[i][k]]
  OBVIOUS
<1>3. counter'[a] = IF a = i THEN f ELSE counter[a]
  BY <1>2 DEF AddTo, TypedInv, CountersTyped
<1>4. CASE a # i
  <2>1. Entry(a, b)' = Entry(a, b)
    BY <1>3, <1>4 DEF Entry
  <2> QED
    BY <1>1, <1>4, <2>1
<1>5. CASE a = i
  <2>1. Entry(a, b)' = IF b \in DOMAIN f THEN f[b] ELSE 0
    BY <1>3, <1>5 DEF Entry
  <2>2. CASE b = j
    BY <1>2, <1>5, <2>1, <2>2
  <2>3. CASE b # j
    <3>1. b \in DOMAIN f <=> b \in DOMAIN counter[i]
      BY <1>2, <2>3
    <3>2. b \in DOMAIN f => f[b] = counter[i][b]
      BY <1>2, <2>3
    <3>3. Entry(a, b)' = Entry(a, b)
      BY <1>5, <2>1, <3>1, <3>2 DEF Entry
    <3> QED
      BY <1>1, <2>3, <3>3
  <2> QED
    BY <2>2, <2>3
<1> QED
  BY <1>4, <1>5

-----------------------------------------------------------------------------
\* LP i's entry for LP to, the white messages in the channel from LP a to it and its
\* drift change by numbers that match.
Change(i, a, to, n, e) ==
  /\ \A x, y \in LPs : Entry(x, y)' = Entry(x, y) + (IF x = i /\ y = to THEN n ELSE 0)
  /\ \A x, y \in LPs : Whites(x, y)' = Whites(x, y) + (IF x = a /\ y = to THEN e ELSE 0)
  /\ \A y \in LPs : drift'[y] = drift[y] + (IF y = to THEN n - e ELSE 0)

\* Such a change leaves the accounts balanced.
LEMMA AccountsKept ==
  ASSUME TypedInv, WhiteAccounting, NEW i \in LPs, NEW a \in LPs, NEW to \in LPs,
         NEW n \in Int, NEW e \in Int, Change(i, a, to, n, e)
  PROVE  WhiteAccounting'
<1> SUFFICES ASSUME NEW j \in LPs PROVE Counted(j)' = WhiteOnTheWay(j)' + drift'[j]
  BY DEF WhiteAccounting
<1>1. PICK d \in Int : d = IF j = to THEN n ELSE 0
  OBVIOUS
<1>2. PICK f \in Int : f = IF j = to THEN e ELSE 0
  OBVIOUS
<1>3. \A x \in LPs : Entry(x, j) \in Int /\ Whites(x, j) \in Int
  BY NumbersTyped
<1>4. \A x \in LPs : Entry(x, j)' = Entry(x, j) + (IF x = i THEN d ELSE 0)
  BY <1>1 DEF Change
<1>5. \A x \in LPs : Whites(x, j)' = Whites(x, j) + (IF x = a THEN f ELSE 0)
  BY <1>2 DEF Change
<1>6. \A x \in LPs : Entry(x, j)' \in Int
  BY <1>3, <1>4
<1>7. \A x \in LPs : Whites(x, j)' \in Int
  BY <1>3, <1>5
<1>8. /\ Counted(j) \in Int /\ Counted(j)' = Counted(j) + d
      /\ WhiteOnTheWay(j) \in Int /\ WhiteOnTheWay(j)' = WhiteOnTheWay(j) + f
  <2>1. PICK p : p = [x \in LPs |-> Entry(x, j)]
    OBVIOUS
  <2>2. PICK q : q = [x \in LPs |-> Entry(x, j)']
    OBVIOUS
  <2>3. PICK v : v = [x \in LPs |-> Whites(x, j)]
    OBVIOUS
  <2>4. PICK w : w = [x \in LPs |-> Whites(x, j)']
    OBVIOUS
  <2>5. p \in [LPs -> Int] /\ q \in [LPs -> Int] /\ v \in [LPs -> Int] /\ w \in [LPs -> Int]
    BY <1>3, <1>6, <1>7, <2>1, <2>2, <2>3, <2>4
  <2>6. /\ \A x \in LPs : x # i => q[x] = p[x]
        /\ \A x \in LPs : x # a => w[x] = v[x]
        /\ q[i] - p[i] = d /\ w[a] - v[a] = f
    BY <1>3, <1>4, <1>5, <2>1, <2>2, <2>3, <2>4
  <2>7. Counted(j) = Total(p) /\ WhiteOnTheWay(j) = Total(v)
    BY <2>1, <2>3 DEF Counted, WhiteOnTheWay, Whites
  <2>8. Counted(j)' = Total(q) /\ WhiteOnTheWay(j)' = Total(w)
    BY <2>2, <2>4 DEF Counted, WhiteOnTheWay, Whites
  <2>9. Total(p) \in Int /\ Total(q) = Total(p) + d
    BY <2>5, <2>6, TotalChange
  <2>10. Total(v) \in Int /\ Total(w) = Total(v) + f
    BY <2>5, <2>6, TotalChange
  <2> QED
    BY <2>7, <2>8, <2>9, <2>10
<1>9. Counted(j) = WhiteOnTheWay(j) + drift[j] /\ drift[j] \in Int
  BY DEF WhiteAccounting, TypedInv, CountersTyped
<1>10. drift'[j] = drift[j] + (d - f)
  BY <1>1, <1>2, <1>9 DEF Change
<1> QED
  BY <1>8, <1>9, <1>10

\* A simulation message received: the receiver's own entry pays for it.
LEMMA ReceivedWhites ==
  ASSUME IInv, TypedInv, WhiteAccounting, NEW a \in LPs, NEW i \in LPs,
         channel[a][i] # <<>>, channel' = Taken(a, i), IsSim(Head(channel[a][i])),
         counter' = CountReceived(i, Head(channel[a][i])), drift' = drift
  PROVE  WhiteAccounting'
<1>1. PICK m : m = Head(channel[a][i])
  OBVIOUS
<1>2. PICK n \in Int : n = IF IsWhite(m) THEN -1 ELSE 0
  OBVIOUS
<1>3. \A x, y \in LPs : Entry(x, y)' = Entry(x, y) + (IF x = i /\ y = i THEN n ELSE 0)
  <2>1. CASE IsWhite(m)
    <3>1. counter' = AddTo(i, i, n)
      BY <1>1, <1>2, <2>1 DEF CountReceived, IsWhite
    <3> QED
      BY <3>1, AddToEntry
  <2>2. CASE ~IsWhite(m)
    <3>1. counter' = counter /\ n = 0
      BY <1>1, <1>2, <2>2 DEF CountReceived, IsWhite
    <3>2. \A x, y \in LPs : Entry(x, y)' = Entry(x, y) /\ Entry(x, y) \in Int
      BY <3>1, NumbersTyped DEF Entry
    <3> QED
      BY <3>1, <3>2
  <2> QED
    BY <2>1, <2>2
<1>4. \A x, y \in LPs : Whites(x, y)' = Whites(x, y) + (IF x = a /\ y = i THEN n ELSE 0)
  <2>1. \A x, y \in LPs : Whites(x, y)' = Whites(x, y) +
           (IF x = a /\ y = i /\ IsWhite(Head(channel[a][i])) THEN -1 ELSE 0)
    BY TakenWhites
  <2> QED
    BY <1>1, <1>2, <2>1
<1>5. \A y \in LPs : drift'[y] = drift[y] + (IF y = i THEN n - n ELSE 0)
  BY DEF TypedInv, CountersTyped
<1>6. Change(i, a, i, n, n)
  BY <1>3, <1>4, <1>5 DEF Change
<1> QED
  BY <1>6, AccountsKept

\* A message sent: the sender's entry or the drift accounts for it.
LEMMA SentWhites ==
  ASSUME IInv, TypedInv, WhiteAccounting, NEW i \in LPs, CountAndSend(i)
  PROVE  WhiteAccounting'
<1>1. PICK x \in SimSent, c \in Colours :
           /\ stamped[i] = [type |-> "stamped", msg |-> x, colour |-> c]
           /\ channel' = Put(i, x.to, [type |-> x.type, time |-> x.time, to |-> x.to, colour |-> c])
           /\ [type |-> x.type, time |-> x.time, to |-> x.to, colour |-> c] \in Travelling(i, x.to)
           /\ x.to \in LPs
           /\ \/ /\ colour[i] = "white" /\ counter' = AddTo(i, x.to, 1) /\ redTime' = redTime
                 /\ drift' = [drift EXCEPT ![x.to] = IF c = "white" THEN @ ELSE @ + 1]
              \/ /\ colour[i] # "white" /\ counter' = counter
                 /\ redTime' = [redTime EXCEPT ![i] = Min({@, x.time})]
                 /\ drift' = [drift EXCEPT ![x.to] = IF c = "white" THEN @ - 1 ELSE @]
  BY CountAndSendIs
<1>2. PICK to \in LPs : to = x.to
  BY <1>1
<1>3. PICK m \in Travelling(i, to) :
         channel' = Put(i, to, m) /\ (IsWhite(m) <=> c = "white")
  <2>1. PICK m : m = [type |-> x.type, time |-> x.time, to |-> x.to, colour |-> c]
    OBVIOUS
  <2>2. IsSim(m) /\ m.colour = c
    BY <2>1 DEF IsSim, SimSent, SimKinds
  <2> QED
    BY <1>1, <1>2, <2>1, <2>2 DEF IsWhite
<1>4. PICK e \in Int : e = IF c = "white" THEN 1 ELSE 0
  OBVIOUS
<1>5. PICK n \in Int : n = IF colour[i] = "white" THEN 1 ELSE 0
  OBVIOUS
<1>6. \A a, b \in LPs : Entry(a, b)' = Entry(a, b) + (IF a = i /\ b = to THEN n ELSE 0)
  <2>1. CASE colour[i] = "white"
    <3>1. counter' = AddTo(i, to, n)
      BY <1>1, <1>2, <1>5, <2>1
    <3> QED
      BY <3>1, AddToEntry
  <2>2. CASE colour[i] # "white"
    <3>1. counter' = counter /\ n = 0
      BY <1>1, <1>5, <2>2
    <3>2. \A a, b \in LPs : Entry(a, b)' = Entry(a, b) /\ Entry(a, b) \in Int
      BY <3>1, NumbersTyped DEF Entry
    <3> QED
      BY <3>1, <3>2
  <2> QED
    BY <2>1, <2>2
<1>7. \A a, b \in LPs : Whites(a, b)' = Whites(a, b) + (IF a = i /\ b = to THEN e ELSE 0)
  <2>1. \A a, b \in LPs : Whites(a, b)' = Whites(a, b) + (IF a = i /\ b = to /\ IsWhite(m) THEN 1 ELSE 0)
    BY <1>3, PutWhites
  <2> QED
    BY <1>3, <1>4, <2>1
<1>8. drift \in [LPs -> Int] /\ drift' = [drift EXCEPT ![to] = @ + (n - e)]
  <2>1. drift \in [LPs -> Int]
    BY DEF TypedInv, CountersTyped
  <2>2. CASE colour[i] = "white" /\ c = "white"
    BY <1>1, <1>2, <1>4, <1>5, <2>1, <2>2
  <2>3. CASE colour[i] = "white" /\ c # "white"
    BY <1>1, <1>2, <1>4, <1>5, <2>1, <2>3
  <2>4. CASE colour[i] # "white" /\ c = "white"
    BY <1>1, <1>2, <1>4, <1>5, <2>1, <2>4
  <2>5. CASE colour[i] # "white" /\ c # "white"
    BY <1>1, <1>2, <1>4, <1>5, <2>1, <2>5
  <2> QED
    BY <2>1, <2>2, <2>3, <2>4, <2>5
<1>9. \A y \in LPs : drift'[y] = drift[y] + (IF y = to THEN n - e ELSE 0)
  BY <1>8
<1>10. Change(i, i, to, n, e)
  BY <1>6, <1>7, <1>9 DEF Change
<1> QED
  BY <1>10, AccountsKept

\* Steps that count nothing, and move no white message.
LEMMA SameWhites ==
  ASSUME TypedInv, WhiteAccounting, counter' = counter, drift' = drift,
         \A a, b \in LPs : Whites(a, b)' = Whites(a, b)
  PROVE  WhiteAccounting'
<1>1. \A a, b \in LPs : Entry(a, b)' = Entry(a, b)
  BY DEF Entry
<1> SUFFICES ASSUME NEW j \in LPs PROVE Counted(j)' = WhiteOnTheWay(j)' + drift'[j]
  BY DEF WhiteAccounting
<1>2. PICK f : f = [a \in LPs |-> Entry(a, j)]
  OBVIOUS
<1>3. PICK v : v = [a \in LPs |-> Whites(a, j)]
  OBVIOUS
<1>4. f = [a \in LPs |-> Entry(a, j)'] /\ v = [a \in LPs |-> Whites(a, j)']
  BY <1>1, <1>2, <1>3
<1>5. Counted(j) = Total(f) /\ WhiteOnTheWay(j) = Total(v)
  BY <1>2, <1>3 DEF Counted, WhiteOnTheWay, Whites
<1>6. Counted(j)' = Total(f) /\ WhiteOnTheWay(j)' = Total(v)
  BY <1>4 DEF Counted, WhiteOnTheWay, Whites
<1> QED
  BY <1>5, <1>6 DEF WhiteAccounting


\* Steps on a channel that carry no simulation message.
LEMMA OtherOnTheWay ==
  ASSUME IInv, TypedInv, WhiteAccounting, counter' = counter, drift' = drift,
         NEW j \in LPs, NEW i \in LPs,
         \/ /\ channel[j][i] # <<>> /\ channel' = Taken(j, i)
            /\ Head(channel[j][i]).type \in {"control", "value"}
         \/ \E m \in Travelling(j, i) :
              channel' = Put(j, i, m) /\ m.type \in {"control", "value"}
         \/ channel' = channel
  PROVE  WhiteAccounting'
<1>1. ASSUME NEW m, m.type \in {"control", "value"} PROVE ~IsWhite(m)
  BY <1>1 DEF IsWhite, IsSim
<1>2. \A a, b \in LPs : Whites(a, b) \in Int
  BY NumbersTyped
<1>3. CASE /\ channel[j][i] # <<>> /\ channel' = Taken(j, i)
           /\ Head(channel[j][i]).type \in {"control", "value"}
  <2>1. \A a, b \in LPs : Whites(a, b)' = Whites(a, b) +
           (IF a = j /\ b = i /\ IsWhite(Head(channel[j][i])) THEN -1 ELSE 0)
    BY <1>3, TakenWhites
  <2>2. ~IsWhite(Head(channel[j][i]))
    BY <1>1, <1>3
  <2>3. \A a, b \in LPs : Whites(a, b)' = Whites(a, b)
    BY <1>2, <2>1, <2>2
  <2> QED
    BY <2>3, SameWhites
<1>4. ASSUME NEW m \in Travelling(j, i), channel' = Put(j, i, m), m.type \in {"control", "value"}
      PROVE  WhiteAccounting'
  <2>1. \A a, b \in LPs : Whites(a, b)' = Whites(a, b) +
           (IF a = j /\ b = i /\ IsWhite(m) THEN 1 ELSE 0)
    BY <1>4, PutWhites
  <2>2. ~IsWhite(m)
    BY <1>1, <1>4
  <2>3. \A a, b \in LPs : Whites(a, b)' = Whites(a, b)
    BY <1>2, <2>1, <2>2
  <2> QED
    BY <2>3, SameWhites
<1>5. CASE channel' = channel
  <2>1. \A a, b \in LPs : Whites(a, b)' = Whites(a, b)
    BY <1>5 DEF Whites
  <2> QED
    BY <2>1, SameWhites
<1> QED
  BY <1>3, <1>4, <1>5

\* Every step keeps the accounts balanced.
LEMMA WhiteStep ==
  ASSUME IInv, TypedInv, WhiteAccounting, [Next]_vars
  PROVE  WhiteAccounting'
<1> USE NumbersFacts
<1>1. ASSUME NEW i \in LPs, NEW j \in Alps,
             \/ MakeRequest(j) \/ Stamp(i) \/ SecondCutDone(i) \/ StartRound \/ UNCHANGED vars
      PROVE  WhiteAccounting'
  <2>1. counter' = counter /\ drift' = drift /\ channel' = channel
    BY <1>1 DEF MakeRequest, Stamp, SecondCutDone, StartRound, vars, gvtVars, netVars
  <2> QED
    BY <1>1, <2>1, OtherOnTheWay
<1>2. ASSUME NEW j \in Alps, ClpRequest(j) PROVE WhiteAccounting'
  <2>1. /\ channel[j][Starter] # <<>> /\ Head(channel[j][Starter]).type = "request"
        /\ channel' = Taken(j, Starter) /\ drift' = drift
        /\ counter' = CountReceived(Starter, Head(channel[j][Starter]))
    BY <1>2 DEF ClpRequest, IsNext
  <2>2. IsSim(Head(channel[j][Starter]))
    BY <2>1 DEF IsSim
  <2> QED
    BY <2>1, <2>2, ReceivedWhites
<1>3. ASSUME NEW i \in Alps, AlpResponse(i) \/ AlpRollback(i) PROVE WhiteAccounting'
  <2>1. /\ channel[Starter][i] # <<>> /\ Head(channel[Starter][i]).type \in {"response", "rollback"}
        /\ channel' = Taken(Starter, i) /\ drift' = drift
        /\ counter' = CountReceived(i, Head(channel[Starter][i]))
    BY <1>3 DEF AlpResponse, AlpRollback, IsNext
  <2>2. IsSim(Head(channel[Starter][i]))
    BY <2>1 DEF IsSim
  <2> QED
    BY <2>1, <2>2, ReceivedWhites
<1>4. ASSUME NEW i \in LPs, CountAndSend(i) PROVE WhiteAccounting'
  BY <1>4, SentWhites
<1>5. ASSUME NEW i \in LPs, SendControl(i) PROVE WhiteAccounting'
  <2>1. PICK q \in Seq(Passing(i)) : q = controlQueue[i]
    BY DEF TypedInv, NetTyped
  <2>2. q # <<>> /\ channel' = Put(i, Head(q).to, Head(q)) /\ counter' = counter /\ drift' = drift
    BY <1>5, <2>1 DEF SendControl, gvtVars
  <2>3. PICK m \in Passing(i) : m = Head(q)
    BY <2>2, TailFacts
  <2>4. PICK j \in LPs : j = m.to
    BY DEF Passing, ControlsFrom, Controls, Values
  <2>5. m \in Travelling(i, j) /\ m.type \in {"control", "value"}
    BY <2>4 DEF Passing, Travelling, ControlsFrom, Controls, Values
  <2> QED
    BY <2>2, <2>3, <2>4, <2>5, OtherOnTheWay
<1>6. ASSUME NEW i \in LPs, NEW j \in LPs, FirstCut(j, i) \/ SecondCut(j, i) PROVE WhiteAccounting'
  <2>1. /\ channel[j][i] # <<>> /\ Head(channel[j][i]).type = "control"
        /\ channel' = Taken(j, i) /\ drift' = drift /\ counter' = counter
    BY <1>6 DEF FirstCut, SecondCut, IsNext
  <2> QED
    BY <2>1, OtherOnTheWay
<1>7. ASSUME NEW i \in Alps, SetValue(i) PROVE WhiteAccounting'
  <2>1. /\ channel[Starter][i] # <<>> /\ Head(channel[Starter][i]).type = "value"
        /\ channel' = Taken(Starter, i) /\ drift' = drift /\ counter' = counter
    BY <1>7 DEF SetValue, IsNext
  <2> QED
    BY <2>1, OtherOnTheWay
<1>8. \E j : j \in Alps
  BY DEF Alps
<1> QED
  BY <1>1, <1>2, <1>3, <1>4, <1>5, <1>6, <1>7, <1>8 DEF Next

\* Nothing has been counted or sent at the start.
LEMMA InitWhite == Init => WhiteAccounting
<1> SUFFICES ASSUME Init, NEW j \in LPs PROVE Counted(j) = WhiteOnTheWay(j) + drift[j]
  BY DEF WhiteAccounting
<1>1. \A i \in LPs : Entry(i, j) = 0 /\ channel[i][j] = <<>>
  BY DEF Init, Entry
<1>2. Cardinality(WhitesIn(<<>>)) = 0
  <2>1. WhitesIn(<<>>) = {}
    BY DEF WhitesIn
  <2> QED
    BY <2>1, FS_EmptySet
<1>3. PICK f : f = [i \in LPs |-> Entry(i, j)]
  OBVIOUS
<1>4. PICK v : v = [i \in LPs |-> Cardinality(WhitesIn(channel[i][j]))]
  OBVIOUS
<1>5. Total(f) = 0 /\ Total(v) = 0
  BY <1>1, <1>2, <1>3, <1>4, TotalZero
<1>6. drift[j] = 0
  BY DEF Init
<1> QED
  BY <1>3, <1>4, <1>5, <1>6 DEF Counted, WhiteOnTheWay


-----------------------------------------------------------------------------
\* At the start no computation has ended and no value is on its way.
LEMMA InitValues == Init => ValueInv
<1> SUFFICES ASSUME Init PROVE ValueInv
  OBVIOUS
<1> USE NumbersFacts
<1>1. Done = 0 /\ applied[Starter] = 0
  BY DEF Init, Done
<1>2. \A i : RoundsIn(<<>>, i) = {} /\ Increasing(<<>>, i)
  <2>1. Len(<<>>) = 0 /\ 1 .. 0 = {}
    BY EmptySeq
  <2> QED
    BY <2>1 DEF RoundsIn, Increasing
<1>3. ASSUME NEW i \in Alps PROVE ValuesOnTheWay(i)
  <2>1. channel[Starter][i] = <<>> /\ controlQueue[Starter] = <<>> /\ applied[i] = 0
    BY DEF Init
  <2> QED
    BY <1>1, <1>2, <2>1 DEF ValuesOnTheWay
<1> QED
  BY <1>1, <1>3 DEF ValueInv

\* Every step keeps the values on their way in order, and lets at most one LP set one:
\* the next.
LEMMA ValueStep ==
  ASSUME IInv, TypedInv, ValueInv, [Next]_vars
  PROVE  /\ ValueInv'
         /\ applied' = applied \/ \E i \in LPs : applied' = [applied EXCEPT ![i] = applied[i] + 1]
<1> USE NumbersFacts
<1>1. Starter \in LPs /\ \E k : k \in Alps
  BY DEF Alps
<1>2. ASSUME NEW i \in LPs, NEW j \in LPs, NEW k \in Alps,
             \/ MakeRequest(k) \/ ClpRequest(k) \/ AlpResponse(k) \/ AlpRollback(k)
             \/ Stamp(i) \/ CountAndSend(i) \/ SecondCut(j, i) \/ StartRound \/ UNCHANGED vars
      PROVE  ValueInv' /\ applied' = applied
  BY <1>2, OtherValues
<1>3. ASSUME NEW i \in LPs, NEW j \in LPs, FirstCut(j, i) \/ SecondCutDone(i)
      PROVE  ValueInv' /\ \/ applied' = applied
                          \/ applied' = [applied EXCEPT ![Starter] = applied[Starter] + 1]
  BY <1>3, CutValues
<1>4. ASSUME NEW i \in LPs, SendControl(i) PROVE ValueInv' /\ applied' = applied
  <2>1. applied' = applied
    BY <1>4 DEF SendControl, gvtVars
  <2> QED
    BY <1>4, <2>1, SendControlValues
<1>5. ASSUME NEW i \in Alps, SetValue(i)
      PROVE  ValueInv' /\ applied' = [applied EXCEPT ![i] = applied[i] + 1]
  BY <1>5, SetValueValues
<1> QED
  BY <1>1, <1>2, <1>3, <1>4, <1>5 DEF Next

-----------------------------------------------------------------------------
(* The results.                                                            *)

\* What the variables hold, with no value applied that has not been computed, is
\* the type invariant.
LEMMA TypedIsTypeOK == TypedInv /\ ValueInv => TypeOK
<1> SUFFICES ASSUME TypedInv, ValueInv PROVE TypeOK
  OBVIOUS
<1> USE NumbersFacts
<1>1. LpsTyped /\ CountersTyped /\ GvtTyped
  BY DEF TypedInv
<1>2. accepting \in BOOLEAN /\ round \in 0 .. MaxRounds /\ round \in Nat
  BY <1>1 DEF GvtTyped
<1>3. ASSUME NEW i \in LPs PROVE lvt[i] \in Times \union {Infinity}
  <2>1. CASE i = Starter
    BY <1>1, <2>1 DEF LpsTyped
  <2>2. CASE i # Starter
    <3>1. i \in Alps /\ lvt[i] \in Nat /\ made[i] \in 0 .. MaxRequests /\ waiting[i] \in BOOLEAN
          /\ lvt[i] + (IF waiting[i] THEN 2 ELSE 0) <= 2 * made[i]
      BY <1>1, <2>2 DEF LpsTyped, Alps
    <3> QED
      BY <3>1 DEF Times
  <2> QED
    BY <2>1, <2>2
<1>4. ASSUME NEW i \in LPs PROVE applied[i] \in 0 .. round
  <2>1. Done \in Nat /\ Done <= round
    BY <1>2 DEF Done, ValueInv
  <2>2. applied[i] \in Nat
    BY <1>1 DEF GvtTyped
  <2>3. applied[i] <= Done
    <3>1. CASE i = Starter
      BY <2>1, <3>1 DEF ValueInv
    <3>2. CASE i # Starter
      BY <3>2 DEF ValueInv, ValuesOnTheWay, Alps
    <3> QED
      BY <3>1, <3>2
  <2> QED
    BY <1>2, <2>1, <2>2, <2>3
<1>5. ASSUME NEW i \in LPs
      PROVE  /\ waiting[i] \in BOOLEAN /\ made[i] \in 0 .. MaxRequests
             /\ colour[i] \in {"white", "red"} /\ redTime[i] \in Nat
             /\ DOMAIN counter[i] \subseteq LPs /\ gvt[i] \in Times
  BY <1>1 DEF LpsTyped, CountersTyped, GvtTyped, Colours
<1> QED
  BY <1>2, <1>3, <1>4, <1>5 DEF TypeOK

\* The computation's invariant: the control message's place, the types, the values on
\* their way and the accounts, which hold together in every state.
GvtInv == IInv /\ TypedInv /\ ValueInv /\ WhiteAccounting

\* GvtInv holds throughout.
THEOREM Invariance == Spec => []GvtInv
<1>1. Init => GvtInv
  BY InitInv, InitTyped, InitValues, InitWhite DEF GvtInv
<1>2. GvtInv /\ [Next]_vars => GvtInv'
  BY StepInv, TypedStep, ValueStep, WhiteStep DEF GvtInv
<1> QED
  BY <1>1, <1>2, PTL DEF Spec

\* Rounds never overlap: there is one control message, in one place, from the moment
\* the starter stops accepting requests to the moment it accepts them again, and
\* none at other times (fIsAcceptingRequests, GvtCalculator.cpp).
THEOREM OneRound == Spec => []OneRoundAtATime
<1>1. GvtInv => OneRoundAtATime
  BY TokenIsOneRound DEF GvtInv, IInv
<1> QED
  BY <1>1, Invariance, PTL

\* Every variable holds a value of its type, whatever the numbers of LPs, of requests
\* and of rounds: no LVT goes below zero or past two units per request, a GVT is
\* never the Infinity that stands for "none", and no LP is ahead of the rounds.
THEOREM TypeCorrect == Spec => []TypeOK
<1>1. GvtInv => TypeOK
  BY TypedIsTypeOK DEF GvtInv
<1> QED
  BY <1>1, Invariance, PTL

\* The counters of all LPs together know how many white messages are on their way to
\* each LP, up to the drift of the messages caught by a turn of colour between their
\* stamping and their counting.
THEOREM Accounting == Spec => []WhiteAccounting
<1>1. GvtInv => WhiteAccounting
  BY DEF GvtInv
<1> QED
  BY <1>1, Invariance, PTL

\* Every LP sets every GVT value, in the order in which they were computed: none is
\* skipped, repeated or overtaken, however far an LP lags behind.
THEOREM InOrder == Spec => ValuesInOrder
<1> DEFINE Ordered == [\A i \in LPs : applied'[i] \in {applied[i], applied[i] + 1}]_applied
<1>1. GvtInv /\ [Next]_vars => Ordered
  <2> SUFFICES ASSUME GvtInv, [Next]_vars, NEW i \in LPs
               PROVE  applied'[i] \in {applied[i], applied[i] + 1}
    OBVIOUS
  <2>1. applied \in [LPs -> Nat]
    BY DEF GvtInv, TypedInv, GvtTyped
  <2>2. applied' = applied \/ \E k \in LPs : applied' = [applied EXCEPT ![k] = applied[k] + 1]
    BY ValueStep DEF GvtInv
  <2> QED
    BY <2>1, <2>2
<1> QED
  BY <1>1, Invariance, PTL DEF Spec, ValuesInOrder
=============================================================================
